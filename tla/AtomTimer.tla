----------------------------- MODULE AtomTimer ------------------------------
(***************************************************************************)
(* The timer library (kernel/atomtimer.c) on top of the scheduler: the     *)
(* list of outstanding timers, the system tick that walks it and runs the  *)
(* callbacks, and atomTimerDelay.                                          *)
(*                                                                         *)
(* An ATOM_TIMER is either a static timer of the application or the one on *)
(* the stack of a blocking call.  A thread is in at most one such call, so *)
(* its stack timer is named by the thread itself.                          *)
(*                                                                         *)
(* The tick handler is not one step: the walk of the list is one step per  *)
(* timer and every callback is a step, because a callback of the           *)
(* application may itself call the kernel between two others.              *)
(***************************************************************************)
EXTENDS AtomKernel

CONSTANTS
    AppTimers,      \* the timers of the application
    Ticks,          \* the tick counts timers and timeouts are set to
    TickMod,        \* system_ticks counts modulo this (2^32 in the code)
    NewTimes        \* the values atomTimeSet is called with

ASSUME AppTimersAssumption == AppTimers \cap Threads = {}
ASSUME TicksAssumption == Ticks \subseteq Nat \ {0}
ASSUME TickModAssumption == TickMod \in Nat \ {0}
ASSUME NewTimesAssumption == NewTimes \subseteq 0..(TickMod - 1)

VARIABLES
    timerQ,         \* timer_queue, from the head
    cbTicks,        \* per timer: cb_ticks
    cbFunc,         \* per stack timer: the blocking call whose callback it is
    walk,           \* the rest of the list the tick handler still has to walk
    due,            \* the callbacks it still has to make
    systemTicks     \* system_ticks

timerVars == <<timerQ, cbTicks, cbFunc, walk, due, systemTicks>>

Timers == AppThreads \cup AppTimers
TimerLabels == KernelLabels \cup {"delay", "delayed"}

-----------------------------------------------------------------------------

TimerLibInit ==
    /\ timerQ = <<>>
    /\ cbTicks = [tm \in Timers |-> 0]
    /\ cbFunc = [t \in AppThreads |-> "delay"]
    /\ walk = <<>>
    /\ due = <<>>
    /\ systemTicks = 0

(* The tick handler has walked the list and makes a callback of the        *)
(* application, which then is the context that may call the kernel.        *)
InAppCallback ==
    intr = "tick" /\ walk = <<>> /\ due # <<>> /\ Head(due) \in AppTimers

MayCallTimer(c) == MayCall(c) \/ (c = Null /\ InAppCallback)

(* atomTimerRegister, with the parameters it has checked. *)
Register(tm, ticks) ==
    /\ timerQ' = <<tm>> \o timerQ
    /\ cbTicks' = [cbTicks EXCEPT ![tm] = ticks]

(* atomTimerCancel: ATOM_OK and the timer leaves the list, or              *)
(* ATOM_ERR_NOT_FOUND; a timer whose callback is due is on the list no     *)
(* more.                                                                   *)
Cancelable(tm) == Contains(timerQ, tm)

(* Fault: the head of the list is removed.                                 *)
CancelTimer_Head(tm) == timerQ' = Tail(timerQ)

CancelTimer(tm) == timerQ' = RemoveFirst(timerQ, tm)

-----------------------------------------------------------------------------

(* The application does not register a timer that is registered already:   *)
(* the code does not check for it.                                         *)
AppTimerRegister(tm, ticks) ==
    /\ tm \notin Range(timerQ)
    /\ Register(tm, ticks)
    /\ UNCHANGED <<kernelVars, cbFunc, walk, due, systemTicks>>

AppTimerCancel(tm) ==
    /\ Cancelable(tm)
    /\ CancelTimer(tm)
    /\ UNCHANGED <<kernelVars, cbTicks, cbFunc, walk, due, systemTicks>>

(* Fault: the thread is not marked as suspended.                           *)
atomTimerDelay_NotSuspended(t, ticks) ==
    /\ timoCb' = [timoCb EXCEPT ![t] = TRUE]
    /\ cbFunc' = [cbFunc EXCEPT ![t] = "delay"]
    /\ Register(t, ticks)
    /\ pc' = [pc EXCEPT ![t] = "delay"]
    /\ UNCHANGED <<readyQ, curr, started, intr, suspended, terminated, wakeStatus,
                   walk, due, systemTicks>>

atomTimerDelay(t, ticks) ==
    /\ suspended' = [suspended EXCEPT ![t] = TRUE]
    /\ timoCb' = [timoCb EXCEPT ![t] = TRUE]
    /\ cbFunc' = [cbFunc EXCEPT ![t] = "delay"]
    /\ Register(t, ticks)
    /\ pc' = [pc EXCEPT ![t] = "delay"]
    /\ UNCHANGED <<readyQ, curr, started, intr, terminated, wakeStatus,
                   walk, due, systemTicks>>

DelaySched(t) == CallSched(t, "delay", "delayed") /\ UNCHANGED timerVars

(* The stack frame of a blocking call, and the timer in it, are gone.      *)
DropStackTimer(t) ==
    /\ cbTicks' = [cbTicks EXCEPT ![t] = 0]
    /\ cbFunc' = [cbFunc EXCEPT ![t] = "delay"]

DelayReturn(t) ==
    /\ atomCurrentContext = t
    /\ pc[t] = "delayed"
    /\ pc' = [pc EXCEPT ![t] = "app"]
    /\ DropStackTimer(t)
    /\ UNCHANGED <<readyQ, curr, started, intr, suspended, terminated,
                   wakeStatus, timoCb, timerQ, walk, due, systemTicks>>

-----------------------------------------------------------------------------

atomTimeSet(now) ==
    /\ systemTicks' = now
    /\ UNCHANGED <<kernelVars, timerQ, cbTicks, cbFunc, walk, due>>

(* The interrupt handler of the tick: atomIntEnter, atomTimerTick,         *)
(* atomIntExit(TRUE).                                                      *)
atomTimerTick ==
    /\ TickEnter
    /\ systemTicks' = (systemTicks + 1) % TickMod
    /\ walk' = timerQ
    /\ UNCHANGED <<timerQ, cbTicks, cbFunc, due>>

(* Faults: the walk goes on after the successor of a removed timer; only   *)
(* one callback per tick is kept.                                          *)
TimerWalk_Skip ==
    LET tm == Head(walk) IN
    /\ intr = "tick"
    /\ walk # <<>>
    /\ cbTicks' = [cbTicks EXCEPT ![tm] = @ - 1]
    /\ IF cbTicks[tm] = 1
         THEN /\ timerQ' = RemoveFirst(timerQ, tm)
              /\ due' = Append(due, tm)
              /\ walk' = IF Len(walk) > 1 THEN Tail(Tail(walk)) ELSE <<>>
         ELSE walk' = Tail(walk) /\ UNCHANGED <<timerQ, due>>
    /\ UNCHANGED <<kernelVars, cbFunc, systemTicks>>
TimerWalk_OneDue ==
    LET tm == Head(walk) IN
    /\ intr = "tick"
    /\ walk # <<>>
    /\ walk' = Tail(walk)
    /\ cbTicks' = [cbTicks EXCEPT ![tm] = @ - 1]
    /\ IF cbTicks[tm] = 1
         THEN /\ timerQ' = RemoveFirst(timerQ, tm)
              /\ due' = <<tm>>
         ELSE UNCHANGED <<timerQ, due>>
    /\ UNCHANGED <<kernelVars, cbFunc, systemTicks>>

TimerWalk ==
    LET tm == Head(walk) IN
    /\ intr = "tick"
    /\ walk # <<>>
    /\ walk' = Tail(walk)
    /\ cbTicks' = [cbTicks EXCEPT ![tm] = @ - 1]
    /\ IF cbTicks[tm] = 1
         THEN /\ timerQ' = RemoveFirst(timerQ, tm)
              /\ due' = Append(due, tm)
         ELSE UNCHANGED <<timerQ, due>>
    /\ UNCHANGED <<kernelVars, cbFunc, systemTicks>>

(* The callback of thread t is the next one to make. *)
CallbackDue(t, func) ==
    /\ intr = "tick"
    /\ walk = <<>>
    /\ due # <<>>
    /\ Head(due) = t
    /\ cbFunc[t] = func

(* Fault: the flag is cleared here and not when the thread is switched in. *)
atomTimerDelayCallback_Unsuspend(t) ==
    /\ CallbackDue(t, "delay")
    /\ due' = Tail(due)
    /\ readyQ' = tcbEnqueuePriority(readyQ, t)
    /\ suspended' = [suspended EXCEPT ![t] = FALSE]
    /\ UNCHANGED <<curr, started, intr, terminated, wakeStatus, timoCb, pc,
                   timerQ, cbTicks, cbFunc, walk, systemTicks>>

atomTimerDelayCallback(t) ==
    /\ CallbackDue(t, "delay")
    /\ due' = Tail(due)
    /\ readyQ' = tcbEnqueuePriority(readyQ, t)
    /\ UNCHANGED <<curr, started, intr, suspended, terminated, wakeStatus, timoCb, pc,
                   timerQ, cbTicks, cbFunc, walk, systemTicks>>

AppCallbackReturn ==
    /\ InAppCallback
    /\ due' = Tail(due)
    /\ UNCHANGED <<kernelVars, timerQ, cbTicks, cbFunc, walk, systemTicks>>

TimerTickExit ==
    /\ walk = <<>>
    /\ due = <<>>
    /\ TickExit
    /\ UNCHANGED timerVars

-----------------------------------------------------------------------------

(* The steps of the scheduler, with the timers left alone. *)
KernelStep ==
    /\ \/ atomOSStart
       \/ \E c \in Contexts, t \in AppThreads :
              MayCallTimer(c) /\ atomThreadCreate(c, t)
       \/ \E t \in AppThreads : Resched(t) \/ ThreadExit(t) \/ ThreadExitSched(t)
       \/ IrqEnter
       \/ IrqExit
    /\ UNCHANGED timerVars

TimerCall ==
    \/ \E t \in AppThreads, ticks \in Ticks : MayCall(t) /\ atomTimerDelay(t, ticks)
    \/ \E t \in AppThreads : DelaySched(t) \/ DelayReturn(t)
    \/ \E c \in Contexts, tm \in AppTimers :
           /\ MayCallTimer(c)
           /\ \/ \E ticks \in Ticks : AppTimerRegister(tm, ticks)
              \/ AppTimerCancel(tm)
    \/ \E c \in Contexts, now \in NewTimes : MayCallTimer(c) /\ atomTimeSet(now)

TickHandler ==
    \/ TimerWalk
    \/ \E t \in AppThreads : atomTimerDelayCallback(t)
    \/ AppCallbackReturn
    \/ TimerTickExit

TimerInit == KernelInit /\ TimerLibInit
TimerNext == KernelStep \/ TimerCall \/ atomTimerTick \/ TickHandler

vars == <<kernelVars, timerVars>>
TimerSpec == TimerInit /\ [][TimerNext]_vars

-----------------------------------------------------------------------------

TimerLibTypeOK ==
    /\ timerQ \in Seq(Timers)
    /\ cbTicks \in [Timers -> Nat]
    /\ DOMAIN cbFunc = AppThreads
    /\ walk \in Seq(Timers)
    /\ due \in Seq(Timers)
    /\ systemTicks \in 0..(TickMod - 1)

TimerTypeOK ==
    /\ KernelTypeOK
    /\ TimerLibTypeOK
    /\ cbFunc \in [AppThreads -> {"delay"}]
    /\ pc \in [Threads -> TimerLabels]

(* The threads in atomTimerDelay whose callback is still to come. *)
PendingTimers == Range(timerQ) \cup Range(due)
DelayedThreads == { t \in AppThreads : t \in PendingTimers /\ cbFunc[t] = "delay" }

(* Every live thread is in exactly one place, delays included: a delayed   *)
(* thread is woken by its one callback, once, and the tick that wakes a    *)
(* thread before it has called atomSched does not lose or duplicate it.    *)
TimerPlacement == TimerTypeOK /\ Placement(DelayedThreads)

(* No timer is twice on the timer list or the callback list, and what the  *)
(* tick handler has still to walk is on the timer list.  The timer of a    *)
(* delay is on the stack of the thread: it is listed only while the thread *)
(* is inside the call, and never on both lists.                            *)
TimerListsSound ==
    /\ NoDuplicates(timerQ) /\ NoDuplicates(due) /\ NoDuplicates(walk)
    /\ Range(walk) \subseteq Range(timerQ)
    /\ \A tm \in Range(timerQ) : cbTicks[tm] > 0
    /\ Range(timerQ) \cap Range(due) \cap AppThreads = {}
    /\ \A t \in PendingTimers \cap AppThreads :
          pc[t] \in {"delay", "delayed"} /\ suspended[t] /\ timoCb[t]
=============================================================================
