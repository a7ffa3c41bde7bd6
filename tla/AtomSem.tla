------------------------------ MODULE AtomSem -------------------------------
(***************************************************************************)
(* The counting semaphores (kernel/atomsem.c) on top of the scheduler and  *)
(* the timers: get with its three kinds of timeout, put, delete, create    *)
(* and reset, from threads, interrupt handlers and timer callbacks.        *)
(*                                                                         *)
(* Every critical section is one action.  The steps in between are where   *)
(* interrupts and other threads come in: after a get has queued the thread *)
(* and before it calls atomSched, between two wake-ups of a delete, after  *)
(* a put has woken a thread and before that thread runs.                   *)
(***************************************************************************)
EXTENDS AtomSuspend

CONSTANTS
    Sems,           \* the semaphores
    MaxCount,       \* the limit of count (255 in the code)
    InitCounts,     \* the counts semaphores are created with
    ResetCounts,    \* the counts atomSemResetCount is called with
    CallbacksWake   \* whether callbacks of AppTimers put or delete semaphores

ASSUME SemsAssumption == "delay" \notin Sems /\ Null \notin Sems
ASSUME MaxCountAssumption == MaxCount \in Nat \ {0}
ASSUME CountsAssumption == InitCounts \cup ResetCounts \subseteq 0..MaxCount
ASSUME CallbacksWakeAssumption == CallbacksWake \in BOOLEAN

VARIABLES
    count,          \* per semaphore: count
    suspQ,          \* per semaphore: suspQ
    deleting,       \* per context: the semaphore its atomSemDelete is deleting
    wokenThreads    \* per context: woken_threads of its atomSemDelete

semVars == <<count, suspQ, deleting, wokenThreads>>

(* "semdel": between two critical sections of atomSemDelete.               *)
SemLabels == SuspendLabels \cup {"semdel"}

-----------------------------------------------------------------------------

SemLibInit ==
    /\ count \in [Sems -> InitCounts]
    /\ suspQ = [s \in Sems |-> <<>>]
    /\ deleting = [c \in Contexts |-> Null]
    /\ wokenThreads = [c \in Contexts |-> FALSE]

(* A context that is inside atomSemDelete makes no other call. *)
MayCallSem(c) == MayCallTimer(c) /\ deleting[c] = Null

(* A context that may call a function that wakes threads. *)
MayWake(c) == MayCallSem(c) /\ (InAppCallback => CallbacksWake)

-----------------------------------------------------------------------------

(* Discipline: nobody waits on a semaphore that is created anew.           *)
atomSemCreate(s, n) ==
    /\ suspQ[s] = <<>>
    /\ count' = [count EXCEPT ![s] = n]
    /\ suspQ' = [suspQ EXCEPT ![s] = <<>>]
    /\ UNCHANGED <<kernelVars, timerVars, deleting, wokenThreads>>

atomSemResetCount(s, n) ==
    /\ count' = [count EXCEPT ![s] = n]
    /\ UNCHANGED <<kernelVars, timerVars, suspQ, deleting, wokenThreads>>

(* The count is not zero: any context, any timeout. *)
SemGetDecrement(s) ==
    /\ count[s] > 0
    /\ count' = [count EXCEPT ![s] = @ - 1]
    /\ UNCHANGED <<kernelVars, timerVars, suspQ, deleting, wokenThreads>>

(* The count is zero and timeout >= 0: the calling thread is queued.  A    *)
(* timeout of -1 (ATOM_WOULDBLOCK) and an interrupt handler                *)
(* (ATOM_ERR_CONTEXT) change nothing.                                      *)
SemGetBlock(t, s, timeout) ==
    /\ count[s] = 0
    /\ suspQ' = [suspQ EXCEPT ![s] = tcbEnqueuePriority(@, t)]
    /\ Suspend(t, s, timeout)
    /\ UNCHANGED <<count, deleting, wokenThreads>>

SemGetSched(t) == SuspendSched(t) /\ UNCHANGED semVars
SemGetReturn(t) == SuspendReturn(t) /\ UNCHANGED semVars

(* A thread waits: the count stays zero and the head of the queue gets the *)
(* token.  It has been woken even if its timeout cannot be cancelled.      *)
SemPutWake(c, s) ==
    LET next == tcbDequeueHead(suspQ[s])
    IN  /\ suspQ[s] # <<>>
        /\ suspQ' = [suspQ EXCEPT ![s] = next.queue]
        /\ WakeUp(next.tcb, "ATOM_OK")
        /\ CancelTimeout(next.tcb)
        /\ PcResched(c)
        /\ UNCHANGED <<curr, started, intr, suspended, terminated,
                       cbTicks, cbFunc, walk, due, systemTicks,
                       count, deleting, wokenThreads>>

(* Nobody waits.  At the limit nothing changes (ATOM_ERR_OVF). *)
SemPutIncrement(s) ==
    /\ suspQ[s] = <<>>
    /\ count[s] < MaxCount
    /\ count' = [count EXCEPT ![s] = @ + 1]
    /\ UNCHANGED <<kernelVars, timerVars, suspQ, deleting, wokenThreads>>

-----------------------------------------------------------------------------

(* atomSemDelete: a critical section per waiting thread. *)
SemDeleteStart(c, s) ==
    /\ deleting' = [deleting EXCEPT ![c] = s]
    /\ pc' = [t \in Threads |-> IF t = c THEN "semdel" ELSE pc[t]]
    /\ UNCHANGED <<readyQ, curr, started, intr, suspended, terminated,
                   wakeStatus, timoCb, timerVars, count, suspQ, wokenThreads>>

InSemDelete(c, s) ==
    /\ c = atomCurrentContext
    /\ deleting[c] = s

(* The end of the loop: reschedule if anything was woken. *)
SemDeleteLeave(c) ==
    /\ deleting' = [deleting EXCEPT ![c] = Null]
    /\ wokenThreads' = [wokenThreads EXCEPT ![c] = FALSE]
    /\ pc' = [t \in Threads |-> IF t # c THEN pc[t]
                                ELSE IF wokenThreads[c] THEN "resched" ELSE "app"]

SemDeleteWake(c, s) ==
    LET next == tcbDequeueHead(suspQ[s])
    IN  /\ InSemDelete(c, s)
        /\ suspQ[s] # <<>>
        /\ suspQ' = [suspQ EXCEPT ![s] = next.queue]
        /\ WakeUp(next.tcb, "ATOM_ERR_DELETED")
        /\ CancelTimeout(next.tcb)
        /\ IF CancelTimeoutFails(next.tcb)
             THEN SemDeleteLeave(c)
             ELSE /\ wokenThreads' = [wokenThreads EXCEPT ![c] = TRUE]
                  /\ UNCHANGED <<deleting, pc>>
        /\ UNCHANGED <<curr, started, intr, suspended, terminated,
                       cbTicks, cbFunc, walk, due, systemTicks, count>>

SemDeleteEnd(c, s) ==
    /\ InSemDelete(c, s)
    /\ suspQ[s] = <<>>
    /\ SemDeleteLeave(c)
    /\ UNCHANGED <<readyQ, curr, started, intr, suspended, terminated,
                   wakeStatus, timoCb, timerVars, count, suspQ>>

-----------------------------------------------------------------------------

(* Fault: the status is not written.                                       *)
atomSemTimerCallback_NoStatus(t, s) ==
    /\ CallbackDue(t, s)
    /\ due' = Tail(due)
    /\ timoCb' = [timoCb EXCEPT ![t] = FALSE]
    /\ suspQ' = [suspQ EXCEPT ![s] = tcbDequeueEntry(@, t).queue]
    /\ readyQ' = tcbEnqueuePriority(readyQ, t)
    /\ UNCHANGED <<curr, started, intr, suspended, terminated, pc, wakeStatus,
                   timerQ, cbTicks, cbFunc, walk, systemTicks,
                   count, deleting, wokenThreads>>

(* The timeout of a get, run by the tick handler. *)
atomSemTimerCallback(t, s) ==
    /\ Timeout(t, s)
    /\ suspQ' = [suspQ EXCEPT ![s] = tcbDequeueEntry(@, t).queue]
    /\ UNCHANGED <<count, deleting, wokenThreads>>

-----------------------------------------------------------------------------

SemCall ==
    \E c \in Contexts, s \in Sems :
        \/ /\ MayCallSem(c)
           /\ \/ SemGetDecrement(s)
              \/ \E n \in InitCounts : atomSemCreate(s, n)
              \/ \E n \in ResetCounts : atomSemResetCount(s, n)
        \/ /\ MayWake(c)
           /\ SemPutWake(c, s) \/ SemPutIncrement(s) \/ SemDeleteStart(c, s)

SemGetWait ==
    \E t \in AppThreads :
        \/ MayCall(t) /\ \E s \in Sems, timeout \in Ticks \cup {0} : SemGetBlock(t, s, timeout)
        \/ SemGetSched(t)
        \/ SemGetReturn(t)

SemDeleteStep(c) == \E s \in Sems : SemDeleteWake(c, s) \/ SemDeleteEnd(c, s)

SemTimeout == \E t \in AppThreads, s \in Sems : atomSemTimerCallback(t, s)

(* The steps of the scheduler and of the timers.  An interrupt handler, a  *)
(* callback or main() does not go on while it is inside atomSemDelete.     *)
OtherStep ==
    /\ TimerNext
    /\ atomCurrentContext = Null => deleting[Null] = Null
    /\ UNCHANGED semVars

SemInit == TimerInit /\ SemLibInit
SemNext ==
    \/ SemCall
    \/ SemGetWait
    \/ \E c \in Contexts : SemDeleteStep(c)
    \/ SemTimeout
    \/ OtherStep

allVars == <<kernelVars, timerVars, semVars>>
SemSpec == SemInit /\ [][SemNext]_allVars

(* The hardware keeps a tick pending until it is served, and the handlers  *)
(* of the tick and of other interrupts, callbacks of the application and   *)
(* deletions in them included, are finite.  Nothing is assumed of the      *)
(* threads.                                                                *)
SemFairness ==
    /\ SF_allVars(atomTimerTick /\ UNCHANGED semVars)
    /\ WF_allVars(TimerWalk /\ UNCHANGED semVars)
    /\ WF_allVars((\E t \in AppThreads : atomTimerDelayCallback(t)) /\ UNCHANGED semVars)
    /\ WF_allVars(SemTimeout)
    /\ SF_allVars(AppCallbackReturn /\ deleting[Null] = Null /\ UNCHANGED semVars)
    /\ WF_allVars(TimerTickExit /\ UNCHANGED semVars)
    /\ SF_allVars(IrqExit /\ deleting[Null] = Null /\ UNCHANGED <<timerVars, semVars>>)
    /\ WF_allVars(SemDeleteStep(Null))

FairSemSpec == SemSpec /\ SemFairness

-----------------------------------------------------------------------------

SemTypeOK ==
    /\ KernelTypeOK
    /\ TimerLibTypeOK
    /\ cbFunc \in [AppThreads -> {"delay"} \cup Sems]
    /\ pc \in [Threads -> SemLabels]
    /\ count \in [Sems -> 0..MaxCount]
    /\ suspQ \in [Sems -> Seq(AppThreads)]
    /\ deleting \in [Contexts -> Sems \cup {Null}]
    /\ wokenThreads \in [Contexts -> BOOLEAN]

SemWaiters(s) == Range(suspQ[s])
AllWaiters == UNION { SemWaiters(s) : s \in Sems }

(* Every live thread is in exactly one place: running, ready, in a delay   *)
(* or on one suspend queue, and suspend queues are in priority order.  No  *)
(* interleaving of puts, deletes, timeouts, interrupts and preemptions     *)
(* loses a thread or has it woken twice.                                   *)
SemPlacement ==
    /\ SemTypeOK
    /\ DelayedThreads \cap AllWaiters = {}
    /\ \A s, r \in Sems : s # r => SemWaiters(s) \cap SemWaiters(r) = {}
    /\ Placement(DelayedThreads \cup AllWaiters)
    /\ \A s \in Sems : IsTcbQueue(suspQ[s])

(* A listed timeout belongs to a thread that waits on that semaphore, and  *)
(* each wait with a timeout has one listed.                                *)
TimeoutsSound ==
    /\ StackTimersSound(SemWaiters, Sems)
    /\ TimeoutsArmed(SemWaiters, Sems)

HighestPriorityWithSems == HighestPriority({"app", "delayed", "got"})

(* How a wait ends is decided once: a thread that has been woken, but has  *)
(* not returned from atomSemGet yet, keeps its status and is not woken     *)
(* again ("if the thread was not already woken, the call will return with  *)
(* ATOM_TIMEOUT").                                                         *)
OutcomeIsFinal ==
    [][ \A t \in AppThreads :
          pc[t] \in {"get", "got"} /\ t \notin AllWaiters =>
              wakeStatus'[t] = wakeStatus[t] /\ t \notin AllWaiters'
      ]_allVars

(* A thread that waits with a timeout, or delays, becomes ready, whatever  *)
(* puts, deletions, resets of the count, cancellations of other timeouts   *)
(* and interrupts come in between.                                         *)
TimedThreads == DelayedThreads \cup { t \in AllWaiters : timoCb[t] }
TimedWaitEnds == \A t \in AppThreads : t \in TimedThreads ~> t \in ReadyThreads
=============================================================================
