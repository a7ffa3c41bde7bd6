---------------------------- MODULE AtomSuspend -----------------------------
(***************************************************************************)
(* What the blocking calls of the semaphores, mutexes and message queues   *)
(* do alike: suspend the caller on an object, with or without a timeout,   *)
(* wake a thread with a status and cancel its timeout, go on to atomSched. *)
(* The object a thread waits on names its timeout callback (cbFunc).       *)
(***************************************************************************)
EXTENDS AtomTimer

(* "get": queued on an object, about to call atomSched; "got": inside the  *)
(* blocking call after atomSched has returned.                             *)
SuspendLabels == TimerLabels \cup {"get", "got"}

(* Fault: a thread that wakes another one does not call atomSched.         *)
PcResched_NoSched(c) == UNCHANGED pc

(* The caller goes on to atomSched if it is a thread; atomIntExit does it  *)
(* for an interrupt handler.                                               *)
PcResched(c) ==
    pc' = [t \in Threads |-> IF t = c THEN "resched" ELSE pc[t]]

-----------------------------------------------------------------------------

(* The calling thread, which has been put on a suspend queue of obj, is    *)
(* marked as suspended and its timeout is registered unless it is 0.       *)
Suspend(t, obj, timeout) ==
    /\ suspended' = [suspended EXCEPT ![t] = TRUE]
    /\ timoCb' = [timoCb EXCEPT ![t] = (timeout # 0)]
    /\ IF timeout # 0
         THEN Register(t, timeout) /\ cbFunc' = [cbFunc EXCEPT ![t] = obj]
         ELSE UNCHANGED <<timerQ, cbTicks, cbFunc>>
    /\ pc' = [pc EXCEPT ![t] = "get"]
    /\ UNCHANGED <<readyQ, curr, started, intr, terminated, wakeStatus,
                   walk, due, systemTicks>>

SuspendSched(t) == CallSched(t, "get", "got") /\ UNCHANGED timerVars

(* The call ends and its stack frame is gone. *)
LeaveCall(t) ==
    /\ atomCurrentContext = t
    /\ pc[t] = "got"
    /\ pc' = [pc EXCEPT ![t] = "app"]
    /\ DropStackTimer(t)
    /\ UNCHANGED <<curr, started, intr, suspended, terminated, walk, due, systemTicks>>

(* The call returns with wakeStatus[t]. *)
SuspendReturn(t) ==
    LeaveCall(t) /\ UNCHANGED <<readyQ, wakeStatus, timoCb, timerQ>>

(* t, which has been taken off its suspend queue, is made ready. *)
WakeUp(t, status) ==
    /\ wakeStatus' = [wakeStatus EXCEPT ![t] = status]
    /\ readyQ' = tcbEnqueuePriority(readyQ, t)

(* Fault: the timeout stays registered.                                    *)
CancelTimeout_None(t) == UNCHANGED <<timerQ, timoCb>>

(* Cancel the timeout of t, if there is one.  If that fails                *)
(* (ATOM_ERR_TIMER) suspend_timo_cb stays set.                             *)
CancelTimeoutFails(t) == timoCb[t] /\ ~ Cancelable(t)
CancelTimeout(t) ==
    IF CancelTimeoutFails(t)
      THEN UNCHANGED <<timerQ, timoCb>>
      ELSE /\ IF timoCb[t] THEN CancelTimer(t) ELSE UNCHANGED timerQ
           /\ timoCb' = [timoCb EXCEPT ![t] = FALSE]

(* The timeout callback of a thread that waits on obj: it clears           *)
(* suspend_timo_cb, takes the thread off the queue and wakes it.           *)
Timeout(t, obj) ==
    /\ CallbackDue(t, obj)
    /\ due' = Tail(due)
    /\ timoCb' = [timoCb EXCEPT ![t] = FALSE]
    /\ WakeUp(t, "ATOM_TIMEOUT")
    /\ UNCHANGED <<curr, started, intr, suspended, terminated, pc,
                   timerQ, cbTicks, cbFunc, walk, systemTicks>>

-----------------------------------------------------------------------------

(* A timeout that is pending, on the timer list or among the due           *)
(* callbacks, is that of a thread still inside the call and still waiting  *)
(* on that object: its stack frame is valid, and a thread that was woken   *)
(* for another reason is not woken again.                                  *)
StackTimersSound(waitersOn(_), Objects) ==
    \A t \in PendingTimers \cap AppThreads :
        \/ cbFunc[t] = "delay" /\ pc[t] \in {"delay", "delayed"} /\ suspended[t]
        \/ /\ cbFunc[t] \in Objects
           /\ t \in waitersOn(cbFunc[t])
           /\ pc[t] \in {"get", "got"}
           /\ timoCb[t]

(* A thread that waits with a timeout has its timer pending: no wake-up of *)
(* others, no callback and no cancellation makes it wait for ever.         *)
TimeoutsArmed(waitersOn(_), Objects) ==
    \A obj \in Objects : \A t \in waitersOn(obj) :
        timoCb[t] => t \in PendingTimers /\ cbFunc[t] = obj

(* The pairs of threads of equal priority in a queue, in the order in      *)
(* which the queue has them: all that the order of a queue means to those  *)
(* who wait in it, their priorities apart.                                 *)
TiesInOrder(q) ==
    { pair \in Range(q) \X Range(q) :
        \E i, j \in 1..Len(q) :
            i < j /\ pair = <<q[i], q[j]>> /\ Prio[q[i]] = Prio[q[j]] }
=============================================================================
