----------------------------- MODULE AtomQueue ------------------------------
(***************************************************************************)
(* A message queue (kernel/atomqueue.c) on top of the scheduler and the    *)
(* timers: messages in a ring buffer, and two lists of threads that wait,  *)
(* to get from an empty queue and to put on a full one.                    *)
(*                                                                         *)
(* As in AtomSem every critical section is one action.  A waiting thread   *)
(* that is woken does its part in a second critical section, when it runs  *)
(* again: it does not look at the number of messages a second time, and it *)
(* does not call atomSched afterwards.                                     *)
(***************************************************************************)
EXTENDS AtomSuspend

CONSTANTS
    Msgs,               \* the messages
    MaxMsgs,            \* max_num_msgs
    NumMod,             \* num_msgs_stored counts modulo this (2^32 in the code)
    Uses,               \* the ways in which an application may use the queue
    CallbacksWake       \* whether callbacks of AppTimers use the queue

ASSUME MsgsAssumption == Null \notin Msgs
ASSUME MaxMsgsAssumption == MaxMsgs \in Nat \ {0} /\ NumMod \in Nat /\ NumMod > MaxMsgs
(* getters and putters call atomQueueGet and atomQueuePut, patient threads *)
(* call them with a timeout of 0 or more.                                  *)
ASSUME UsesAssumption ==
    Uses \subseteq [getters : SUBSET (AppThreads \cup {Null}),
                    putters : SUBSET (AppThreads \cup {Null}),
                    patient : SUBSET AppThreads]
ASSUME CallbacksWakeAssumption == CallbacksWake \in BOOLEAN

VARIABLES
    use,            \* how the application uses the queue: one of Uses, for good
    buff,           \* the messages in the buffer, one per unit_size bytes
    insertIndex,    \* insert_index, in messages
    removeIndex,    \* remove_index, in messages
    numMsgs,        \* num_msgs_stored
    suspQ,          \* getSuspQ and putSuspQ
    sending,        \* per thread: the message of its blocking atomQueuePut
    deleting,       \* the contexts inside atomQueueDelete
    wokenThreads    \* per context: woken_threads of its atomQueueDelete

queueVars == <<buff, insertIndex, removeIndex, numMsgs,
               suspQ, sending, deleting, wokenThreads>>

Sides == {"getSuspQ", "putSuspQ"}
Slots == 0..(MaxMsgs - 1)

(* "quedel": between two critical sections of atomQueueDelete.             *)
QueueLabels == SuspendLabels \cup {"quedel"}

-----------------------------------------------------------------------------

QueueLibInit ==
    /\ use \in Uses
    /\ buff = [i \in Slots |-> Null]
    /\ insertIndex = 0
    /\ removeIndex = 0
    /\ numMsgs = 0
    /\ suspQ = [side \in Sides |-> <<>>]
    /\ sending = [t \in AppThreads |-> Null]
    /\ deleting = {}
    /\ wokenThreads = [c \in Contexts |-> FALSE]

(* A context that is inside atomQueueDelete makes no other call. *)
MayCallQueue(c) ==
    /\ MayCallTimer(c)
    /\ c \notin deleting
    /\ InAppCallback => CallbacksWake

(* Discipline: no thread is inside a call on a queue that is created anew. *)
atomQueueCreate ==
    /\ \A t \in AppThreads : pc[t] \notin {"get", "got"}
    /\ insertIndex' = 0
    /\ removeIndex' = 0
    /\ numMsgs' = 0
    /\ suspQ' = [side \in Sides |-> <<>>]
    /\ UNCHANGED <<kernelVars, timerVars, buff, sending, deleting, wokenThreads>>

-----------------------------------------------------------------------------

(* The end of queue_remove and queue_insert: the head of a suspend queue,  *)
(* if there is one, is made ready and its timeout cancelled.               *)
WakeOne(side) ==
    IF suspQ[side] = <<>>
      THEN UNCHANGED <<suspQ, readyQ, wakeStatus, timerQ, timoCb>>
      ELSE LET next == tcbDequeueHead(suspQ[side])
           IN  /\ suspQ' = [suspQ EXCEPT ![side] = next.queue]
               /\ WakeUp(next.tcb, "ATOM_OK")
               /\ CancelTimeout(next.tcb)

queue_remove ==
    /\ removeIndex' = IF removeIndex + 1 >= MaxMsgs THEN 0 ELSE removeIndex + 1
    /\ numMsgs' = (numMsgs - 1) % NumMod
    /\ WakeOne("putSuspQ")
    /\ UNCHANGED <<buff, insertIndex>>

(* Faults: the message goes where the next one is removed; nobody is       *)
(* woken; a message for a waiting thread is not counted.                   *)
queue_insert_Front(m) ==
    /\ buff' = [buff EXCEPT ![removeIndex] = m]
    /\ insertIndex' = IF insertIndex + 1 >= MaxMsgs THEN 0 ELSE insertIndex + 1
    /\ numMsgs' = (numMsgs + 1) % NumMod
    /\ WakeOne("getSuspQ")
    /\ UNCHANGED removeIndex
queue_insert_NoWake(m) ==
    /\ buff' = [buff EXCEPT ![insertIndex] = m]
    /\ insertIndex' = IF insertIndex + 1 >= MaxMsgs THEN 0 ELSE insertIndex + 1
    /\ numMsgs' = (numMsgs + 1) % NumMod
    /\ UNCHANGED <<removeIndex, suspQ, readyQ, wakeStatus, timerQ, timoCb>>
queue_insert_NotCounted(m) ==
    /\ buff' = [buff EXCEPT ![insertIndex] = m]
    /\ insertIndex' = IF insertIndex + 1 >= MaxMsgs THEN 0 ELSE insertIndex + 1
    /\ numMsgs' = IF suspQ["getSuspQ"] = <<>> THEN (numMsgs + 1) % NumMod ELSE numMsgs
    /\ WakeOne("getSuspQ")
    /\ UNCHANGED removeIndex

queue_insert(m) ==
    /\ buff' = [buff EXCEPT ![insertIndex] = m]
    /\ insertIndex' = IF insertIndex + 1 >= MaxMsgs THEN 0 ELSE insertIndex + 1
    /\ numMsgs' = (numMsgs + 1) % NumMod
    /\ WakeOne("getSuspQ")
    /\ UNCHANGED removeIndex

-----------------------------------------------------------------------------

(* What no critical section of a get or put changes. *)
CallFrame ==
    UNCHANGED <<curr, started, intr, suspended, terminated, cbTicks, cbFunc,
                walk, due, systemTicks, sending, deleting, wokenThreads>>

(* There is a message: any context, any timeout. *)
QueueGetNow(c) ==
    /\ numMsgs # 0
    /\ queue_remove
    /\ PcResched(c)
    /\ CallFrame

(* There is space: any context, any timeout. *)
QueuePutNow(c, m) ==
    /\ numMsgs # MaxMsgs
    /\ queue_insert(m)
    /\ PcResched(c)
    /\ CallFrame

(* The calling thread waits.  A timeout of -1 (ATOM_WOULDBLOCK) and an     *)
(* interrupt handler (ATOM_ERR_CONTEXT) change nothing.                    *)
QueueBlock(t, side, timeout) ==
    /\ suspQ' = [suspQ EXCEPT ![side] = tcbEnqueuePriority(@, t)]
    /\ Suspend(t, side, timeout)
    /\ UNCHANGED <<buff, insertIndex, removeIndex, numMsgs, deleting, wokenThreads>>

QueueGetBlock(t, timeout) ==
    /\ numMsgs = 0
    /\ QueueBlock(t, "getSuspQ", timeout)
    /\ UNCHANGED sending

QueuePutBlock(t, m, timeout) ==
    /\ numMsgs = MaxMsgs
    /\ QueueBlock(t, "putSuspQ", timeout)
    /\ sending' = [sending EXCEPT ![t] = m]

QueueSched(t) == SuspendSched(t) /\ UNCHANGED queueVars

(* The second critical section of a thread that was woken with ATOM_OK,    *)
(* and the return of one that was not.                                     *)
QueueReturn(t) ==
    /\ LeaveCall(t)
    /\ IF wakeStatus[t] # "ATOM_OK"
         THEN UNCHANGED <<buff, insertIndex, removeIndex, numMsgs, suspQ,
                          readyQ, wakeStatus, timerQ, timoCb>>
         ELSE IF sending[t] = Null THEN queue_remove ELSE queue_insert(sending[t])
    /\ sending' = [sending EXCEPT ![t] = Null]
    /\ UNCHANGED <<deleting, wokenThreads>>

-----------------------------------------------------------------------------

(* atomQueueDelete: a critical section per waiting thread, the receivers   *)
(* first; the messages stay.                                               *)
QueueDeleteStart(c) ==
    /\ deleting' = deleting \cup {c}
    /\ pc' = [t \in Threads |-> IF t = c THEN "quedel" ELSE pc[t]]
    /\ UNCHANGED <<readyQ, curr, started, intr, suspended, terminated, wakeStatus,
                   timoCb, timerVars, buff, insertIndex, removeIndex, numMsgs,
                   suspQ, sending, wokenThreads>>

(* The end of the loop: reschedule if anything was woken. *)
QueueDeleteLeave(c) ==
    /\ deleting' = deleting \ {c}
    /\ wokenThreads' = [wokenThreads EXCEPT ![c] = FALSE]
    /\ pc' = [t \in Threads |-> IF t # c THEN pc[t]
                                ELSE IF wokenThreads[c] THEN "resched" ELSE "app"]

DeleteSide == IF suspQ["getSuspQ"] # <<>> THEN "getSuspQ" ELSE "putSuspQ"

QueueDeleteWake(c) ==
    LET next == tcbDequeueHead(suspQ[DeleteSide])
    IN  /\ c = atomCurrentContext /\ c \in deleting
        /\ suspQ[DeleteSide] # <<>>
        /\ suspQ' = [suspQ EXCEPT ![DeleteSide] = next.queue]
        /\ WakeUp(next.tcb, "ATOM_ERR_DELETED")
        /\ CancelTimeout(next.tcb)
        /\ IF CancelTimeoutFails(next.tcb)
             THEN QueueDeleteLeave(c)
             ELSE /\ wokenThreads' = [wokenThreads EXCEPT ![c] = TRUE]
                  /\ UNCHANGED <<deleting, pc>>
        /\ UNCHANGED <<curr, started, intr, suspended, terminated, cbTicks, cbFunc,
                       walk, due, systemTicks, buff, insertIndex, removeIndex,
                       numMsgs, sending>>

QueueDeleteEnd(c) ==
    /\ c = atomCurrentContext /\ c \in deleting
    /\ suspQ[DeleteSide] = <<>>
    /\ QueueDeleteLeave(c)
    /\ UNCHANGED <<readyQ, curr, started, intr, suspended, terminated, wakeStatus,
                   timoCb, timerVars, buff, insertIndex, removeIndex, numMsgs,
                   suspQ, sending>>

(* Fault: the thread is removed from the receivers, wherever it waits.     *)
atomQueueTimerCallback_GetSide(t, side) ==
    /\ Timeout(t, side)
    /\ suspQ' = [suspQ EXCEPT !["getSuspQ"] = tcbDequeueEntry(@, t).queue]
    /\ UNCHANGED <<buff, insertIndex, removeIndex, numMsgs,
                   sending, deleting, wokenThreads>>

(* The timeout of a get or put, run by the tick handler. *)
atomQueueTimerCallback(t, side) ==
    /\ Timeout(t, side)
    /\ suspQ' = [suspQ EXCEPT ![side] = tcbDequeueEntry(@, t).queue]
    /\ UNCHANGED <<buff, insertIndex, removeIndex, numMsgs,
                   sending, deleting, wokenThreads>>

-----------------------------------------------------------------------------

QueueCall ==
    \E c \in Contexts :
        /\ MayCallQueue(c)
        /\ \/ atomQueueCreate
           \/ c \in use.getters /\ QueueGetNow(c)
           \/ c \in use.putters /\ \E m \in Msgs : QueuePutNow(c, m)
           \/ QueueDeleteStart(c)

QueueWait ==
    \E t \in use.patient :
        \/ /\ MayCall(t)
           /\ \E timeout \in Ticks \cup {0} :
                 \/ t \in use.getters /\ QueueGetBlock(t, timeout)
                 \/ t \in use.putters /\ \E m \in Msgs : QueuePutBlock(t, m, timeout)
        \/ QueueSched(t)
        \/ QueueReturn(t)

QueueDeleteStep(c) == QueueDeleteWake(c) \/ QueueDeleteEnd(c)

QueueTimeout == \E t \in AppThreads, side \in Sides : atomQueueTimerCallback(t, side)

(* The steps of the scheduler and of the timers.  An interrupt handler, a  *)
(* callback or main() does not go on while it is inside atomQueueDelete.   *)
OtherStep ==
    /\ TimerNext
    /\ atomCurrentContext = Null => Null \notin deleting
    /\ UNCHANGED queueVars

QueueInit == TimerInit /\ QueueLibInit
QueueNext ==
    /\ UNCHANGED use
    /\ \/ QueueCall
       \/ QueueWait
       \/ \E c \in Contexts : QueueDeleteStep(c)
       \/ QueueTimeout
       \/ OtherStep

allVars == <<kernelVars, timerVars, queueVars, use>>
QueueSpec == QueueInit /\ [][QueueNext]_allVars

-----------------------------------------------------------------------------

QueueTypeOK ==
    /\ KernelTypeOK
    /\ TimerLibTypeOK
    /\ cbFunc \in [AppThreads -> {"delay"} \cup Sides]
    /\ pc \in [Threads -> QueueLabels]
    /\ use \in Uses
    /\ buff \in [Slots -> Msgs \cup {Null}]
    /\ insertIndex \in Slots
    /\ removeIndex \in Slots
    /\ numMsgs \in 0..(NumMod - 1)
    /\ suspQ \in [Sides -> Seq(AppThreads)]
    /\ sending \in [AppThreads -> Msgs \cup {Null}]
    /\ deleting \subseteq Contexts
    /\ wokenThreads \in [Contexts -> BOOLEAN]

WaitersOn(side) == Range(suspQ[side])
AllWaiters == UNION { WaitersOn(side) : side \in Sides }

(* Every live thread is in exactly one place: running, ready, in a delay,  *)
(* or waiting to get or to put, never both.                                *)
QueuePlacement ==
    /\ QueueTypeOK
    /\ DelayedThreads \cap AllWaiters = {}
    /\ WaitersOn("getSuspQ") \cap WaitersOn("putSuspQ") = {}
    /\ Placement(DelayedThreads \cup AllWaiters)
    /\ \A side \in Sides : IsTcbQueue(suspQ[side])

(* A listed timeout belongs to a thread that waits on that side, and each  *)
(* wait with a timeout has one listed.                                     *)
TimeoutsSound ==
    /\ StackTimersSound(WaitersOn, Sides)
    /\ TimeoutsArmed(WaitersOn, Sides)

(* The threads that were woken to get, or to put, and have not done so.    *)
Woken(side) ==
    { t \in AppThreads : /\ pc[t] \in {"get", "got"}
                         /\ t \notin AllWaiters
                         /\ wakeStatus[t] = "ATOM_OK"
                         /\ (sending[t] = Null) = (side = "getSuspQ") }

(* "Assumes that there is a message present, which is already checked by   *)
(* the calling functions", "that the queue has space for one message": a   *)
(* woken thread finds what it was woken for.                               *)
WokenFindsWork ==
    /\ Woken("getSuspQ") # {} => numMsgs > 0
    /\ Woken("putSuspQ") # {} => numMsgs < MaxMsgs

(* Nobody waits to get while messages are stored, or to put while there is *)
(* space, but for what has been promised to woken threads.                 *)
NobodyWaitsInVain ==
    /\ suspQ["getSuspQ"] # <<>> => numMsgs <= Cardinality(Woken("getSuspQ"))
    /\ suspQ["putSuspQ"] # <<>> => MaxMsgs - numMsgs <= Cardinality(Woken("putSuspQ"))

-----------------------------------------------------------------------------

(* The stored messages, from the next to be removed. *)
Stored == [i \in 1..numMsgs |-> buff[(removeIndex + i - 1) % MaxMsgs]]

Abstract == INSTANCE MessageQueue WITH
    Messages <- Msgs, Capacity <- MaxMsgs, stored <- Stored

(* The buffer, its two indexes and the number of messages implement a FIFO *)
(* of bounded length, across the wrap of the indexes, with threads that    *)
(* put and get when they are woken and with those that find the queue      *)
(* ready, and no step of anybody else touches it.                          *)
ImplementsMessageQueue == Abstract!Spec
=============================================================================
