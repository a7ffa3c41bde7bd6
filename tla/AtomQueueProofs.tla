-------------------------- MODULE AtomQueueProofs ---------------------------
(***************************************************************************)
(* Theorems about AtomQueue, for any number of threads, messages, slots,   *)
(* timers of the application and ticks.  Their hypothesis is, as in        *)
(* AtomSemProofs, that the callbacks of timers wake nobody.  What is said  *)
(* about the messages holds if the threads that wait do not compete, which *)
(* is what Uncontended says.                                               *)
(***************************************************************************)
EXTENDS AtomQueue, AtomSuspendProofs, FiniteSetTheorems

(* The data of the module: what the scheduler and the timers do not see.   *)
QueueData ==
    /\ cbFunc \in [AppThreads -> {"delay"} \cup Sides]
    /\ pc \in [Threads -> QueueLabels]
    /\ use \in Uses
    /\ buff \in [Slots -> Msgs \cup {Null}]
    /\ insertIndex \in Slots /\ removeIndex \in Slots
    /\ numMsgs \in 0..(NumMod - 1)
    /\ sending \in [AppThreads -> Msgs \cup {Null}]
    /\ deleting \subseteq Contexts
    /\ wokenThreads \in [Contexts -> BOOLEAN]

InCall(t) == pc[t] \in {"get", "got"}

(* The timeout of a waiting thread is that of the side it waits on, and a  *)
(* thread waits to put exactly if it has a message to send.                *)
WaitOfCall ==
    \A side \in Sides : \A t \in WaitersOn(side) :
        /\ timoCb[t] => cbFunc[t] = side
        /\ sending[t] = Null <=> side = "getSuspQ"

(* A thread is inside a blocking call that its use of the queue allows,    *)
(* and holds a message to send only there.                                 *)
CallOfUse ==
    \A t \in AppThreads :
        /\ InCall(t) => /\ t \in use.patient
                        /\ t \in (IF sending[t] = Null THEN use.getters ELSE use.putters)
        /\ ~ InCall(t) => sending[t] = Null

(* A thread is inside atomQueueDelete exactly if its label says so; main() *)
(* and interrupt handlers finish theirs before anything else runs, and the *)
(* tick handler deletes nothing.                                           *)
DeleteInv ==
    /\ \A t \in Threads : t \in deleting <=> pc[t] = "quedel"
    /\ Null \in deleting => atomCurrentContext = Null /\ intr # "tick"

QueueInv ==
    /\ SuspendInv(AllWaiters)
    /\ QueueData
    /\ SuspQueues(suspQ, Sides)
    /\ WaitOfCall
    /\ CallOfUse
    /\ DeleteInv

-----------------------------------------------------------------------------

(* The waiting threads may be named by what they are after a step.         *)
LEMMA QueueWaitingAfter ==
    ASSUME NEW U, SuspendInv(U)', AllWaiters' = U
    PROVE  SuspendInv(AllWaiters)'
  BY DEF SuspendInv, KernelInv, SchedInv, Placement, StackTimerInv, Parked

LEMMA QueueWaitersAre == AllWaiters = WaitersIn(suspQ, Sides)
  BY DEF AllWaiters, WaitersIn, WaitersOn

LEMMA QueueInitInv == QueueInit => QueueInv
<1> SUFFICES ASSUME QueueInit PROVE QueueInv
  OBVIOUS
<1>1. SuspendInv({})
  BY TimerInitSuspend DEF QueueInit
<1>2. \A side \in Sides : suspQ[side] = <<>> /\ Range(suspQ[side]) = {}
  BY DEF QueueInit, QueueLibInit, Range
<1>3. AllWaiters = {}
  BY <1>2 DEF AllWaiters, WaitersOn
<1>4. SuspendInv(AllWaiters)
  BY <1>1, <1>3 DEF SuspendInv, KernelInv, SchedInv, Placement, StackTimerInv, Parked
<1>5. IsTcbQueue(<<>>)
  BY DEF IsTcbQueue, NoDuplicates, PriorityOrdered
<1>6. SuspQueues(suspQ, Sides)
  BY <1>2, <1>5 DEF QueueInit, QueueLibInit, SuspQueues
<1>7. QueueData
  BY MaxMsgsAssumption
     DEF QueueInit, QueueLibInit, TimerInit, TimerLibInit, KernelInit, QueueData, QueueLabels,
         SuspendLabels, TimerLabels, KernelLabels, Slots, Sides
<1>8. WaitOfCall
  BY <1>2 DEF WaitOfCall, WaitersOn
<1>9. CallOfUse /\ DeleteInv
  BY ThreadsAssumption
     DEF QueueInit, QueueLibInit, TimerInit, KernelInit, CallOfUse, InCall, DeleteInv, Contexts,
         AppThreads
<1> QED
  BY <1>4, <1>6, <1>7, <1>8, <1>9 DEF QueueInv

(* A context that may call the module: a thread in its own code, or main() *)
(* or a handler that is not inside a delete.                               *)
LEMMA CallerFacts ==
    ASSUME CallbacksWake = FALSE, QueueInv, NEW c \in Contexts, MayCallQueue(c)
    PROVE  /\ c = atomCurrentContext /\ c \notin deleting /\ intr # "tick"
           /\ c \in Threads => /\ started /\ intr = "none" /\ c = curr /\ pc[c] = "app"
                               /\ c \in AppThreads
           /\ c = Null => ~ started \/ intr # "none"
<1>1. c = atomCurrentContext /\ c \notin deleting /\ ~ InAppCallback
  BY DEF MayCallQueue, MayCallTimer, MayCall, InAppCallback, atomCurrentContext
<1>2. intr # "tick"
  BY <1>1, ThreadsAssumption DEF MayCallQueue, MayCallTimer, MayCall, atomCurrentContext
<1>3. c \in Threads => c # Null
  BY ThreadsAssumption
<1>4. c \in Threads => intr = "none" /\ c = curr /\ pc[c] = "app" /\ c \in AppThreads
  BY <1>1, <1>3 DEF MayCallQueue, MayCallTimer, MayCall, atomCurrentContext, AppThreads
<1>5. c \in Threads => started
  BY <1>4, ThreadsAssumption DEF QueueInv, SuspendInv, KernelInv, ContextInv
<1>6. c = Null => ~ started \/ intr # "none"
  BY <1>1, ThreadsAssumption DEF atomCurrentContext, QueueInv, SuspendInv, KernelInv, SchedInv
<1> QED
  BY <1>1, <1>2, <1>4, <1>5, <1>6

-----------------------------------------------------------------------------

(* The messages and the indexes of the buffer.                             *)
RingTypeOK ==
    /\ buff \in [Slots -> Msgs \cup {Null}]
    /\ insertIndex \in Slots /\ removeIndex \in Slots
    /\ numMsgs \in 0..(NumMod - 1)

LEMMA RingTyped ==
    ASSUME RingTypeOK, queue_remove \/ \E m \in Msgs : queue_insert(m)
    PROVE  RingTypeOK'
<1>1. /\ MaxMsgs \in Nat /\ MaxMsgs > 0 /\ NumMod \in Nat /\ NumMod > MaxMsgs
      /\ insertIndex \in 0..(MaxMsgs - 1) /\ removeIndex \in 0..(MaxMsgs - 1) /\ numMsgs \in Nat
  BY MaxMsgsAssumption DEF RingTypeOK, Slots
<1>2. CASE queue_remove
  <2>1. numMsgs' \in 0..(NumMod - 1)
    BY <1>1, <1>2 DEF queue_remove
  <2>2. removeIndex' \in 0..(MaxMsgs - 1)
    BY <1>1, <1>2 DEF queue_remove
  <2> QED
    BY <1>2, <2>1, <2>2 DEF queue_remove, RingTypeOK, Slots
<1>3. ASSUME NEW m \in Msgs, queue_insert(m) PROVE RingTypeOK'
  <2>1. numMsgs' \in 0..(NumMod - 1)
    BY <1>1, <1>3 DEF queue_insert
  <2>2. insertIndex' \in 0..(MaxMsgs - 1)
    BY <1>1, <1>3 DEF queue_insert
  <2>3. buff' \in [Slots -> Msgs \cup {Null}]
    BY <1>3 DEF queue_insert, RingTypeOK
  <2> QED
    BY <1>3, <2>1, <2>2, <2>3 DEF queue_insert, RingTypeOK, Slots
<1> QED
  BY <1>2, <1>3

(* t is woken from its side.                                               *)
WokenFrom(side, t, status) ==
    /\ t \in Range(suspQ[side])
    /\ \A r \in Sides : r # side => suspQ'[r] = suspQ[r]
    /\ Range(suspQ'[side]) = Range(suspQ[side]) \ {t}
    /\ AllWaiters' = AllWaiters \ {t}
    /\ \A u \in AppThreads : wakeStatus'[u] = IF u = t THEN status ELSE wakeStatus[u]

(* No thread starts to wait, and no timeout is registered.                 *)
NobodyJoins ==
    /\ \A r \in Sides : Range(suspQ'[r]) \subseteq Range(suspQ[r])
    /\ \A u \in Threads : timoCb'[u] => timoCb[u]

LEMMA WakeHead ==
    ASSUME QueueInv, NEW side \in Sides, suspQ[side] # <<>>, intr # "tick",
           NEW status \in WakeStatus,
           suspQ' = [suspQ EXCEPT ![side] = tcbDequeueHead(suspQ[side]).queue],
           WakeUp(tcbDequeueHead(suspQ[side]).tcb, status),
           CancelTimeout(tcbDequeueHead(suspQ[side]).tcb),
           WakerFrame(AllWaiters)
    PROVE  /\ SuspendInv(AllWaiters)' /\ SuspQueues(suspQ, Sides)' /\ NobodyJoins
           /\ ~ CancelTimeoutFails(tcbDequeueHead(suspQ[side]).tcb)
           /\ tcbDequeueHead(suspQ[side]).tcb \in AppThreads
           /\ WokenFrom(side, tcbDequeueHead(suspQ[side]).tcb, status)
<1>1. PICK W : W = AllWaiters
  OBVIOUS
<1>2. PICK t : t = tcbDequeueHead(suspQ[side]).tcb
  OBVIOUS
<1>3. PICK U : U = W \ {t}
  OBVIOUS
<1>4. UpdatedAt(suspQ, Sides, side, tcbDequeueHead(suspQ[side]).queue, suspQ')
  BY DEF QueueInv, SuspQueues, UpdatedAt, IsFunction
<1>5. /\ t \in W /\ t \in AppThreads /\ t \in Range(suspQ[side])
      /\ LeftBy(suspQ, Sides, side, t, suspQ')
  BY <1>1, <1>2, <1>4, LeaveHead, QueueWaitersAre DEF QueueInv
<1>6. /\ SuspQueues(suspQ', Sides) /\ WaitersIn(suspQ', Sides) = U
      /\ \A r \in Sides : r # side => suspQ'[r] = suspQ[r]
      /\ Range(suspQ'[side]) = Range(suspQ[side]) \ {t}
  BY <1>1, <1>3, <1>5, QueueWaitersAre DEF LeftBy
<1>7. AllWaiters' = U
  BY <1>6 DEF AllWaiters, WaitersOn, WaitersIn
<1>8. /\ SuspendInv(U)' /\ ~ CancelTimeoutFails(t)
      /\ timoCb' = [timoCb EXCEPT ![t] = FALSE]
  BY <1>1, <1>2, <1>3, <1>5, WakeKeeps DEF QueueInv
<1>9. SuspendInv(AllWaiters)'
  BY <1>7, <1>8, QueueWaitingAfter
<1>10. \A u \in AppThreads : wakeStatus'[u] = IF u = t THEN status ELSE wakeStatus[u]
  BY <1>2 DEF WakeUp, QueueInv, SuspendInv, KernelInv, KernelTypeOK, AppThreads
<1>11. \A r \in Sides : Range(suspQ'[r]) \subseteq Range(suspQ[r])
  BY <1>6
<1>12. \A u \in Threads : timoCb'[u] => timoCb[u]
  BY <1>8 DEF QueueInv, SuspendInv, KernelInv, KernelTypeOK
<1>13. WokenFrom(side, t, status)
  BY <1>1, <1>3, <1>5, <1>6, <1>7, <1>10 DEF WokenFrom
<1> QED
  BY <1>2, <1>5, <1>6, <1>8, <1>9, <1>11, <1>12, <1>13 DEF NobodyJoins

(* The end of queue_remove and queue_insert.                               *)
OneWoken(side) ==
    \/ suspQ[side] = <<>> /\ UNCHANGED <<suspQ, wakeStatus>>
    \/ \E t \in AppThreads : WokenFrom(side, t, "ATOM_OK")

LEMMA WakeOneKeeps ==
    ASSUME QueueInv, NEW side \in Sides, intr # "tick", WakeOne(side), WakerFrame(AllWaiters)
    PROVE  /\ SuspendInv(AllWaiters)' /\ SuspQueues(suspQ, Sides)' /\ NobodyJoins
           /\ OneWoken(side)
<1>1. CASE suspQ[side] = <<>>
  <2>1. PICK W : W = AllWaiters
    OBVIOUS
  <2>2. UNCHANGED <<suspQ, readyQ, wakeStatus, timerQ, timoCb>>
    BY <1>1 DEF WakeOne
  <2>3. SuspendInv(W)' /\ AllWaiters' = W
    BY <2>1, <2>2, FrameSuspend DEF QueueInv, AllWaiters, WaitersOn
  <2>4. SuspendInv(AllWaiters)'
    BY <2>3, QueueWaitingAfter
  <2> QED
    BY <1>1, <2>2, <2>4 DEF QueueInv, SuspQueues, NobodyJoins, OneWoken
<1>2. CASE suspQ[side] # <<>>
  <2>1. "ATOM_OK" \in WakeStatus
    BY DEF WakeStatus
  <2> QED
    BY <1>2, <2>1, WakeHead DEF WakeOne, OneWoken
<1> QED
  BY <1>1, <1>2

(* The threads that still wait do so as before.                            *)
LEMMA WaitsGoOn ==
    ASSUME QueueInv, NobodyJoins,
           \A u \in AllWaiters : cbFunc'[u] = cbFunc[u] /\ sending'[u] = sending[u]
    PROVE  WaitOfCall'
<1> SUFFICES ASSUME NEW side \in Sides, NEW u \in Range(suspQ'[side])
             PROVE  (timoCb'[u] => cbFunc'[u] = side) /\ (sending'[u] = Null <=> side = "getSuspQ")
  BY DEF WaitOfCall, WaitersOn
<1>1. u \in Range(suspQ[side]) /\ suspQ[side] \in Seq(AppThreads)
  BY DEF NobodyJoins, QueueInv, SuspQueues
<1>2. u \in Threads /\ u \in AllWaiters
  BY <1>1, InRange DEF AppThreads, AllWaiters, WaitersOn
<1>3. timoCb'[u] => timoCb[u]
  BY <1>2 DEF NobodyJoins
<1> QED
  BY <1>1, <1>2, <1>3 DEF QueueInv, WaitOfCall, WaitersOn

-----------------------------------------------------------------------------

(* One lemma per action.  First a step that leaves the scheduler, the      *)
(* timers and the queues alone.                                            *)
LEMMA RingOnly ==
    ASSUME QueueInv, RingTypeOK',
           UNCHANGED <<kernelVars, timerVars, suspQ, sending, deleting, wokenThreads, use>>
    PROVE  QueueInv'
<1>1. PICK W : W = AllWaiters
  OBVIOUS
<1>2. AllWaiters' = W
  BY <1>1 DEF AllWaiters, WaitersOn
<1>3. SuspendInv(W)'
  BY <1>1, SuspendStutter DEF QueueInv
<1>4. SuspendInv(AllWaiters)'
  BY <1>2, <1>3, QueueWaitingAfter
<1>5. UNCHANGED <<curr, started, intr, timoCb, pc, cbFunc>>
  BY DEF kernelVars, timerVars
<1>6. QueueData' /\ SuspQueues(suspQ, Sides)'
  BY <1>5 DEF QueueInv, QueueData, SuspQueues, RingTypeOK
<1>7. WaitOfCall' /\ CallOfUse' /\ DeleteInv'
  BY <1>5 DEF QueueInv, WaitOfCall, WaitersOn, CallOfUse, InCall, DeleteInv, atomCurrentContext
<1> QED
  BY <1>4, <1>6, <1>7 DEF QueueInv

(* Nobody waits on a queue that is created.                                *)
LEMMA CreateEmpties ==
    ASSUME QueueInv, atomQueueCreate
    PROVE  /\ suspQ' = suspQ /\ \A side \in Sides : suspQ[side] = <<>>
           /\ \A t \in AppThreads : ~ InCall(t)
<1>1. \A t \in AppThreads : ~ InCall(t)
  BY DEF atomQueueCreate, InCall
<1>2. AllWaiters \subseteq AppThreads
  BY ParkedFacts DEF QueueInv, Parked
<1>3. AllWaiters = {}
  BY <1>1, <1>2 DEF InCall, QueueInv, SuspendInv, StackTimerInv
<1>4. ASSUME NEW side \in Sides PROVE suspQ[side] = <<>>
  <2>1. suspQ[side] \in Seq(AppThreads) /\ Range(suspQ[side]) = {}
    BY <1>3 DEF QueueInv, SuspQueues, AllWaiters, WaitersOn
  <2>2. ASSUME suspQ[side] # <<>> PROVE FALSE
    <3>1. 1 \in 1..Len(suspQ[side])
      BY <2>1, <2>2
    <3>2. PICK q : q = suspQ[side]
      OBVIOUS
    <3>3. q \in Seq(AppThreads) /\ 1 \in 1..Len(q)
      BY <2>1, <3>1, <3>2
    <3>4. q[1] \in Range(q)
      BY <3>3, InRange
    <3> QED
      BY <2>1, <3>2, <3>4
  <2> QED
    BY <2>2
<1>5. suspQ' = suspQ
  BY <1>4 DEF atomQueueCreate, QueueInv, SuspQueues
<1> QED
  BY <1>1, <1>4, <1>5

LEMMA CreateInv == ASSUME QueueInv, atomQueueCreate, use' = use PROVE QueueInv'
<1>1. 0 \in Slots /\ 0 \in 0..(NumMod - 1)
  BY MaxMsgsAssumption DEF Slots
<1>2. RingTypeOK'
  BY <1>1 DEF atomQueueCreate, QueueInv, QueueData, RingTypeOK
<1> QED
  BY <1>2, CreateEmpties, RingOnly DEF atomQueueCreate

(* A get or put that finds the queue ready.                                *)
LEMMA CallNowInv ==
    ASSUME CallbacksWake = FALSE, QueueInv, NEW c \in Contexts, MayCallQueue(c),
           NEW side \in Sides, WakeOne(side), PcResched(c), CallFrame, RingTypeOK', use' = use
    PROVE  QueueInv' /\ OneWoken(side)
<1>1. /\ c = atomCurrentContext /\ c \notin deleting /\ intr # "tick"
      /\ c \in Threads => started /\ intr = "none" /\ c = curr /\ pc[c] = "app"
      /\ c = Null => ~ started \/ intr # "none"
  BY CallerFacts
<1>2. pc' = [t \in Threads |-> IF t = c THEN "resched" ELSE pc[t]]
  BY DEF PcResched
<1>3. UNCHANGED <<curr, started, intr, suspended, terminated, cbTicks, cbFunc,
                  walk, due, systemTicks, sending, deleting, wokenThreads>>
  BY DEF CallFrame
<1>4. WakerFrame(AllWaiters)
  <2>1. PICK W : W = AllWaiters
    OBVIOUS
  <2>2. \A u \in Threads : \/ pc'[u] = pc[u]
                           \/ /\ pc[u] \notin ParkedLabels \cup {"none", "exit"}
                              /\ pc'[u] # "none"
    BY <1>1, <1>2 DEF ParkedLabels
  <2>3. WakerFrame(W)
    BY <1>2, <1>3, <2>1, <2>2, LabelsFrame DEF QueueInv
  <2> QED
    BY <2>1, <2>3
<1>5. /\ SuspendInv(AllWaiters)' /\ SuspQueues(suspQ, Sides)' /\ NobodyJoins /\ OneWoken(side)
  BY <1>1, <1>4, WakeOneKeeps
<1>6. WaitOfCall'
  BY <1>3, <1>5, WaitsGoOn
<1>7. QueueData'
  BY <1>2, <1>3
     DEF QueueInv, QueueData, RingTypeOK, QueueLabels, SuspendLabels, TimerLabels, KernelLabels
<1>8. CallOfUse'
  <2>1. \A t \in AppThreads : InCall(t)' <=> InCall(t)
    BY <1>1, <1>2 DEF InCall, AppThreads
  <2> QED
    BY <1>3, <2>1 DEF QueueInv, CallOfUse
<1>9. DeleteInv'
  BY <1>1, <1>2, <1>3 DEF QueueInv, DeleteInv, atomCurrentContext
<1> QED
  BY <1>5, <1>6, <1>7, <1>8, <1>9 DEF QueueInv

(* A thread waits.                                                         *)
LEMMA BlockInv ==
    ASSUME QueueInv, NEW t \in use.patient, t \in AppThreads, MayCall(t),
           NEW side \in Sides, NEW timeout \in Nat, QueueBlock(t, side, timeout), use' = use,
           sending' \in [AppThreads -> Msgs \cup {Null}],
           \A u \in AppThreads : u # t => sending'[u] = sending[u],
           sending'[t] = Null <=> side = "getSuspQ",
           t \in IF side = "getSuspQ" THEN use.getters ELSE use.putters
    PROVE  /\ QueueInv' /\ AllWaiters' = AllWaiters \cup {t} /\ wakeStatus' = wakeStatus
           /\ ~ InCall(t) /\ \A u \in AppThreads : u # t => (InCall(u)' <=> InCall(u))
           /\ \A r \in Sides : r # side => suspQ'[r] = suspQ[r]
<1>1. PICK W : W = AllWaiters
  OBVIOUS
<1>2. PICK U : U = W \cup {t}
  OBVIOUS
<1>3. /\ Suspend(t, side, timeout)
      /\ UNCHANGED <<buff, insertIndex, removeIndex, numMsgs, deleting, wokenThreads>>
      /\ suspQ' = [suspQ EXCEPT ![side] = tcbEnqueuePriority(suspQ[side], t)]
      /\ side # "delay"
  BY DEF QueueBlock, Sides
<1>4. /\ SuspendInv(U)' /\ t \notin Parked(W) /\ t = curr
      /\ cbFunc' \in {cbFunc, [cbFunc EXCEPT ![t] = side]}
      /\ timoCb'[t] => cbFunc'[t] = side
  BY <1>1, <1>2, <1>3, SuspendPreserves DEF QueueInv
<1>5. t \in Threads /\ pc[t] = "app" /\ intr = "none" /\ atomCurrentContext = t
  BY <1>4, ThreadsAssumption DEF AppThreads, MayCall, atomCurrentContext
<1>6. UpdatedAt(suspQ, Sides, side, tcbEnqueuePriority(suspQ[side], t), suspQ')
  BY <1>3 DEF QueueInv, SuspQueues, UpdatedAt, IsFunction
<1>7. /\ SuspQueues(suspQ', Sides)
      /\ \A r \in Sides : r # side => suspQ'[r] = suspQ[r]
      /\ Range(suspQ'[side]) = Range(suspQ[side]) \cup {t}
      /\ WaitersIn(suspQ', Sides) = U
  BY <1>1, <1>2, <1>4, <1>6, JoinQueue, QueueWaitersAre DEF QueueInv, Parked
<1>8. AllWaiters' = U
  BY <1>7 DEF AllWaiters, WaitersOn, WaitersIn
<1>9. SuspendInv(AllWaiters)'
  BY <1>4, <1>8, QueueWaitingAfter
<1>10. /\ UNCHANGED <<readyQ, curr, started, intr, wakeStatus>>
       /\ pc' = [pc EXCEPT ![t] = "get"]
       /\ \A u \in Threads : u # t => timoCb'[u] = timoCb[u]
       /\ \A u \in AppThreads : u # t => cbFunc'[u] = cbFunc[u]
  BY <1>3 DEF Suspend, QueueInv, SuspendInv, KernelInv, KernelTypeOK, QueueData
<1>11. QueueData'
  BY <1>3, <1>4, <1>10 DEF QueueInv, QueueData, QueueLabels, SuspendLabels
<1>12. WaitOfCall'
  <2> SUFFICES ASSUME NEW r \in Sides, NEW u \in Range(suspQ'[r])
               PROVE  /\ timoCb'[u] => cbFunc'[u] = r
                      /\ sending'[u] = Null <=> r = "getSuspQ"
    BY DEF WaitOfCall, WaitersOn
  <2>1. CASE u = t
    <3>1. r = side
      <4>1. r # side => u \in W
        BY <1>1, <1>7 DEF AllWaiters, WaitersOn
      <4> QED
        BY <1>4, <2>1, <4>1 DEF Parked
    <3> QED
      BY <1>4, <2>1, <3>1
  <2>2. CASE u # t
    <3>1. u \in Range(suspQ[r])
      BY <1>7, <2>2
    <3>2. u \in AppThreads /\ u \in Threads
      BY <3>1, InRange DEF QueueInv, SuspQueues, AppThreads
    <3> QED
      BY <1>10, <2>2, <3>1, <3>2 DEF QueueInv, WaitOfCall, WaitersOn
  <2> QED
    BY <2>1, <2>2
<1>13. ~ InCall(t) /\ InCall(t)' /\ \A u \in AppThreads : u # t => (InCall(u)' <=> InCall(u))
  BY <1>5, <1>10 DEF InCall, AppThreads, QueueInv, QueueData
<1>14. CallOfUse'
  BY <1>13 DEF QueueInv, CallOfUse
<1>15. DeleteInv'
  BY <1>3, <1>5, <1>10 DEF QueueInv, QueueData, DeleteInv, atomCurrentContext
<1> QED
  BY <1>1, <1>2, <1>7, <1>8, <1>9, <1>10, <1>11, <1>12, <1>13, <1>14, <1>15 DEF QueueInv

(* What the steps that leave the queue to itself have in common.           *)
Elsewhere ==
    /\ UNCHANGED queueVars /\ use' = use /\ wakeStatus' = wakeStatus
    /\ \A u \in AppThreads : InCall(u)' <=> InCall(u)

LEMMA SchedStayInv ==
    ASSUME QueueInv, NEW t \in AppThreads, QueueSched(t), use' = use
    PROVE  QueueInv' /\ Elsewhere
<1>1. PICK W : W = AllWaiters
  OBVIOUS
<1>2. /\ SuspendInv(W) /\ SuspendSched(t) /\ UNCHANGED queueVars
      /\ CallSched(t, "get", "got") /\ UNCHANGED timerVars
      /\ UNCHANGED <<buff, insertIndex, removeIndex, numMsgs, suspQ, sending, deleting, wokenThreads>>
  BY <1>1 DEF QueueSched, SuspendSched, queueVars, QueueInv
<1>3. SuspendInv(W)'
  BY <1>2, SuspendSchedPreserves
<1>4. AllWaiters' = W
  BY <1>1, <1>2 DEF AllWaiters, WaitersOn
<1>5. SuspendInv(AllWaiters)'
  BY <1>3, <1>4, QueueWaitingAfter
<1>6. /\ atomCurrentContext = t /\ t \in Threads /\ t # Null
      /\ pc[t] = "get" /\ pc' = [pc EXCEPT ![t] = "got"]
      /\ UNCHANGED <<intr, timoCb, cbFunc, wakeStatus>>
  BY <1>2, ThreadsAssumption DEF CallSched, AppThreads, timerVars, atomSched
<1>7. QueueData' /\ SuspQueues(suspQ, Sides)' /\ WaitOfCall'
  BY <1>2, <1>6
     DEF QueueInv, QueueData, QueueLabels, SuspendLabels, SuspQueues, WaitOfCall, WaitersOn
<1>8. \A u \in AppThreads : InCall(u)' <=> InCall(u)
  BY <1>6 DEF QueueInv, QueueData, InCall, AppThreads
<1>9. CallOfUse'
  BY <1>2, <1>8 DEF QueueInv, CallOfUse
<1>10. DeleteInv'
  BY <1>2, <1>6 DEF QueueInv, QueueData, DeleteInv
<1> QED
  BY <1>2, <1>5, <1>6, <1>7, <1>8, <1>9, <1>10 DEF QueueInv, Elsewhere

(* A thread leaves its call, after its second critical section if it was   *)
(* woken by a get or put.                                                  *)
LEMMA ReturnInv ==
    ASSUME QueueInv, NEW t \in AppThreads, QueueReturn(t), use' = use
    PROVE  /\ QueueInv'
           /\ t \notin AllWaiters /\ InCall(t) /\ ~ InCall(t)'
           /\ \A u \in AppThreads : u # t => (InCall(u)' <=> InCall(u)) /\ sending'[u] = sending[u]
           /\ wakeStatus[t] # "ATOM_OK" =>
                 UNCHANGED <<suspQ, wakeStatus, buff, insertIndex, removeIndex, numMsgs>>
           /\ wakeStatus[t] = "ATOM_OK" =>
                 IF sending[t] = Null THEN queue_remove /\ OneWoken("putSuspQ")
                                      ELSE queue_insert(sending[t]) /\ OneWoken("getSuspQ")
<1>1. PICK W : W = AllWaiters
  OBVIOUS
<1>2. /\ SuspendInv(W) /\ LeaveCall(t) /\ UNCHANGED <<deleting, wokenThreads>>
      /\ sending' = [sending EXCEPT ![t] = Null]
      /\ wakeStatus[t] # "ATOM_OK" => UNCHANGED <<buff, insertIndex, removeIndex, numMsgs, suspQ,
                                                  readyQ, wakeStatus, timerQ, timoCb>>
      /\ wakeStatus[t] = "ATOM_OK" => IF sending[t] = Null THEN queue_remove
                                                           ELSE queue_insert(sending[t])
  BY <1>1 DEF QueueReturn, QueueInv
<1>3. /\ atomCurrentContext = t /\ t \in Threads /\ t # Null
      /\ pc[t] = "got" /\ pc' = [pc EXCEPT ![t] = "app"]
      /\ cbFunc' = [cbFunc EXCEPT ![t] = "delay"]
      /\ UNCHANGED <<curr, started, intr, suspended>>
  BY <1>2, ThreadsAssumption DEF LeaveCall, DropStackTimer, AppThreads
<1>4. t = curr /\ t \notin W /\ intr = "none"
  BY <1>2, <1>3, RunningFacts DEF Parked
<1>5. WakerFrame(W) /\ WakerFrame(AllWaiters)
  BY <1>1, <1>2, LeaveFrame
<1>6. "getSuspQ" \in Sides /\ "putSuspQ" \in Sides
  BY DEF Sides
<1>7. sending[t] # Null => sending[t] \in Msgs
  BY DEF QueueInv, QueueData
<1>8. /\ SuspendInv(AllWaiters)' /\ SuspQueues(suspQ, Sides)' /\ NobodyJoins /\ RingTypeOK'
      /\ wakeStatus[t] = "ATOM_OK" => IF sending[t] = Null THEN OneWoken("putSuspQ")
                                                           ELSE OneWoken("getSuspQ")
  <2>1. RingTypeOK
    BY DEF QueueInv, QueueData, RingTypeOK
  <2>2. CASE wakeStatus[t] # "ATOM_OK"
    <3>1. SuspendInv(W)' /\ AllWaiters' = W
      BY <1>1, <1>2, <1>5, <2>2, FrameSuspend DEF AllWaiters, WaitersOn
    <3>2. SuspendInv(AllWaiters)'
      BY <3>1, QueueWaitingAfter
    <3> QED
      BY <1>2, <2>1, <2>2, <3>2 DEF QueueInv, SuspQueues, NobodyJoins, RingTypeOK
  <2>3. CASE wakeStatus[t] = "ATOM_OK" /\ sending[t] = Null
    <3>1. queue_remove /\ WakeOne("putSuspQ")
      BY <1>2, <2>3 DEF queue_remove
    <3>2. RingTypeOK'
      BY <2>1, <3>1, RingTyped
    <3> QED
      BY <1>4, <1>5, <1>6, <2>3, <3>1, <3>2, WakeOneKeeps
  <2>4. CASE wakeStatus[t] = "ATOM_OK" /\ sending[t] # Null
    <3>1. queue_insert(sending[t]) /\ WakeOne("getSuspQ")
      BY <1>2, <2>4 DEF queue_insert
    <3>2. RingTypeOK'
      BY <1>7, <2>1, <2>4, <3>1, RingTyped
    <3> QED
      BY <1>4, <1>5, <1>6, <2>4, <3>1, <3>2, WakeOneKeeps
  <2> QED
    BY <2>2, <2>3, <2>4
<1>9. /\ InCall(t) /\ ~ InCall(t)' /\ sending'[t] = Null
      /\ \A u \in AppThreads : u # t => (InCall(u)' <=> InCall(u)) /\ sending'[u] = sending[u]
      /\ \A u \in AppThreads : u # t => cbFunc'[u] = cbFunc[u]
  BY <1>2, <1>3 DEF InCall, QueueInv, QueueData, AppThreads
<1>10. QueueData'
  BY <1>2, <1>3, <1>8
     DEF QueueInv, QueueData, RingTypeOK, QueueLabels, SuspendLabels, TimerLabels, KernelLabels
<1>11. WaitOfCall'
  <2>1. W \subseteq AppThreads
    BY <1>2, ParkedFacts DEF Parked
  <2>2. \A u \in AllWaiters : cbFunc'[u] = cbFunc[u] /\ sending'[u] = sending[u]
    BY <1>1, <1>4, <1>9, <2>1
  <2> QED
    BY <1>8, <2>2, WaitsGoOn
<1>12. CallOfUse'
  BY <1>9 DEF QueueInv, CallOfUse
<1>13. DeleteInv'
  BY <1>2, <1>3 DEF QueueInv, QueueData, DeleteInv, atomCurrentContext
<1> QED
  BY <1>1, <1>2, <1>4, <1>8, <1>9, <1>10, <1>11, <1>12, <1>13 DEF QueueInv

LEMMA DeleteStartInv ==
    ASSUME CallbacksWake = FALSE, QueueInv, NEW c \in Contexts, MayCallQueue(c),
           QueueDeleteStart(c), use' = use
    PROVE  /\ QueueInv'
           /\ UNCHANGED <<numMsgs, suspQ, buff, insertIndex, removeIndex, sending, wakeStatus>>
           /\ \A u \in AppThreads : InCall(u)' <=> InCall(u)
<1>1. /\ c = atomCurrentContext /\ c \notin deleting /\ intr # "tick"
      /\ c \in Threads => started /\ intr = "none" /\ c = curr /\ pc[c] = "app"
      /\ c = Null => ~ started \/ intr # "none"
  BY CallerFacts
<1>2. PICK W : W = AllWaiters
  OBVIOUS
<1>3. /\ pc' = [t \in Threads |-> IF t = c THEN "quedel" ELSE pc[t]]
      /\ deleting' = deleting \cup {c}
      /\ UNCHANGED <<readyQ, curr, started, intr, suspended, terminated,
                     wakeStatus, timoCb, timerVars, buff, insertIndex, removeIndex, numMsgs,
                     suspQ, sending, wokenThreads>>
      /\ UNCHANGED cbFunc
  BY DEF QueueDeleteStart, timerVars
<1>4. SuspendInv(W)'
  <2>1. \A u \in Threads : \/ pc'[u] = pc[u]
                           \/ /\ pc[u] \notin ParkedLabels \cup {"none", "exit"}
                              /\ pc'[u] # "none"
    BY <1>1, <1>3 DEF ParkedLabels
  <2> QED
    BY <1>2, <1>3, <2>1, LabelsSuspend DEF QueueInv
<1>5. AllWaiters' = W
  BY <1>2, <1>3 DEF AllWaiters, WaitersOn
<1>6. SuspendInv(AllWaiters)'
  BY <1>4, <1>5, QueueWaitingAfter
<1>7. QueueData' /\ SuspQueues(suspQ, Sides)' /\ WaitOfCall'
  BY <1>3 DEF QueueInv, QueueData, QueueLabels, SuspQueues, WaitOfCall, WaitersOn
<1>8. \A u \in AppThreads : InCall(u)' <=> InCall(u)
  BY <1>1, <1>3 DEF InCall, AppThreads
<1>9. CallOfUse'
  BY <1>3, <1>8 DEF QueueInv, CallOfUse
<1>10. DeleteInv'
  BY <1>1, <1>3, ThreadsAssumption DEF QueueInv, DeleteInv, atomCurrentContext, Contexts
<1> QED
  BY <1>3, <1>6, <1>7, <1>8, <1>9, <1>10 DEF QueueInv

(* A context inside a delete: a thread at its label, or main() or the      *)
(* handler of an interrupt other than the tick.                            *)
LEMMA DeleterFacts ==
    ASSUME QueueInv, NEW c \in Contexts, c = atomCurrentContext, c \in deleting
    PROVE  /\ intr # "tick"
           /\ c \in Threads => started /\ intr = "none" /\ c = curr /\ pc[c] = "quedel"
           /\ c = Null => ~ started \/ intr # "none"
<1>1. c \in Threads => c # Null /\ intr = "none" /\ c = curr /\ pc[c] = "quedel"
  BY ThreadsAssumption DEF atomCurrentContext, QueueInv, DeleteInv
<1>2. c \in Threads => started
  BY <1>1 DEF QueueInv, SuspendInv, KernelInv, ContextInv
<1>3. c = Null => (~ started \/ intr # "none") /\ intr # "tick"
  BY ThreadsAssumption
     DEF atomCurrentContext, QueueInv, DeleteInv, SuspendInv, KernelInv, SchedInv
<1> QED
  BY <1>1, <1>2, <1>3 DEF Contexts

LEMMA DeleteWakeInv ==
    ASSUME QueueInv, NEW c \in Contexts, QueueDeleteWake(c), use' = use
    PROVE  /\ QueueInv' /\ UNCHANGED <<numMsgs, buff, insertIndex, removeIndex, sending, pc>>
           /\ \E side \in Sides, t \in AppThreads : WokenFrom(side, t, "ATOM_ERR_DELETED")
<1>1. /\ c = atomCurrentContext /\ intr # "tick"
      /\ c \in Threads => started /\ intr = "none" /\ c = curr /\ pc[c] = "quedel"
      /\ c = Null => ~ started \/ intr # "none"
  BY DeleterFacts DEF QueueDeleteWake
<1>2. PICK side \in Sides : side = DeleteSide
  BY DEF DeleteSide, Sides
<1>3. PICK t : t = tcbDequeueHead(suspQ[side]).tcb
  OBVIOUS
<1>4. ~ CancelTimeoutFails(t)
  <2>1. /\ suspQ[side] # <<>> /\ IsTcbQueue(suspQ[side]) /\ suspQ[side] \in Seq(AppThreads)
    BY <1>2 DEF QueueDeleteWake, QueueInv, SuspQueues
  <2>2. t = Head(suspQ[side]) /\ t \in Range(suspQ[side]) /\ t \in AllWaiters
    BY <1>3, <2>1, TailProperties DEF tcbDequeueHead, AllWaiters, WaitersOn
  <2> QED
    BY <1>1, <2>2, CancelSucceeds DEF QueueInv
<1>5. /\ pc' = pc /\ deleting' = deleting
      /\ wokenThreads' = [wokenThreads EXCEPT ![c] = TRUE]
      /\ UNCHANGED <<curr, started, intr, suspended, terminated, cbTicks, cbFunc, walk, due,
                     systemTicks, buff, insertIndex, removeIndex, numMsgs, sending>>
  BY <1>2, <1>3, <1>4 DEF QueueDeleteWake
<1>6. WakerFrame(AllWaiters)
  <2>1. PICK W : W = AllWaiters
    OBVIOUS
  <2>2. DOMAIN pc' = Threads
    BY <1>5 DEF QueueInv, QueueData
  <2>3. WakerFrame(W)
    BY <1>5, <2>1, <2>2, LabelsFrame DEF QueueInv
  <2> QED
    BY <2>1, <2>3
<1>7. /\ SuspendInv(AllWaiters)' /\ SuspQueues(suspQ, Sides)' /\ NobodyJoins
      /\ t \in AppThreads /\ WokenFrom(side, t, "ATOM_ERR_DELETED")
  <2>1. "ATOM_ERR_DELETED" \in WakeStatus
    BY DEF WakeStatus
  <2> QED
    BY <1>1, <1>2, <1>3, <1>6, <2>1, WakeHead DEF QueueDeleteWake
<1>8. WaitOfCall'
  BY <1>5, <1>7, WaitsGoOn
<1>9. QueueData' /\ CallOfUse' /\ DeleteInv'
  BY <1>5 DEF QueueInv, QueueData, CallOfUse, InCall, DeleteInv, atomCurrentContext
<1> QED
  BY <1>5, <1>7, <1>8, <1>9 DEF QueueInv

LEMMA DeleteEndInv ==
    ASSUME QueueInv, NEW c \in Contexts, QueueDeleteEnd(c), use' = use
    PROVE  /\ QueueInv'
           /\ UNCHANGED <<numMsgs, suspQ, buff, insertIndex, removeIndex, sending, wakeStatus>>
           /\ \A u \in AppThreads : InCall(u)' <=> InCall(u)
<1>1. /\ c = atomCurrentContext
      /\ c \in Threads => started /\ intr = "none" /\ c = curr /\ pc[c] = "quedel"
      /\ c = Null => ~ started \/ intr # "none"
  BY DeleterFacts DEF QueueDeleteEnd
<1>2. PICK W : W = AllWaiters
  OBVIOUS
<1>3. /\ pc' = [t \in Threads |-> IF t # c THEN pc[t]
                                  ELSE IF wokenThreads[c] THEN "resched" ELSE "app"]
      /\ deleting' = deleting \ {c}
      /\ wokenThreads' = [wokenThreads EXCEPT ![c] = FALSE]
      /\ UNCHANGED <<readyQ, curr, started, intr, suspended, terminated,
                     wakeStatus, timoCb, timerVars, buff, insertIndex, removeIndex, numMsgs,
                     suspQ, sending>>
      /\ UNCHANGED cbFunc
  BY DEF QueueDeleteEnd, QueueDeleteLeave, timerVars
<1>4. SuspendInv(W)'
  <2>1. \A u \in Threads : \/ pc'[u] = pc[u]
                           \/ /\ pc[u] \notin ParkedLabels \cup {"none", "exit"}
                              /\ pc'[u] # "none"
    BY <1>1, <1>3 DEF ParkedLabels
  <2> QED
    BY <1>2, <1>3, <2>1, LabelsSuspend DEF QueueInv
<1>5. AllWaiters' = W
  BY <1>2, <1>3 DEF AllWaiters, WaitersOn
<1>6. SuspendInv(AllWaiters)'
  BY <1>4, <1>5, QueueWaitingAfter
<1>7. SuspQueues(suspQ, Sides)' /\ WaitOfCall'
  BY <1>3 DEF QueueInv, SuspQueues, WaitOfCall, WaitersOn
<1>8. QueueData'
  BY <1>3 DEF QueueInv, QueueData, QueueLabels, SuspendLabels, TimerLabels, KernelLabels
<1>9. \A u \in AppThreads : InCall(u)' <=> InCall(u)
  BY <1>1, <1>3 DEF InCall, AppThreads
<1>10. CallOfUse'
  BY <1>3, <1>9 DEF QueueInv, CallOfUse
<1>11. DeleteInv'
  BY <1>1, <1>3 DEF QueueInv, QueueData, DeleteInv, Contexts
<1> QED
  BY <1>3, <1>6, <1>7, <1>8, <1>9, <1>10, <1>11 DEF QueueInv

LEMMA TimeoutInv ==
    ASSUME QueueInv, NEW t \in AppThreads, NEW side \in Sides, atomQueueTimerCallback(t, side),
           use' = use
    PROVE  /\ QueueInv' /\ UNCHANGED <<numMsgs, buff, insertIndex, removeIndex, sending, pc>>
           /\ WokenFrom(side, t, "ATOM_TIMEOUT")
<1>1. PICK W : W = AllWaiters
  OBVIOUS
<1>2. PICK U : U = W \ {t}
  OBVIOUS
<1>3. /\ Timeout(t, side)
      /\ UNCHANGED <<buff, insertIndex, removeIndex, numMsgs, sending, deleting, wokenThreads>>
      /\ UpdatedAt(suspQ, Sides, side, tcbDequeueEntry(suspQ[side], t).queue, suspQ')
      /\ timoCb' = [timoCb EXCEPT ![t] = FALSE]
      /\ UNCHANGED <<curr, intr, pc, cbFunc>>
      /\ cbFunc[t] = side /\ side # "delay"
  BY DEF atomQueueTimerCallback, Timeout, CallbackDue, QueueInv, SuspQueues, UpdatedAt,
         IsFunction, Sides
<1>4. t \in W /\ SuspendInv(U)' /\ t \in Threads
  BY <1>1, <1>2, <1>3, TimeoutPreserves DEF QueueInv, AppThreads
<1>5. t \in Range(suspQ[side])
  <2>1. timoCb[t]
    <3>1. t \in PendingTimers
      BY <1>1, <1>3, CallbackDueFacts DEF QueueInv, Timeout
    <3> QED
      BY <3>1 DEF QueueInv, SuspendInv, StackTimerInv
  <2>2. PICK r \in Sides : t \in Range(suspQ[r])
    BY <1>1, <1>4 DEF AllWaiters, WaitersOn
  <2> QED
    BY <1>3, <2>1, <2>2 DEF QueueInv, WaitOfCall, WaitersOn
<1>6. /\ SuspQueues(suspQ', Sides) /\ WaitersIn(suspQ', Sides) = U
      /\ \A r \in Sides : r # side => suspQ'[r] = suspQ[r]
      /\ Range(suspQ'[side]) = Range(suspQ[side]) \ {t}
      /\ \A r \in Sides : Range(suspQ'[r]) \subseteq Range(suspQ[r])
  <2>1. SuspQueues(suspQ, Sides)
    BY DEF QueueInv
  <2>2. LeftBy(suspQ, Sides, side, t, suspQ')
    BY <1>3, <1>5, <2>1, LeaveEntry
  <2>3. WaitersIn(suspQ, Sides) = W
    BY <1>1, QueueWaitersAre
  <2>4. \A r \in Sides : r # side => suspQ'[r] = suspQ[r]
    BY <2>2 DEF LeftBy
  <2>5. Range(suspQ'[side]) = Range(suspQ[side]) \ {t}
    BY <2>2 DEF LeftBy
  <2>6. \A r \in Sides : Range(suspQ'[r]) \subseteq Range(suspQ[r])
    BY <2>4, <2>5
  <2> QED
    BY <1>2, <2>2, <2>3, <2>4, <2>5, <2>6 DEF LeftBy
<1>7. AllWaiters' = U
  BY <1>6 DEF AllWaiters, WaitersOn, WaitersIn
<1>8. SuspendInv(AllWaiters)'
  BY <1>4, <1>7, QueueWaitingAfter
<1>9. QueueData' /\ CallOfUse' /\ DeleteInv'
  BY <1>3 DEF QueueInv, QueueData, CallOfUse, InCall, DeleteInv, atomCurrentContext
<1>10. NobodyJoins
  BY <1>3, <1>4, <1>6 DEF NobodyJoins, QueueInv, SuspendInv, KernelInv, KernelTypeOK
<1>11. WaitOfCall'
  BY <1>3, <1>10, WaitsGoOn
<1>12. \A u \in AppThreads : wakeStatus'[u] = IF u = t THEN "ATOM_TIMEOUT" ELSE wakeStatus[u]
  BY <1>3 DEF Timeout, WakeUp, QueueInv, SuspendInv, KernelInv, KernelTypeOK, AppThreads
<1>13. WokenFrom(side, t, "ATOM_TIMEOUT")
  BY <1>1, <1>2, <1>5, <1>6, <1>7, <1>12 DEF WokenFrom
<1> QED
  BY <1>3, <1>6, <1>8, <1>9, <1>11, <1>13 DEF QueueInv

(* The steps of the scheduler and the timers.                              *)
LEMMA OtherStepInv == ASSUME QueueInv, OtherStep, use' = use PROVE QueueInv' /\ Elsewhere
<1>1. PICK W : W = AllWaiters
  OBVIOUS
<1>2. /\ TimerNext /\ UNCHANGED queueVars
      /\ UNCHANGED <<buff, insertIndex, removeIndex, numMsgs, suspQ, sending, deleting, wokenThreads>>
  BY DEF OtherStep, queueVars
<1>3. AllWaiters' = W
  BY <1>1, <1>2 DEF AllWaiters, WaitersOn
<1>4. SuspendInv(W)
  BY <1>1 DEF QueueInv
<1>5. SuspendInv(W)'
  BY <1>2, <1>4, TimerNextSuspend
<1>6. SuspendInv(AllWaiters)'
  BY <1>3, <1>5, QueueWaitingAfter
<1>7. /\ \A t \in W : timoCb'[t] = timoCb[t] /\ cbFunc'[t] = cbFunc[t]
      /\ LabelsMove /\ wakeStatus' = wakeStatus
      /\ \A t \in AppThreads : cbFunc'[t] \in {cbFunc[t], "delay"}
  BY <1>2, <1>4, TimerNextFrame
<1>8. IsFunction(pc', Threads) /\ IsFunction(cbFunc', AppThreads)
  <2>1. IsFunction(pc, Threads) /\ IsFunction(cbFunc, AppThreads)
    BY DEF QueueInv, QueueData, IsFunction
  <2> QED
    BY <1>2, <1>4, <2>1, TimerNextFunctions
<1>9. QueueData'
  <2>1. \A t \in Threads : pc'[t] \in QueueLabels
    BY <1>7 DEF LabelsMove, QueueInv, QueueData, QueueLabels, SuspendLabels
  <2>2. \A t \in AppThreads : cbFunc'[t] \in {"delay"} \cup Sides
    BY <1>7 DEF QueueInv, QueueData
  <2>3. pc' \in [Threads -> QueueLabels] /\ cbFunc' \in [AppThreads -> {"delay"} \cup Sides]
    BY <1>8, <2>1, <2>2, FunctionSet
  <2> QED
    BY <1>2, <2>3 DEF QueueInv, QueueData
<1>10. SuspQueues(suspQ, Sides)'
  BY <1>2 DEF QueueInv, SuspQueues
<1>11. WaitOfCall'
  BY <1>1, <1>2, <1>7 DEF QueueInv, WaitOfCall, AllWaiters, WaitersOn
<1>12. \A u \in AppThreads : InCall(u)' <=> InCall(u)
  BY <1>7 DEF LabelsMove, TimerLabels, KernelLabels, InCall, AppThreads
<1>13. CallOfUse'
  BY <1>2, <1>12 DEF QueueInv, CallOfUse
<1>14. DeleteInv'
  <2>1. \A t \in Threads : pc'[t] = "quedel" <=> pc[t] = "quedel"
    BY <1>7 DEF LabelsMove, TimerLabels, KernelLabels
  <2>2. Null \notin deleting
    BY DEF OtherStep, QueueInv, DeleteInv
  <2> QED
    BY <1>2, <2>1, <2>2 DEF QueueInv, DeleteInv
<1> QED
  BY <1>2, <1>6, <1>7, <1>9, <1>10, <1>11, <1>12, <1>13, <1>14 DEF QueueInv, Elsewhere

-----------------------------------------------------------------------------

(* What a step does to the messages and to the threads that get and put:   *)
(* the kinds of steps that the proofs about them distinguish.              *)
ring == <<buff, insertIndex, removeIndex, numMsgs>>
OtherSide(side) == IF side = "getSuspQ" THEN "putSuspQ" ELSE "getSuspQ"
TakersOn(side) == IF side = "getSuspQ" THEN use.getters ELSE use.putters

(* Nothing.                                                                *)
Quiet ==
    /\ UNCHANGED <<ring, suspQ, sending, wakeStatus>>
    /\ \A u \in AppThreads : InCall(u)' <=> InCall(u)

(* A thread is taken off its queue by a delete or its timeout.             *)
TakenOff ==
    /\ UNCHANGED <<ring, sending>>
    /\ \A u \in AppThreads : InCall(u)' <=> InCall(u)
    /\ \E side \in Sides, t \in AppThreads, status \in WakeStatus \ {"ATOM_OK"} :
           WokenFrom(side, t, status)

(* A thread starts to wait, for a message or for space.                    *)
Joins(t, side) ==
    /\ UNCHANGED <<ring, wakeStatus>>
    /\ AllWaiters' = AllWaiters \cup {t}
    /\ ~ InCall(t)
    /\ \A u \in AppThreads : u # t => (InCall(u)' <=> InCall(u)) /\ sending'[u] = sending[u]
    /\ \A r \in Sides : r # side => suspQ'[r] = suspQ[r]
    /\ numMsgs = IF side = "getSuspQ" THEN 0 ELSE MaxMsgs

(* c gets or puts a message, at once or in its second critical section.    *)
Works(c, side) ==
    /\ c \in TakersOn(side) /\ c \notin AllWaiters
    /\ IF side = "getSuspQ" THEN queue_remove ELSE \E m \in Msgs : queue_insert(m)
    /\ \/ numMsgs # IF side = "getSuspQ" THEN 0 ELSE MaxMsgs
       \/ c \in Woken(side)
    /\ OneWoken(OtherSide(side))
    /\ \A u \in AppThreads : u # c => (InCall(u)' <=> InCall(u)) /\ sending'[u] = sending[u]
    /\ c \in AppThreads => ~ InCall(c)'

(* t returns without a message.                                            *)
Leaves(t) ==
    /\ UNCHANGED <<ring, suspQ, wakeStatus>>
    /\ \A u \in AppThreads : u # t => (InCall(u)' <=> InCall(u)) /\ sending'[u] = sending[u]
    /\ ~ InCall(t)'

StepKind ==
    \/ Quiet
    \/ TakenOff
    \/ atomQueueCreate
    \/ \E t \in AppThreads, side \in Sides : Joins(t, side)
    \/ \E c \in Contexts, side \in Sides : Works(c, side)
    \/ \E t \in AppThreads : Leaves(t)

(* The calls that return at once.                                          *)
LEMMA GetNowStep ==
    ASSUME CallbacksWake = FALSE, QueueInv, NEW c \in Contexts, MayCallQueue(c),
           c \in use.getters, QueueGetNow(c), use' = use
    PROVE  QueueInv' /\ Works(c, "getSuspQ")
<1>1. /\ queue_remove /\ WakeOne("putSuspQ") /\ PcResched(c) /\ CallFrame /\ numMsgs # 0
      /\ "putSuspQ" \in Sides
  BY DEF QueueGetNow, queue_remove, Sides
<1>2. RingTypeOK'
  BY <1>1, RingTyped DEF QueueInv, QueueData, RingTypeOK
<1>3. QueueInv' /\ OneWoken("putSuspQ")
  BY <1>1, <1>2, CallNowInv
<1>4. /\ c \in Threads => pc[c] = "app" /\ c \in AppThreads
      /\ AllWaiters \subseteq AppThreads /\ \A u \in AllWaiters : pc[u] \in {"get", "got"}
  BY CallerFacts, ParkedFacts DEF QueueInv, SuspendInv, StackTimerInv, Parked
<1>5. c \notin AllWaiters
  BY <1>4, ThreadsAssumption DEF AppThreads
<1>6. /\ \A u \in AppThreads : u # c => (InCall(u)' <=> InCall(u)) /\ sending'[u] = sending[u]
      /\ c \in AppThreads => ~ InCall(c)'
  BY <1>1 DEF PcResched, CallFrame, InCall, AppThreads
<1> QED
  BY <1>1, <1>3, <1>5, <1>6 DEF Works, TakersOn, OtherSide

LEMMA PutNowStep ==
    ASSUME CallbacksWake = FALSE, QueueInv, NEW c \in Contexts, MayCallQueue(c),
           c \in use.putters, NEW m \in Msgs, QueuePutNow(c, m), use' = use
    PROVE  QueueInv' /\ Works(c, "putSuspQ")
<1>1. /\ queue_insert(m) /\ WakeOne("getSuspQ") /\ PcResched(c) /\ CallFrame /\ numMsgs # MaxMsgs
      /\ "getSuspQ" \in Sides
  BY DEF QueuePutNow, queue_insert, Sides
<1>2. RingTypeOK'
  BY <1>1, RingTyped DEF QueueInv, QueueData, RingTypeOK
<1>3. QueueInv' /\ OneWoken("getSuspQ")
  BY <1>1, <1>2, CallNowInv
<1>4. /\ c \in Threads => pc[c] = "app" /\ c \in AppThreads
      /\ AllWaiters \subseteq AppThreads /\ \A u \in AllWaiters : pc[u] \in {"get", "got"}
  BY CallerFacts, ParkedFacts DEF QueueInv, SuspendInv, StackTimerInv, Parked
<1>5. c \notin AllWaiters
  BY <1>4, ThreadsAssumption DEF AppThreads
<1>6. /\ \A u \in AppThreads : u # c => (InCall(u)' <=> InCall(u)) /\ sending'[u] = sending[u]
      /\ c \in AppThreads => ~ InCall(c)'
  BY <1>1 DEF PcResched, CallFrame, InCall, AppThreads
<1> QED
  BY <1>1, <1>3, <1>5, <1>6 DEF Works, TakersOn, OtherSide

(* The calls that wait.                                                    *)
LEMMA BlockStep ==
    ASSUME QueueInv, NEW t \in use.patient, MayCall(t), NEW timeout \in Nat, use' = use,
           \/ t \in use.getters /\ QueueGetBlock(t, timeout)
           \/ t \in use.putters /\ \E m \in Msgs : QueuePutBlock(t, m, timeout)
    PROVE  QueueInv' /\ \E side \in Sides : Joins(t, side)
<1>1. t \in AppThreads /\ "getSuspQ" \in Sides /\ "putSuspQ" \in Sides
  BY UsesAssumption DEF QueueInv, QueueData, Sides
<1>2. CASE t \in use.getters /\ QueueGetBlock(t, timeout)
  <2>1. ~ InCall(t) /\ sending[t] = Null
    BY <1>1, ThreadsAssumption DEF MayCall, AppThreads, InCall, QueueInv, CallOfUse
  <2>2. /\ QueueInv' /\ AllWaiters' = AllWaiters \cup {t} /\ wakeStatus' = wakeStatus
        /\ ~ InCall(t) /\ \A u \in AppThreads : u # t => (InCall(u)' <=> InCall(u))
        /\ \A r \in Sides : r # "getSuspQ" => suspQ'[r] = suspQ[r]
    BY <1>1, <1>2, <2>1, BlockInv DEF QueueGetBlock, QueueInv, QueueData
  <2>3. Joins(t, "getSuspQ")
    BY <1>2, <2>2 DEF Joins, QueueGetBlock, QueueBlock, ring
  <2> QED
    BY <1>1, <2>2, <2>3
<1>3. ASSUME t \in use.putters, NEW m \in Msgs, QueuePutBlock(t, m, timeout)
      PROVE  QueueInv' /\ \E side \in Sides : Joins(t, side)
  <2>1. /\ sending' \in [AppThreads -> Msgs \cup {Null}] /\ sending'[t] # Null
        /\ \A u \in AppThreads : u # t => sending'[u] = sending[u]
    BY <1>1, <1>3, MsgsAssumption DEF QueuePutBlock, QueueInv, QueueData
  <2>2. /\ QueueInv' /\ AllWaiters' = AllWaiters \cup {t} /\ wakeStatus' = wakeStatus
        /\ ~ InCall(t) /\ \A u \in AppThreads : u # t => (InCall(u)' <=> InCall(u))
        /\ \A r \in Sides : r # "putSuspQ" => suspQ'[r] = suspQ[r]
    BY <1>1, <1>3, <2>1, BlockInv DEF QueuePutBlock
  <2>3. Joins(t, "putSuspQ")
    BY <1>3, <2>1, <2>2 DEF Joins, QueuePutBlock, QueueBlock, ring
  <2> QED
    BY <1>1, <2>2, <2>3
<1> QED
  BY <1>2, <1>3

(* The return.                                                             *)
LEMMA ReturnStep ==
    ASSUME QueueInv, NEW t \in AppThreads, QueueReturn(t), use' = use
    PROVE  QueueInv' /\ (Leaves(t) \/ \E side \in Sides : Works(t, side))
<1>1. /\ QueueInv'
      /\ t \notin AllWaiters /\ InCall(t) /\ ~ InCall(t)'
      /\ \A u \in AppThreads : u # t => (InCall(u)' <=> InCall(u)) /\ sending'[u] = sending[u]
      /\ wakeStatus[t] # "ATOM_OK" =>
            UNCHANGED <<suspQ, wakeStatus, buff, insertIndex, removeIndex, numMsgs>>
      /\ wakeStatus[t] = "ATOM_OK" =>
            IF sending[t] = Null THEN queue_remove /\ OneWoken("putSuspQ")
                                 ELSE queue_insert(sending[t]) /\ OneWoken("getSuspQ")
  BY ReturnInv
<1>2. sending[t] # Null => sending[t] \in Msgs
  BY DEF QueueInv, QueueData
<1>3. t \in (IF sending[t] = Null THEN use.getters ELSE use.putters)
  BY <1>1 DEF QueueInv, CallOfUse
<1>4. "getSuspQ" \in Sides /\ "putSuspQ" \in Sides
  BY DEF Sides
<1>5. CASE wakeStatus[t] # "ATOM_OK"
  BY <1>1, <1>5 DEF Leaves, ring
<1>6. CASE wakeStatus[t] = "ATOM_OK" /\ sending[t] = Null
  <2>1. t \in Woken("getSuspQ")
    BY <1>1, <1>6 DEF Woken, InCall
  <2>2. Works(t, "getSuspQ")
    BY <1>1, <1>3, <1>6, <2>1 DEF Works, TakersOn, OtherSide
  <2> QED
    BY <1>1, <1>4, <2>2
<1>7. CASE wakeStatus[t] = "ATOM_OK" /\ sending[t] # Null
  <2>1. t \in Woken("putSuspQ")
    BY <1>1, <1>7 DEF Woken, InCall
  <2>2. Works(t, "putSuspQ")
    BY <1>1, <1>2, <1>3, <1>7, <2>1 DEF Works, TakersOn, OtherSide
  <2> QED
    BY <1>1, <1>4, <2>2
<1> QED
  BY <1>5, <1>6, <1>7

(* Every step keeps the invariant and is of one of the kinds.              *)
LEMMA QueueStep ==
    ASSUME CallbacksWake = FALSE, QueueInv, [QueueNext]_allVars
    PROVE  QueueInv' /\ use' = use /\ StepKind
<1>1. use' = use
  BY DEF QueueNext, allVars
<1>2. ASSUME NEW c \in Contexts, MayCallQueue(c),
             \/ atomQueueCreate
             \/ c \in use.getters /\ QueueGetNow(c)
             \/ c \in use.putters /\ \E m \in Msgs : QueuePutNow(c, m)
             \/ QueueDeleteStart(c)
      PROVE  QueueInv' /\ StepKind
  <2>1. CASE atomQueueCreate
    BY <1>1, <2>1, CreateInv DEF StepKind
  <2>2. CASE c \in use.getters /\ QueueGetNow(c)
    <3>1. QueueInv' /\ Works(c, "getSuspQ") /\ "getSuspQ" \in Sides
      BY <1>1, <1>2, <2>2, GetNowStep DEF Sides
    <3> QED
      BY <3>1 DEF StepKind
  <2>3. CASE c \in use.putters /\ \E m \in Msgs : QueuePutNow(c, m)
    <3>1. QueueInv' /\ Works(c, "putSuspQ") /\ "putSuspQ" \in Sides
      BY <1>1, <1>2, <2>3, PutNowStep DEF Sides
    <3> QED
      BY <3>1 DEF StepKind
  <2>4. CASE QueueDeleteStart(c)
    <3>1. QueueInv' /\ Quiet
      BY <1>1, <1>2, <2>4, DeleteStartInv DEF Quiet, ring
    <3> QED
      BY <3>1 DEF StepKind
  <2> QED
    BY <1>2, <2>1, <2>2, <2>3, <2>4
<1>3. CASE QueueCall
  BY <1>1, <1>2, <1>3 DEF QueueCall
<1>4. CASE QueueWait
  <2>1. PICK t \in use.patient :
            \/ /\ MayCall(t)
               /\ \E timeout \in Ticks \cup {0} :
                     \/ t \in use.getters /\ QueueGetBlock(t, timeout)
                     \/ t \in use.putters /\ \E m \in Msgs : QueuePutBlock(t, m, timeout)
            \/ QueueSched(t)
            \/ QueueReturn(t)
    BY <1>4 DEF QueueWait
  <2>2. t \in AppThreads /\ Ticks \cup {0} \subseteq Nat
    BY UsesAssumption, TicksAssumption DEF QueueInv, QueueData
  <2>3. CASE QueueSched(t)
    BY <1>1, <2>2, <2>3, SchedStayInv DEF Elsewhere, StepKind, Quiet, queueVars, ring
  <2>4. CASE QueueReturn(t)
    BY <1>1, <2>2, <2>4, ReturnStep DEF StepKind, Contexts, AppThreads
  <2>5. ASSUME MayCall(t), NEW timeout \in Nat,
               \/ t \in use.getters /\ QueueGetBlock(t, timeout)
               \/ t \in use.putters /\ \E m \in Msgs : QueuePutBlock(t, m, timeout)
        PROVE  QueueInv' /\ StepKind
    <3>1. QueueInv' /\ \E side \in Sides : Joins(t, side)
      BY <1>1, <2>5, BlockStep
    <3> QED
      BY <2>2, <3>1 DEF StepKind
  <2> QED
    BY <1>1, <2>1, <2>2, <2>3, <2>4, <2>5
<1>5. CASE \E c \in Contexts : QueueDeleteStep(c)
  <2>1. PICK c \in Contexts : QueueDeleteWake(c) \/ QueueDeleteEnd(c)
    BY <1>5 DEF QueueDeleteStep
  <2>2. CASE QueueDeleteWake(c)
    <3>1. "ATOM_ERR_DELETED" \in WakeStatus \ {"ATOM_OK"}
      BY DEF WakeStatus
    <3>2. TakenOff
      BY <1>1, <2>2, <3>1, DeleteWakeInv DEF TakenOff, InCall, ring
    <3> QED
      BY <1>1, <2>2, <3>2, DeleteWakeInv DEF StepKind
  <2>3. CASE QueueDeleteEnd(c)
    BY <1>1, <2>3, DeleteEndInv DEF StepKind, Quiet, ring
  <2> QED
    BY <2>1, <2>2, <2>3
<1>6. CASE QueueTimeout
  <2>1. PICK t \in AppThreads, side \in Sides : atomQueueTimerCallback(t, side)
    BY <1>6 DEF QueueTimeout
  <2>2. "ATOM_TIMEOUT" \in WakeStatus \ {"ATOM_OK"}
    BY DEF WakeStatus
  <2>3. TakenOff
    BY <1>1, <2>1, <2>2, TimeoutInv DEF TakenOff, InCall, ring
  <2> QED
    BY <1>1, <2>1, <2>3, TimeoutInv DEF StepKind
<1>7. CASE OtherStep
  BY <1>1, <1>7, OtherStepInv DEF Elsewhere, StepKind, Quiet, queueVars, ring
<1>8. CASE UNCHANGED allVars
  <2>1. UNCHANGED <<kernelVars, timerVars, suspQ, sending, deleting, wokenThreads,
                    use, ring, wakeStatus, pc>>
    BY <1>8 DEF allVars, queueVars, kernelVars, ring
  <2>2. RingTypeOK'
    BY <2>1 DEF QueueInv, QueueData, RingTypeOK, ring
  <2> QED
    BY <2>1, <2>2, RingOnly DEF StepKind, Quiet, InCall
<1> QED
  BY <1>1, <1>3, <1>4, <1>5, <1>6, <1>7, <1>8 DEF QueueNext

(* The invariant holds in every reachable state, however the application   *)
(* uses the queue.                                                         *)
THEOREM QueueInvariant == CallbacksWake = FALSE => (QueueSpec => []QueueInv)
<1> SUFFICES ASSUME CallbacksWake = FALSE PROVE QueueSpec => []QueueInv
  OBVIOUS
<1>1. QueueInv /\ [QueueNext]_allVars => QueueInv'
  BY QueueStep
<1> QED
  BY <1>1, QueueInitInv, PTL DEF QueueSpec

(* Every live thread is running, ready, in a delay, or waiting on one side *)
(* of the queue and in its place there, through gets, puts, deletions,     *)
(* timeouts, interrupts and preemptions in any order.                      *)
THEOREM QueuePlacementHolds == CallbacksWake = FALSE => (QueueSpec => []QueuePlacement)
<1>1. QueueInv => QueuePlacement
  <2> SUFFICES ASSUME QueueInv PROVE QueuePlacement
    OBVIOUS
  <2>1. QueueTypeOK
    BY DEF QueueInv, QueueData, QueueTypeOK, SuspendInv, KernelInv, TimerListInv, SuspQueues
  <2>2. DelayedThreads \cap AllWaiters = {}
    BY DEF QueueInv, SuspendInv, StackTimerInv, DelayedThreads
  <2>3. Placement(DelayedThreads \cup AllWaiters)
    BY DEF QueueInv, SuspendInv, KernelInv, SchedInv, Parked
  <2>4. WaitersOn("getSuspQ") \cap WaitersOn("putSuspQ") = {}
    BY DEF QueueInv, SuspQueues, WaitersOn, Sides
  <2> QED
    BY <2>1, <2>2, <2>3, <2>4 DEF QueuePlacement, QueueInv, SuspQueues
<1> QED
  BY <1>1, QueueInvariant, PTL

(* The timer of a get or put is pending while the thread waits on that     *)
(* side and not afterwards, when its stack frame is gone.                  *)
THEOREM QueueTimeoutsSound == CallbacksWake = FALSE => (QueueSpec => []TimeoutsSound)
<1>1. QueueInv => TimeoutsSound
  <2> SUFFICES ASSUME QueueInv PROVE TimeoutsSound
    OBVIOUS
  <2>1. ASSUME NEW t \in PendingTimers \cap AppThreads
        PROVE  \/ cbFunc[t] = "delay" /\ pc[t] \in {"delay", "delayed"} /\ suspended[t]
               \/ /\ cbFunc[t] \in Sides
                  /\ t \in WaitersOn(cbFunc[t])
                  /\ pc[t] \in {"get", "got"}
                  /\ timoCb[t]
    <3>1. timoCb[t] /\ suspended[t]
      BY <2>1, ParkedFacts DEF QueueInv, SuspendInv, StackTimerInv
    <3>2. CASE cbFunc[t] = "delay"
      BY <2>1, <3>1, <3>2 DEF QueueInv, SuspendInv, StackTimerInv
    <3>3. CASE cbFunc[t] # "delay"
      <4>1. t \in AllWaiters
        BY <2>1, <3>3 DEF QueueInv, SuspendInv, StackTimerInv
      <4>2. PICK s \in Sides : t \in WaitersOn(s)
        BY <4>1 DEF AllWaiters
      <4> QED
        BY <3>1, <4>1, <4>2 DEF QueueInv, WaitOfCall, SuspendInv, StackTimerInv
    <3> QED
      BY <3>2, <3>3
  <2>2. ASSUME NEW s \in Sides, NEW t \in WaitersOn(s), timoCb[t]
        PROVE  t \in PendingTimers /\ cbFunc[t] = s
    <3>1. t \in AllWaiters
      BY <2>2 DEF AllWaiters
    <3> QED
      BY <2>2, <3>1 DEF QueueInv, WaitOfCall, SuspendInv, StackTimerInv
  <2> QED
    BY <2>1, <2>2 DEF TimeoutsSound, StackTimersSound, TimeoutsArmed
<1> QED
  BY <1>1, QueueInvariant, PTL

-----------------------------------------------------------------------------

(* A thread that waits on one side of the queue has that side to itself,   *)
(* or nobody else uses the other side: no third thread can take what it    *)
(* was woken for.                                                          *)
Uncontended(u) ==
    /\ \A t \in u.getters \cap u.patient : u.getters = {t} \/ u.putters \subseteq {t}
    /\ \A t \in u.putters \cap u.patient : u.putters = {t} \/ u.getters \subseteq {t}

(* What a thread finds on a side: messages to get, or room to put one.     *)
Work(side) == IF side = "getSuspQ" THEN numMsgs ELSE MaxMsgs - numMsgs

(* There is work for a woken thread, and none for a thread that waits; a   *)
(* woken thread was woken by somebody else.                                *)
WorkInv ==
    /\ numMsgs <= MaxMsgs
    /\ \A side \in Sides :
           /\ Woken(side) # {} => Work(side) > 0
           /\ WaitersOn(side) # {} => Work(side) = 0
           /\ \A t \in Woken(side) : ~ (TakersOn(OtherSide(side)) \subseteq {t})

(* A step after which no more threads are woken or wait than before.       *)
LEMMA WorkStays ==
    ASSUME WorkInv, UNCHANGED numMsgs, use' = use,
           \A side \in Sides : Woken(side)' \subseteq Woken(side),
           \A side \in Sides : WaitersOn(side)' \subseteq WaitersOn(side) \/ Work(side) = 0
    PROVE  WorkInv'
  BY DEF WorkInv, Work, TakersOn, OtherSide

(* What a thread that gets or puts finds and leaves.                       *)
LEMMA WorksFacts ==
    ASSUME QueueInv, WorkInv, NEW c \in Contexts, NEW side \in Sides, Works(c, side)
    PROVE  /\ MaxMsgs \in Nat /\ numMsgs \in 0..MaxMsgs /\ Work(side) > 0 /\ numMsgs' \in 0..MaxMsgs
           /\ numMsgs' = IF side = "getSuspQ" THEN numMsgs - 1 ELSE numMsgs + 1
           /\ WaitersOn(side) = {}
<1>1. /\ numMsgs \in Nat /\ numMsgs <= MaxMsgs
      /\ MaxMsgs \in Nat /\ NumMod \in Nat /\ NumMod > MaxMsgs
  BY MaxMsgsAssumption DEF QueueInv, QueueData, WorkInv
<1>2. Work(side) > 0
  <2>1. Woken(side) # {} => Work(side) > 0
    BY DEF WorkInv
  <2>2. CASE c \in Woken(side)
    BY <2>1, <2>2
  <2>3. CASE numMsgs # IF side = "getSuspQ" THEN 0 ELSE MaxMsgs
    BY <1>1, <2>3 DEF Work
  <2> QED
    BY <2>2, <2>3 DEF Works
<1>3. WaitersOn(side) = {}
  BY <1>2 DEF WorkInv
<1>4. numMsgs' = IF side = "getSuspQ" THEN (numMsgs - 1) % NumMod ELSE (numMsgs + 1) % NumMod
  BY DEF Works, queue_remove, queue_insert
<1>5. CASE side = "getSuspQ"
  <2>1. numMsgs > 0
    BY <1>2, <1>5 DEF Work
  <2>2. numMsgs - 1 \in Nat /\ numMsgs - 1 < NumMod
    BY <1>1, <2>1
  <2>3. (numMsgs - 1) % NumMod = numMsgs - 1
    BY <1>1, <2>2
  <2> QED
    BY <1>1, <1>2, <1>3, <1>4, <1>5, <2>1, <2>3
<1>6. CASE side # "getSuspQ"
  <2>1. numMsgs < MaxMsgs
    BY <1>1, <1>2, <1>6 DEF Work
  <2>2. (numMsgs + 1) % NumMod = numMsgs + 1
    BY <1>1, <2>1
  <2> QED
    BY <1>1, <1>2, <1>3, <1>4, <1>6, <2>1, <2>2
<1> QED
  BY <1>5, <1>6

(* The users of a side that wait there or were woken from it.              *)
LEMMA PatientTakers ==
    ASSUME QueueInv, NEW side \in Sides, NEW t \in Woken(side) \cup WaitersOn(side)
    PROVE  /\ t \in AppThreads /\ t \in use.patient /\ t \in TakersOn(side)
           /\ t \in AllWaiters \/ t \in Woken(side)
<1>1. CASE t \in Woken(side)
  BY <1>1 DEF Woken, QueueInv, CallOfUse, InCall, TakersOn, Sides
<1>2. CASE t \in WaitersOn(side)
  <2>1. t \in AllWaiters
    BY <1>2 DEF AllWaiters
  <2>2. t \in AppThreads /\ InCall(t)
    BY <2>1, ParkedFacts DEF QueueInv, SuspendInv, StackTimerInv, Parked, InCall
  <2>3. sending[t] = Null <=> side = "getSuspQ"
    BY <1>2 DEF QueueInv, WaitOfCall
  <2> QED
    BY <2>1, <2>2, <2>3 DEF QueueInv, CallOfUse, TakersOn
<1> QED
  BY <1>1, <1>2

(* Where nobody competes, c is the only thread that was woken for what it  *)
(* takes, and at most one thread waits for what it leaves.                 *)
LEMMA NobodyElse ==
    ASSUME QueueInv, WorkInv, Uncontended(use),
           NEW c \in Contexts, NEW side \in Sides, Works(c, side)
    PROVE  /\ Woken(side) \subseteq {c}
           /\ \A t, u \in WaitersOn(OtherSide(side)) : t = u
<1>1. OtherSide(side) \in Sides /\ OtherSide(OtherSide(side)) = side
  BY DEF OtherSide, Sides
<1>2. c \in TakersOn(side) /\ c \notin AllWaiters
  BY DEF Works
<1>3. \A r \in Sides : \A t \in TakersOn(r) \cap use.patient :
          TakersOn(r) = {t} \/ TakersOn(OtherSide(r)) \subseteq {t}
  BY DEF Uncontended, TakersOn, OtherSide, Sides
<1>4. ASSUME NEW u \in Woken(side) PROVE u = c
  <2>1. u \in TakersOn(side) \cap use.patient
    BY PatientTakers
  <2>2. ~ (TakersOn(OtherSide(side)) \subseteq {u})
    BY DEF WorkInv
  <2>3. TakersOn(side) = {u}
    BY <1>3, <2>1, <2>2
  <2> QED
    BY <1>2, <2>3
<1>5. ASSUME NEW t \in WaitersOn(OtherSide(side)), NEW u \in WaitersOn(OtherSide(side))
      PROVE  t = u
  <2>1. /\ t \in TakersOn(OtherSide(side)) \cap use.patient
        /\ u \in TakersOn(OtherSide(side))
    BY <1>1, PatientTakers
  <2>2. t # c
    BY <1>1, <1>2 DEF AllWaiters
  <2>3. ~ (TakersOn(side) \subseteq {t})
    BY <1>2, <2>2
  <2>4. TakersOn(OtherSide(side)) = {t}
    BY <1>1, <1>3, <2>1, <2>3
  <2> QED
    BY <2>1, <2>4
<1> QED
  BY <1>4, <1>5

LEMMA WorksWork ==
    ASSUME QueueInv, WorkInv, Uncontended(use), use' = use,
           NEW c \in Contexts, NEW side \in Sides, Works(c, side)
    PROVE  WorkInv'
<1>1. PICK r : r = OtherSide(side)
  OBVIOUS
<1>2. r \in Sides /\ r # side /\ Sides = {side, r} /\ OtherSide(r) = side
  BY <1>1 DEF OtherSide, Sides
<1>3. /\ MaxMsgs \in Nat /\ numMsgs \in 0..MaxMsgs /\ Work(side) > 0 /\ numMsgs' \in 0..MaxMsgs
      /\ numMsgs' = IF side = "getSuspQ" THEN numMsgs - 1 ELSE numMsgs + 1
      /\ WaitersOn(side) = {}
  BY WorksFacts
<1>4. Work(r)' > 0
  <2>1. CASE side = "getSuspQ"
    BY <1>1, <1>3, <2>1 DEF Work, OtherSide
  <2>2. CASE side # "getSuspQ"
    BY <1>1, <1>3, <2>2 DEF Work, OtherSide
  <2> QED
    BY <2>1, <2>2
<1>5. /\ Woken(side) \subseteq {c} /\ \A t, u \in WaitersOn(r) : t = u
      /\ c \in TakersOn(side) /\ c \notin AllWaiters
      /\ OneWoken(r)
      /\ \A u \in AppThreads : u # c => (InCall(u)' <=> InCall(u)) /\ sending'[u] = sending[u]
      /\ c \in AppThreads => ~ InCall(c)'
  BY <1>1, NobodyElse DEF Works
<1>6. /\ Woken(side)' = {}
      /\ WaitersOn(side)' = {} /\ WaitersOn(r)' = {}
      /\ \A t \in Woken(r)' : t # c
  <2>1. \A t \in AppThreads : InCall(t)' => t # c
    BY <1>5
  <2>2. \A s \in Sides : \A t \in Woken(s)' : t \in AppThreads /\ t # c
    BY <2>1 DEF Woken, InCall
  <2>3. CASE suspQ[r] = <<>> /\ UNCHANGED <<suspQ, wakeStatus>>
    <3>1. \A s \in Sides : WaitersOn(s)' = WaitersOn(s)
      BY <2>3 DEF WaitersOn
    <3>2. AllWaiters' = AllWaiters
      BY <2>3 DEF AllWaiters, WaitersOn
    <3>3. WaitersOn(r) = {}
      BY <2>3 DEF WaitersOn, Range
    <3>4. Woken(side)' \subseteq Woken(side)
      BY <1>5, <2>2, <2>3, <3>2, <1>2 DEF Woken, InCall
    <3> QED
      BY <1>2, <1>3, <1>5, <2>2, <3>1, <3>3, <3>4
  <2>4. ASSUME NEW t \in AppThreads, WokenFrom(r, t, "ATOM_OK")
        PROVE  /\ Woken(side)' = {}
               /\ WaitersOn(side)' = {} /\ WaitersOn(r)' = {}
    <3>1. /\ t \in WaitersOn(r) /\ WaitersOn(side)' = WaitersOn(side)
          /\ WaitersOn(r)' = WaitersOn(r) \ {t}
          /\ AllWaiters' = AllWaiters \ {t}
          /\ \A u \in AppThreads : u # t => wakeStatus'[u] = wakeStatus[u]
      BY <1>2, <2>4 DEF WokenFrom, WaitersOn
    <3>2. t # c /\ sending'[t] = sending[t] /\ (sending[t] = Null <=> r = "getSuspQ")
      BY <1>2, <1>5, <3>1 DEF QueueInv, WaitOfCall, AllWaiters
    <3>3. ASSUME NEW u \in Woken(side)' PROVE FALSE
      <4>1. u \in AppThreads /\ u # c
        BY <1>2, <2>2, <3>3
      <4>2. u # t
        BY <1>2, <3>2, <3>3 DEF Woken, Sides
      <4>3. u \in Woken(side)
        BY <1>5, <3>1, <3>3, <4>1, <4>2 DEF Woken, InCall
      <4> QED
        BY <1>5, <4>1, <4>3
    <3> QED
      BY <1>3, <1>5, <3>1, <3>3
  <2> QED
    BY <1>2, <1>5, <2>2, <2>3, <2>4 DEF OneWoken
<1>7. \A t \in Woken(r)' : ~ (TakersOn(OtherSide(r)) \subseteq {t})'
  BY <1>2, <1>5, <1>6 DEF TakersOn
<1>8. \A s \in Sides : WaitersOn(s)' = {}
  BY <1>2, <1>6
<1>9. \A s \in Sides : Woken(s)' # {} => s = r
  BY <1>2, <1>6
<1>10. numMsgs' <= MaxMsgs
  BY <1>3
<1> QED
  BY <1>4, <1>7, <1>8, <1>9, <1>10 DEF WorkInv

LEMMA WorkStep ==
    ASSUME QueueInv, WorkInv, Uncontended(use), use' = use, StepKind
    PROVE  WorkInv'
<1>1. CASE Quiet
  <2>1. /\ numMsgs' = numMsgs /\ AllWaiters' = AllWaiters
        /\ \A side \in Sides : WaitersOn(side)' = WaitersOn(side)
    BY <1>1 DEF Quiet, ring, AllWaiters, WaitersOn
  <2>2. \A side \in Sides : Woken(side)' \subseteq Woken(side)
    BY <1>1, <2>1 DEF Quiet, Woken, InCall
  <2> QED
    BY <2>1, <2>2, WorkStays
<1>2. CASE TakenOff
  <2>1. PICK side \in Sides, t \in AppThreads, status \in WakeStatus \ {"ATOM_OK"} :
            WokenFrom(side, t, status)
    BY <1>2 DEF TakenOff
  <2>2. \A r \in Sides : WaitersOn(r)' \subseteq WaitersOn(r)
    BY <2>1 DEF WokenFrom, WaitersOn
  <2>3. ASSUME NEW r \in Sides, NEW u \in Woken(r)' PROVE u \in Woken(r)
    <3>1. u \in AppThreads /\ u # t
      BY <2>1, <2>3 DEF Woken, WokenFrom
    <3> QED
      BY <1>2, <2>1, <2>3, <3>1 DEF TakenOff, Woken, WokenFrom, InCall
  <2> QED
    BY <1>2, <2>2, <2>3, WorkStays DEF TakenOff, ring
<1>3. CASE atomQueueCreate
  <2>1. /\ \A side \in Sides : WaitersOn(side)' = {}
        /\ \A t \in AppThreads : ~ InCall(t)'
    BY <1>3, CreateEmpties DEF atomQueueCreate, WaitersOn, Range, InCall, kernelVars
  <2>2. \A side \in Sides : Woken(side)' = {}
    BY <2>1 DEF Woken, InCall
  <2> QED
    BY <1>3, <2>1, <2>2, MaxMsgsAssumption DEF WorkInv, atomQueueCreate
<1>4. ASSUME NEW t \in AppThreads, NEW side \in Sides, Joins(t, side) PROVE WorkInv'
  <2>1. numMsgs' = numMsgs /\ \A r \in Sides : r # side => WaitersOn(r)' = WaitersOn(r)
    BY <1>4 DEF Joins, ring, WaitersOn
  <2>2. Work(side) = 0
    BY <1>4, MaxMsgsAssumption DEF Joins, Work
  <2>3. ASSUME NEW r \in Sides, NEW u \in Woken(r)' PROVE u \in Woken(r)
    <3>1. u \in AppThreads /\ u # t
      BY <1>4, <2>3 DEF Woken, Joins
    <3> QED
      BY <1>4, <2>3, <3>1 DEF Joins, Woken, InCall
  <2> QED
    BY <2>1, <2>2, <2>3, WorkStays
<1>5. ASSUME NEW t \in AppThreads, Leaves(t) PROVE WorkInv'
  <2>1. /\ numMsgs' = numMsgs /\ AllWaiters' = AllWaiters
        /\ \A side \in Sides : WaitersOn(side)' = WaitersOn(side)
    BY <1>5 DEF Leaves, ring, AllWaiters, WaitersOn
  <2>2. ASSUME NEW r \in Sides, NEW u \in Woken(r)' PROVE u \in Woken(r)
    <3>1. u \in AppThreads /\ u # t
      BY <1>5, <2>2 DEF Woken, Leaves, InCall
    <3> QED
      BY <1>5, <2>1, <2>2, <3>1 DEF Leaves, Woken, InCall
  <2> QED
    BY <2>1, <2>2, WorkStays
<1> QED
  BY <1>1, <1>2, <1>3, <1>4, <1>5, WorksWork DEF StepKind

(* Every use of the queue leaves the threads that wait uncontended.        *)
UsesUncontended == \A u \in Uses : Uncontended(u)

THEOREM WorkInvariant ==
    CallbacksWake = FALSE /\ UsesUncontended => (QueueSpec => [](QueueInv /\ WorkInv))
<1> SUFFICES ASSUME CallbacksWake = FALSE, UsesUncontended
             PROVE  QueueSpec => [](QueueInv /\ WorkInv)
  OBVIOUS
<1>1. QueueInit => WorkInv
  <2> SUFFICES ASSUME QueueInit PROVE WorkInv
    OBVIOUS
  <2>1. \A side \in Sides : WaitersOn(side) = {} /\ Woken(side) = {}
    BY ThreadsAssumption
       DEF QueueInit, QueueLibInit, TimerInit, KernelInit, WaitersOn, Range, Woken, AppThreads
  <2> QED
    BY <2>1, MaxMsgsAssumption DEF WorkInv, QueueInit, QueueLibInit
<1>2. QueueInv /\ WorkInv /\ [QueueNext]_allVars => (QueueInv /\ WorkInv)'
  <2> SUFFICES ASSUME QueueInv, WorkInv, [QueueNext]_allVars PROVE QueueInv' /\ WorkInv'
    OBVIOUS
  <2>1. Uncontended(use)
    BY DEF UsesUncontended, QueueInv, QueueData
  <2>2. QueueInv' /\ use' = use /\ StepKind
    BY QueueStep
  <2> QED
    BY <2>1, <2>2, WorkStep
<1> QED
  BY <1>1, <1>2, QueueInitInv, PTL DEF QueueSpec

(* A thread that was woken to get finds a message, and one that was woken  *)
(* to put finds room, whatever was put, got, timed out or deleted since.   *)
THEOREM QueueWokenFindsWork ==
    CallbacksWake = FALSE /\ UsesUncontended => (QueueSpec => []WokenFindsWork)
<1>1. QueueInv /\ WorkInv => WokenFindsWork
  <2> SUFFICES ASSUME QueueInv, WorkInv PROVE WokenFindsWork
    OBVIOUS
  <2>1. /\ Woken("getSuspQ") # {} => Work("getSuspQ") > 0
        /\ Woken("putSuspQ") # {} => Work("putSuspQ") > 0
    BY DEF WorkInv, Sides
  <2>2. numMsgs \in Nat /\ MaxMsgs \in Nat
    BY MaxMsgsAssumption DEF QueueInv, QueueData
  <2> QED
    BY <2>1, <2>2 DEF WokenFindsWork, Work
<1> QED
  BY <1>1, WorkInvariant, PTL

(* No thread waits to get while a message is stored that was promised to   *)
(* no other, and none waits to put while there is such room.               *)
THEOREM QueueNobodyWaitsInVain ==
    CallbacksWake = FALSE /\ UsesUncontended => (QueueSpec => []NobodyWaitsInVain)
<1>1. QueueInv /\ WorkInv => NobodyWaitsInVain
  <2> SUFFICES ASSUME QueueInv, WorkInv PROVE NobodyWaitsInVain
    OBVIOUS
  <2>1. ASSUME NEW side \in Sides, suspQ[side] # <<>>
        PROVE  Work(side) = 0 /\ Cardinality(Woken(side)) = 0
    <3>1. suspQ[side] \in Seq(AppThreads) /\ IsTcbQueue(suspQ[side])
      BY DEF QueueInv, SuspQueues
    <3>2. WaitersOn(side) # {}
      BY <2>1, <3>1, TailProperties DEF WaitersOn
    <3>3. Work(side) = 0 /\ Woken(side) = {}
      BY <3>2 DEF WorkInv
    <3> QED
      BY <3>3, FS_EmptySet
  <2>2. numMsgs \in Nat /\ MaxMsgs \in Nat
    BY MaxMsgsAssumption DEF QueueInv, QueueData
  <2> QED
    BY <2>1, <2>2 DEF NobodyWaitsInVain, Work, Sides
<1> QED
  BY <1>1, WorkInvariant, PTL

-----------------------------------------------------------------------------

(* The refinement.  The slot n places after slot 0, across the wrap, and   *)
(* the messages that a buffer b holds from slot r on.                      *)
Wrap(n) == IF n >= MaxMsgs THEN n - MaxMsgs ELSE n
StoredIn(b, r, n) == [i \in 1..n |-> b[(r + i - 1) % MaxMsgs]]

LEMMA WrapIsMod ==
    ASSUME NEW n \in Nat, n < MaxMsgs + MaxMsgs
    PROVE  n % MaxMsgs = Wrap(n) /\ Wrap(n) \in Slots
<1>1. MaxMsgs \in Nat /\ MaxMsgs > 0
  BY MaxMsgsAssumption
<1>2. CASE n < MaxMsgs
  <2>1. n % MaxMsgs = n
    BY <1>1, <1>2
  <2> QED
    BY <1>1, <1>2, <2>1 DEF Wrap, Slots
<1>3. CASE ~ (n < MaxMsgs)
  <2>1. n - MaxMsgs \in Nat /\ n - MaxMsgs < MaxMsgs
    BY <1>1, <1>3
  <2>2. n % MaxMsgs = n - MaxMsgs
    BY <1>1, <1>3
  <2> QED
    BY <1>1, <1>3, <2>1, <2>2 DEF Wrap, Slots
<1> QED
  BY <1>2, <1>3

LEMMA StoredInFacts ==
    ASSUME NEW b \in [Slots -> Msgs \cup {Null}], NEW r \in Slots, NEW n \in 0..MaxMsgs
    PROVE  /\ StoredIn(b, r, n) \in Seq(Msgs \cup {Null})
           /\ Len(StoredIn(b, r, n)) = n
           /\ \A i \in 1..n : StoredIn(b, r, n)[i] = b[Wrap(r + i - 1)]
<1>1. MaxMsgs \in Nat /\ MaxMsgs > 0 /\ r \in Nat /\ r < MaxMsgs /\ n \in Nat /\ n <= MaxMsgs
  BY MaxMsgsAssumption DEF Slots
<1>2. ASSUME NEW i \in 1..n
      PROVE  (r + i - 1) % MaxMsgs = Wrap(r + i - 1) /\ Wrap(r + i - 1) \in Slots
  <2>1. r + i - 1 \in Nat /\ r + i - 1 < MaxMsgs + MaxMsgs
    BY <1>1
  <2> QED
    BY <2>1, WrapIsMod
<1>3. StoredIn(b, r, n) \in [1..n -> Msgs \cup {Null}]
  BY <1>2 DEF StoredIn
<1>4. StoredIn(b, r, n) \in Seq(Msgs \cup {Null}) /\ Len(StoredIn(b, r, n)) = n
  BY <1>1, <1>3
<1> QED
  BY <1>2, <1>4 DEF StoredIn

(* What queue_remove does to them, and what queue_insert does.             *)
LEMMA StoredTail ==
    ASSUME NEW b \in [Slots -> Msgs \cup {Null}], NEW r \in Slots, NEW n \in 1..MaxMsgs
    PROVE  /\ StoredIn(b, r, n) # <<>>
           /\ StoredIn(b, Wrap(r + 1), n - 1) = Tail(StoredIn(b, r, n))
<1>1. MaxMsgs \in Nat /\ MaxMsgs > 0 /\ r \in Nat /\ r < MaxMsgs /\ n \in Nat /\ n <= MaxMsgs /\ n > 0
  BY MaxMsgsAssumption DEF Slots
<1>2. Wrap(r + 1) \in Slots
  BY <1>1, WrapIsMod
<1>3. PICK old : old = StoredIn(b, r, n)
  OBVIOUS
<1>4. PICK new : new = StoredIn(b, Wrap(r + 1), n - 1)
  OBVIOUS
<1>5. /\ old \in Seq(Msgs \cup {Null}) /\ Len(old) = n
      /\ \A i \in 1..n : old[i] = b[Wrap(r + i - 1)]
  BY <1>1, <1>3, StoredInFacts
<1>6. /\ new \in Seq(Msgs \cup {Null}) /\ Len(new) = n - 1
      /\ \A i \in 1..(n - 1) : new[i] = b[Wrap(Wrap(r + 1) + i - 1)]
  <2>1. PICK from : from = Wrap(r + 1)
    OBVIOUS
  <2>2. PICK k : k = n - 1
    OBVIOUS
  <2>3. from \in Slots /\ k \in 0..MaxMsgs /\ new = StoredIn(b, from, k)
    BY <1>1, <1>2, <1>4, <2>1, <2>2
  <2>4. /\ new \in Seq(Msgs \cup {Null}) /\ Len(new) = k
        /\ \A i \in 1..k : new[i] = b[Wrap(from + i - 1)]
    BY <2>3, StoredInFacts
  <2> QED
    BY <2>1, <2>2, <2>4
<1>7. ASSUME NEW i \in 1..(n - 1) PROVE Wrap(Wrap(r + 1) + i - 1) = Wrap(r + (i + 1) - 1)
  BY <1>1 DEF Wrap
<1>8. old # <<>>
  BY <1>1, <1>5
<1>9. /\ Tail(old) \in Seq(Msgs \cup {Null}) /\ Len(Tail(old)) = n - 1
      /\ \A i \in 1..(n - 1) : Tail(old)[i] = old[i + 1]
  BY <1>5, <1>8, HeadTailProperties
<1>10. ASSUME NEW i \in 1..(n - 1) PROVE new[i] = Tail(old)[i]
  <2>1. i + 1 \in 1..n
    BY <1>1
  <2> QED
    BY <1>5, <1>6, <1>7, <1>9, <2>1
<1>11. new = Tail(old)
  BY <1>6, <1>9, <1>10, SeqEqual
<1> QED
  BY <1>3, <1>4, <1>8, <1>11

LEMMA StoredAppend ==
    ASSUME NEW b \in [Slots -> Msgs \cup {Null}], NEW r \in Slots, NEW n \in 0..(MaxMsgs - 1),
           NEW m \in Msgs
    PROVE  StoredIn([b EXCEPT ![Wrap(r + n)] = m], r, n + 1) = Append(StoredIn(b, r, n), m)
<1>1. MaxMsgs \in Nat /\ MaxMsgs > 0 /\ r \in Nat /\ r < MaxMsgs /\ n \in Nat /\ n < MaxMsgs
  BY MaxMsgsAssumption DEF Slots
<1>2. Wrap(r + n) \in Slots
  BY <1>1, WrapIsMod
<1>3. PICK after : after = [b EXCEPT ![Wrap(r + n)] = m]
  OBVIOUS
<1>4. /\ after \in [Slots -> Msgs \cup {Null}] /\ after[Wrap(r + n)] = m
      /\ \A x \in Slots : x # Wrap(r + n) => after[x] = b[x]
  BY <1>2, <1>3
<1>5. PICK old : old = StoredIn(b, r, n)
  OBVIOUS
<1>6. PICK new : new = StoredIn(after, r, n + 1)
  OBVIOUS
<1>7. /\ old \in Seq(Msgs \cup {Null}) /\ Len(old) = n
      /\ \A i \in 1..n : old[i] = b[Wrap(r + i - 1)]
  BY <1>1, <1>5, StoredInFacts
<1>8. /\ new \in Seq(Msgs \cup {Null}) /\ Len(new) = n + 1
      /\ \A i \in 1..(n + 1) : new[i] = after[Wrap(r + i - 1)]
  BY <1>1, <1>4, <1>6, StoredInFacts
<1>9. /\ Append(old, m) \in Seq(Msgs \cup {Null}) /\ Len(Append(old, m)) = n + 1
      /\ \A i \in 1..n : Append(old, m)[i] = old[i]
      /\ Append(old, m)[n + 1] = m
  BY <1>7, AppendProperties
<1>10. ASSUME NEW i \in 1..(n + 1) PROVE new[i] = Append(old, m)[i]
  <2>1. CASE i = n + 1
    <3>1. Wrap(r + i - 1) = Wrap(r + n)
      BY <1>1, <2>1
    <3> QED
      BY <1>4, <1>8, <1>9, <2>1, <3>1
  <2>2. CASE i # n + 1
    <3>1. i \in 1..n
      BY <1>1, <2>2
    <3>2. r + i - 1 \in Nat /\ r + i - 1 < MaxMsgs + MaxMsgs
      BY <1>1, <3>1
    <3>3. Wrap(r + i - 1) \in Slots
      BY <3>2, WrapIsMod
    <3>4. Wrap(r + i - 1) # Wrap(r + n)
      BY <1>1, <3>1 DEF Wrap
    <3> QED
      BY <1>4, <1>7, <1>8, <1>9, <3>1, <3>3, <3>4
  <2> QED
    BY <2>1, <2>2
<1>11. new = Append(old, m)
  BY <1>8, <1>9, <1>10, SeqEqual
<1> QED
  BY <1>3, <1>5, <1>6, <1>11

(* The next message is put right after the last one stored.                *)
IndexInv == insertIndex = Wrap(removeIndex + numMsgs)

LEMMA WorksStored ==
    ASSUME QueueInv, WorkInv, IndexInv,
           NEW c \in Contexts, NEW side \in Sides, Works(c, side)
    PROVE  IndexInv' /\ (Abstract!Receive \/ \E m \in Msgs : Abstract!Send(m))
<1>1. /\ MaxMsgs \in Nat /\ numMsgs \in 0..MaxMsgs /\ Work(side) > 0
      /\ numMsgs' = IF side = "getSuspQ" THEN numMsgs - 1 ELSE numMsgs + 1
  BY WorksFacts
<1>2. /\ buff \in [Slots -> Msgs \cup {Null}] /\ removeIndex \in Slots
      /\ removeIndex \in Nat /\ removeIndex < MaxMsgs /\ MaxMsgs > 0
  BY MaxMsgsAssumption DEF QueueInv, QueueData, Slots
<1>3. /\ Stored = StoredIn(buff, removeIndex, numMsgs)
      /\ Stored' = StoredIn(buff', removeIndex', numMsgs')
  BY DEF Stored, StoredIn
<1>4. CASE side = "getSuspQ"
  <2>1. /\ queue_remove /\ numMsgs \in 1..MaxMsgs /\ numMsgs' = numMsgs - 1
    BY <1>1, <1>4 DEF Works, Work
  <2>2. /\ buff' = buff /\ insertIndex' = insertIndex
        /\ removeIndex' = Wrap(removeIndex + 1)
    BY <1>1, <1>2, <2>1 DEF queue_remove, Wrap
  <2>3. Abstract!Receive
    BY <1>2, <1>3, <2>1, <2>2, StoredTail DEF Abstract!Receive
  <2>4. IndexInv'
    BY <1>1, <1>2, <2>1, <2>2 DEF IndexInv, Wrap
  <2> QED
    BY <2>3, <2>4
<1>5. CASE side # "getSuspQ"
  <2>1. PICK m \in Msgs : queue_insert(m)
    BY <1>5 DEF Works
  <2>2. numMsgs \in 0..(MaxMsgs - 1) /\ numMsgs' = numMsgs + 1
    BY <1>1, <1>5 DEF Work
  <2>3. /\ buff' = [buff EXCEPT ![Wrap(removeIndex + numMsgs)] = m]
        /\ removeIndex' = removeIndex
        /\ insertIndex' = Wrap(insertIndex + 1)
    <3>1. insertIndex \in Nat /\ insertIndex < MaxMsgs
      BY <1>1 DEF QueueInv, QueueData, Slots
    <3>2. insertIndex' = Wrap(insertIndex + 1)
      BY <1>1, <1>2, <2>1, <3>1 DEF queue_insert, Wrap
    <3> QED
      BY <2>1, <3>2 DEF queue_insert, IndexInv
  <2>4. Stored' = Append(Stored, m)
    BY <1>2, <1>3, <2>2, <2>3, StoredAppend
  <2>5. Len(Stored) = numMsgs
    BY <1>1, <1>2, <1>3, StoredInFacts
  <2>6. Abstract!Send(m)
    BY <1>1, <2>2, <2>4, <2>5 DEF Abstract!Send
  <2>7. IndexInv'
    BY <1>1, <1>2, <2>2, <2>3 DEF IndexInv, Wrap
  <2> QED
    BY <2>6, <2>7
<1> QED
  BY <1>4, <1>5

LEMMA StoredStep ==
    ASSUME QueueInv, WorkInv, IndexInv, StepKind
    PROVE  IndexInv' /\ [Abstract!Next]_Stored
<1>1. CASE UNCHANGED ring
  BY <1>1 DEF ring, IndexInv, Stored
<1>2. CASE atomQueueCreate
  <2>1. insertIndex' = 0 /\ removeIndex' = 0 /\ numMsgs' = 0
    BY <1>2 DEF atomQueueCreate
  <2>2. Stored' = <<>>
    BY <2>1 DEF Stored
  <2>3. IndexInv'
    BY <2>1, MaxMsgsAssumption DEF IndexInv, Wrap
  <2> QED
    BY <2>2, <2>3 DEF Abstract!Next, Abstract!Create
<1>3. ASSUME NEW c \in Contexts, NEW side \in Sides, Works(c, side)
      PROVE  IndexInv' /\ [Abstract!Next]_Stored
  BY <1>3, WorksStored DEF Abstract!Next
<1> QED
  BY <1>1, <1>2, <1>3 DEF StepKind, Quiet, TakenOff, Joins, Leaves

(* The buffer, its indexes and the count implement a bounded queue in      *)
(* which no message is lost, repeated or overtaken, whoever gets and puts, *)
(* at once or after waiting.                                               *)
THEOREM QueueImplementsMessageQueue ==
    CallbacksWake = FALSE /\ UsesUncontended => (QueueSpec => ImplementsMessageQueue)
<1> SUFFICES ASSUME CallbacksWake = FALSE, UsesUncontended
             PROVE  QueueSpec => ImplementsMessageQueue
  OBVIOUS
<1>1. QueueInit => IndexInv /\ Abstract!Init
  BY MaxMsgsAssumption DEF QueueInit, QueueLibInit, IndexInv, Wrap, Abstract!Init, Stored
<1>2. QueueInv /\ WorkInv /\ IndexInv /\ [QueueNext]_allVars
      => IndexInv' /\ [Abstract!Next]_Stored
  BY QueueStep, StoredStep
<1>3. QueueSpec => [](QueueInv /\ WorkInv)
  BY WorkInvariant
<1> QED
  BY <1>1, <1>2, <1>3, PTL DEF QueueSpec, ImplementsMessageQueue, Abstract!Spec

=============================================================================
