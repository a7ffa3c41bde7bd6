--------------------------- MODULE AtomSemProofs ----------------------------
(***************************************************************************)
(* Theorems about AtomSem, for any number of threads, semaphores, timers   *)
(* of the application and ticks.  Their hypothesis is that the callbacks   *)
(* of timers wake nobody: a callback that runs between the end of the walk *)
(* and a timeout that is due meets a thread whose timeout can no longer be *)
(* cancelled.                                                              *)
(***************************************************************************)
EXTENDS AtomSemRefinement, AtomSuspendProofs

(* The data of the module: what the scheduler and the timers do not see.   *)
SemData ==
    /\ cbFunc \in [AppThreads -> {"delay"} \cup Sems]
    /\ pc \in [Threads -> SemLabels]
    /\ count \in [Sems -> 0..MaxCount]
    /\ deleting \in [Contexts -> Sems \cup {Null}]
    /\ wokenThreads \in [Contexts -> BOOLEAN]

(* The timeout of a waiting thread is that of the semaphore it waits on.   *)
TimeoutOfWait == \A s \in Sems : \A t \in SemWaiters(s) : timoCb[t] => cbFunc[t] = s

(* A thread is inside atomSemDelete exactly if its label says so; main()   *)
(* and interrupt handlers finish theirs before anything else runs, and the *)
(* tick handler deletes nothing.                                           *)
DeleteInv ==
    /\ \A t \in Threads : deleting[t] # Null <=> pc[t] = "semdel"
    /\ deleting[Null] # Null => atomCurrentContext = Null /\ intr # "tick"

(* A delete that has not woken anybody is not followed by a reschedule, so *)
(* that the deleting thread must be the highest as well.                   *)
InOwnCode ==
    /\ started /\ intr = "none" /\ curr \in RunningThreads
    /\ \/ pc[curr] \in {"app", "delayed", "got"}
       \/ pc[curr] = "semdel" /\ ~ wokenThreads[curr]
HighestInv == InOwnCode => CurrIsHighest

SemInv ==
    /\ SuspendInv(AllWaiters)
    /\ SemData
    /\ SuspQueues(suspQ, Sems)
    /\ TimeoutOfWait
    /\ DeleteInv
    /\ HighestInv

-----------------------------------------------------------------------------

(* The waiting threads may be named by what they are after a step.         *)
LEMMA SemWaitingAfter ==
    ASSUME NEW U, SuspendInv(U)', AllWaiters' = U
    PROVE  SuspendInv(AllWaiters)'
  BY DEF SuspendInv, KernelInv, SchedInv, Placement, StackTimerInv, Parked

LEMMA SemWaitersAre == AllWaiters = WaitersIn(suspQ, Sems)
  BY DEF AllWaiters, WaitersIn, SemWaiters

LEMMA SemInitInv == SemInit => SemInv
<1> SUFFICES ASSUME SemInit PROVE SemInv
  OBVIOUS
<1>1. SuspendInv({})
  BY TimerInitSuspend DEF SemInit
<1>2. \A s \in Sems : suspQ[s] = <<>> /\ Range(suspQ[s]) = {}
  BY DEF SemInit, SemLibInit, Range
<1>3. AllWaiters = {}
  BY <1>2 DEF AllWaiters, SemWaiters
<1>4. SuspendInv(AllWaiters)
  BY <1>1, <1>3 DEF SuspendInv, KernelInv, SchedInv, Placement, StackTimerInv, Parked
<1>5. IsTcbQueue(<<>>)
  BY DEF IsTcbQueue, NoDuplicates, PriorityOrdered
<1>6. SuspQueues(suspQ, Sems)
  BY <1>2, <1>5 DEF SemInit, SemLibInit, SuspQueues
<1>7. SemData
  BY CountsAssumption
     DEF SemInit, SemLibInit, TimerInit, TimerLibInit, KernelInit, SemData, SemLabels,
         SuspendLabels, TimerLabels, KernelLabels
<1>8. TimeoutOfWait
  BY <1>2 DEF TimeoutOfWait, SemWaiters
<1>9. DeleteInv
  BY ThreadsAssumption DEF SemInit, SemLibInit, TimerInit, KernelInit, DeleteInv, Contexts
<1>10. HighestInv
  BY DEF SemInit, TimerInit, KernelInit, HighestInv, InOwnCode
<1> QED
  BY <1>4, <1>6, <1>7, <1>8, <1>9, <1>10 DEF SemInv

(* A step that leaves the scheduler, the timers and the queues alone.      *)
LEMMA CountOnly ==
    ASSUME SemInv, UNCHANGED <<kernelVars, timerVars, suspQ, deleting, wokenThreads>>,
           count' \in [Sems -> 0..MaxCount]
    PROVE  SemInv'
<1>1. PICK W : W = AllWaiters
  OBVIOUS
<1>2. AllWaiters' = W
  BY <1>1 DEF AllWaiters, SemWaiters
<1>3. SuspendInv(W)'
  BY <1>1, SuspendStutter DEF SemInv
<1>4. SuspendInv(AllWaiters)'
  BY <1>2, <1>3, SemWaitingAfter
<1>5. UNCHANGED <<readyQ, curr, started, intr, suspended, timoCb, pc, cbFunc>>
  BY DEF kernelVars, timerVars
<1>6. SemData' /\ SuspQueues(suspQ, Sems)'
  BY <1>5 DEF SemInv, SemData, SuspQueues
<1>7. TimeoutOfWait' /\ DeleteInv' /\ HighestInv'
  BY <1>5 DEF SemInv, TimeoutOfWait, SemWaiters, DeleteInv, HighestInv, InOwnCode, CurrIsHighest,
              atomCurrentContext, RunningThreads, ReadyThreads
<1> QED
  BY <1>4, <1>6, <1>7 DEF SemInv

(* A context that may call the module: a thread in its own code, or main() *)
(* or a handler that is not inside a delete.                               *)
LEMMA CallerFacts ==
    ASSUME SemInv, NEW c \in Contexts, MayCallSem(c)
    PROVE  /\ c = atomCurrentContext /\ deleting[c] = Null
           /\ c \in Threads => /\ started /\ intr = "none" /\ c = curr /\ pc[c] = "app"
                               /\ c \in AppThreads
           /\ c = Null => ~ started \/ intr # "none"
<1>1. c = atomCurrentContext /\ deleting[c] = Null
  BY DEF MayCallSem, MayCallTimer, MayCall, InAppCallback, atomCurrentContext
<1>2. c \in Threads => c # Null
  BY ThreadsAssumption
<1>3. c \in Threads => intr = "none" /\ c = curr /\ pc[c] = "app" /\ c \in AppThreads
  BY <1>1, <1>2 DEF MayCallSem, MayCallTimer, MayCall, atomCurrentContext, AppThreads
<1>4. c \in Threads => started
  BY <1>3, ThreadsAssumption DEF SemInv, SuspendInv, KernelInv, ContextInv
<1>5. c = Null => ~ started \/ intr # "none"
  BY <1>1, ThreadsAssumption DEF atomCurrentContext, SemInv, SuspendInv, KernelInv, SchedInv
<1> QED
  BY <1>1, <1>3, <1>4, <1>5

(* Who may wake: with callbacks that wake nobody, not the tick handler.    *)
LEMMA WakerFacts ==
    ASSUME CallbacksWake = FALSE, SemInv, NEW c \in Contexts, MayWake(c)
    PROVE  MayCallSem(c) /\ intr # "tick"
<1>1. MayCallSem(c) /\ ~ InAppCallback
  BY DEF MayWake
<1> QED
  BY <1>1, ThreadsAssumption DEF MayCallSem, MayCallTimer, MayCall, atomCurrentContext

-----------------------------------------------------------------------------

(* One lemma per action.                                                   *)
LEMMA GetBlockInv ==
    ASSUME SemInv, NEW t \in AppThreads, NEW s \in Sems, NEW timeout \in Nat,
           MayCall(t), SemGetBlock(t, s, timeout)
    PROVE  SemInv'
<1>1. PICK W : W = AllWaiters
  OBVIOUS
<1>2. PICK U : U = W \cup {t}
  OBVIOUS
<1>3. /\ Suspend(t, s, timeout) /\ UNCHANGED <<count, deleting, wokenThreads>>
      /\ suspQ' = [suspQ EXCEPT ![s] = tcbEnqueuePriority(suspQ[s], t)]
      /\ s # "delay"
  BY SemsAssumption DEF SemGetBlock
<1>4. /\ SuspendInv(U)' /\ t \notin Parked(W) /\ t = curr
      /\ cbFunc' \in {cbFunc, [cbFunc EXCEPT ![t] = s]}
      /\ timoCb'[t] => cbFunc'[t] = s
  BY <1>1, <1>2, <1>3, SuspendPreserves DEF SemInv
<1>5. t \in Threads /\ pc[t] = "app" /\ intr = "none" /\ atomCurrentContext = t
  BY <1>4, ThreadsAssumption DEF AppThreads, MayCall, atomCurrentContext
<1>6. UpdatedAt(suspQ, Sems, s, tcbEnqueuePriority(suspQ[s], t), suspQ')
  BY <1>3 DEF SemInv, SuspQueues, UpdatedAt, IsFunction
<1>7. /\ SuspQueues(suspQ', Sems)
      /\ \A r \in Sems : r # s => suspQ'[r] = suspQ[r]
      /\ Range(suspQ'[s]) = Range(suspQ[s]) \cup {t}
      /\ WaitersIn(suspQ', Sems) = U
  BY <1>1, <1>2, <1>4, <1>6, JoinQueue, SemWaitersAre DEF SemInv, Parked
<1>8. AllWaiters' = U
  BY <1>7 DEF AllWaiters, SemWaiters, WaitersIn
<1>9. SuspendInv(AllWaiters)'
  BY <1>4, <1>8, SemWaitingAfter
<1>10. /\ UNCHANGED <<readyQ, curr, started, intr>>
       /\ pc' = [pc EXCEPT ![t] = "get"]
       /\ suspended' = [suspended EXCEPT ![t] = TRUE]
       /\ \A u \in Threads : u # t => timoCb'[u] = timoCb[u]
       /\ \A u \in AppThreads : u # t => cbFunc'[u] = cbFunc[u]
  BY <1>3 DEF Suspend, SemInv, SuspendInv, KernelInv, KernelTypeOK, SemData
<1>11. SemData'
  BY <1>3, <1>4, <1>10 DEF SemInv, SemData, SemLabels, SuspendLabels
<1>12. TimeoutOfWait'
  <2> SUFFICES ASSUME NEW r \in Sems, NEW u \in Range(suspQ'[r]), timoCb'[u]
               PROVE  cbFunc'[u] = r
    BY DEF TimeoutOfWait, SemWaiters
  <2>1. CASE u = t
    <3>1. r = s
      <4>1. W = WaitersIn(suspQ, Sems)
        BY <1>1, SemWaitersAre
      <4>2. r # s => u \in W
        BY <1>7, <4>1 DEF WaitersIn
      <4> QED
        BY <1>4, <2>1, <4>2 DEF Parked
    <3> QED
      BY <1>4, <2>1, <3>1
  <2>2. CASE u # t
    <3>1. u \in Range(suspQ[r])
      BY <1>7, <2>2
    <3>2. u \in AppThreads /\ u \in Threads
      BY <3>1, InRange DEF SemInv, SuspQueues, AppThreads
    <3> QED
      BY <1>10, <2>2, <3>1, <3>2 DEF SemInv, TimeoutOfWait, SemWaiters
  <2> QED
    BY <2>1, <2>2
<1>13. DeleteInv'
  BY <1>3, <1>5, <1>10 DEF SemInv, SemData, DeleteInv, atomCurrentContext
<1>14. HighestInv'
  BY <1>4, <1>5, <1>10 DEF HighestInv, InOwnCode, RunningThreads, SemInv, SuspendInv, KernelInv,
                           KernelTypeOK
<1> QED
  BY <1>7, <1>9, <1>11, <1>12, <1>13, <1>14 DEF SemInv

(* The steps of the scheduler and the timers, atomSched on the way out of  *)
(* a get included, change no queue and leave the waiting threads alone.    *)
LEMMA OtherStepInv == ASSUME SemInv, OtherStep PROVE SemInv'
<1>1. PICK W : W = AllWaiters
  OBVIOUS
<1>2. TimerNext /\ UNCHANGED semVars /\ UNCHANGED <<count, suspQ, deleting, wokenThreads>>
  BY DEF OtherStep, semVars
<1>3. AllWaiters' = W
  BY <1>1, <1>2 DEF AllWaiters, SemWaiters
<1>4. SuspendInv(W)
  BY <1>1 DEF SemInv
<1>5. SuspendInv(W)'
  BY <1>2, <1>4, TimerNextSuspend
<1>6. SuspendInv(AllWaiters)'
  BY <1>3, <1>5, SemWaitingAfter
<1>7. /\ \A t \in W : timoCb'[t] = timoCb[t] /\ cbFunc'[t] = cbFunc[t]
      /\ LabelsMove
      /\ \A t \in AppThreads : cbFunc'[t] \in {cbFunc[t], "delay"}
  BY <1>2, <1>4, TimerNextFrame
<1>8. IsFunction(pc', Threads) /\ IsFunction(cbFunc', AppThreads)
  <2>1. IsFunction(pc, Threads) /\ IsFunction(cbFunc, AppThreads)
    BY DEF SemInv, SemData, IsFunction
  <2> QED
    BY <1>2, <1>4, <2>1, TimerNextFunctions
<1>9. SemData'
  <2>1. \A t \in Threads : pc'[t] \in SemLabels
    BY <1>7 DEF LabelsMove, SemInv, SemData, SemLabels, SuspendLabels
  <2>2. \A t \in AppThreads : cbFunc'[t] \in {"delay"} \cup Sems
    BY <1>7 DEF SemInv, SemData
  <2>3. pc' \in [Threads -> SemLabels] /\ cbFunc' \in [AppThreads -> {"delay"} \cup Sems]
    BY <1>8, <2>1, <2>2, FunctionSet
  <2> QED
    BY <1>2, <2>3 DEF SemInv, SemData
<1>10. SuspQueues(suspQ, Sems)'
  BY <1>2 DEF SemInv, SuspQueues
<1>11. TimeoutOfWait'
  BY <1>1, <1>2, <1>7 DEF SemInv, TimeoutOfWait, AllWaiters, SemWaiters
<1>12. DeleteInv'
  <2>1. \A t \in Threads : pc'[t] = "semdel" <=> pc[t] = "semdel"
    BY <1>7 DEF LabelsMove, TimerLabels, KernelLabels
  <2>2. deleting[Null] = Null
    BY <1>1 DEF OtherStep, SemInv, DeleteInv
  <2> QED
    BY <1>2, <2>1, <2>2 DEF SemInv, DeleteInv
<1>13. HighestInv'
  <2>1. ~ (NotInThread' /\ InOwnCode')
    BY DEF NotInThread, InOwnCode
  <2>2. ASSUME UNCHANGED <<readyQ, curr, started, intr, suspended>>,
               pc'[curr] = pc[curr] \/ (pc[curr] = "delayed" /\ pc'[curr] = "app")
        PROVE  HighestInv'
    BY <1>2, <2>2 DEF SemInv, HighestInv, InOwnCode, CurrIsHighest, RunningThreads, ReadyThreads
  <2> QED
    BY <1>2, <1>4, <2>1, <2>2, TimerNextHighest DEF HighestInv
<1> QED
  BY <1>6, <1>9, <1>10, <1>11, <1>12, <1>13 DEF SemInv

LEMMA GetSchedInv == ASSUME SemInv, NEW t \in AppThreads, SemGetSched(t) PROVE SemInv'
<1>1. PICK W : W = AllWaiters
  OBVIOUS
<1>2. /\ SuspendInv(W) /\ SuspendSched(t) /\ UNCHANGED <<count, suspQ, deleting, wokenThreads>>
      /\ CallSched(t, "get", "got") /\ UNCHANGED timerVars
  BY <1>1 DEF SemGetSched, SuspendSched, semVars, SemInv
<1>3. SuspendInv(W)' /\ CurrIsHighest'
  BY <1>2, SuspendSchedPreserves, CallSchedHighest
<1>4. AllWaiters' = W
  BY <1>1, <1>2 DEF AllWaiters, SemWaiters
<1>5. SuspendInv(AllWaiters)'
  BY <1>3, <1>4, SemWaitingAfter
<1>6. /\ atomCurrentContext = t /\ t \in Threads /\ t # Null
      /\ pc[t] = "get" /\ pc' = [pc EXCEPT ![t] = "got"]
      /\ UNCHANGED <<intr, timoCb, cbFunc>>
  BY <1>2, ThreadsAssumption DEF CallSched, AppThreads, timerVars
<1>7. SemData' /\ SuspQueues(suspQ, Sems)' /\ TimeoutOfWait'
  BY <1>2, <1>6
     DEF SemInv, SemData, SemLabels, SuspendLabels, SuspQueues, TimeoutOfWait, SemWaiters
<1>8. DeleteInv'
  BY <1>2, <1>6 DEF SemInv, SemData, DeleteInv
<1> QED
  BY <1>3, <1>5, <1>7, <1>8 DEF SemInv, HighestInv

LEMMA GetReturnInv == ASSUME SemInv, NEW t \in AppThreads, SemGetReturn(t) PROVE SemInv'
<1>1. PICK W : W = AllWaiters
  OBVIOUS
<1>2. /\ SuspendInv(W) /\ LeaveCall(t) /\ UNCHANGED <<readyQ, wakeStatus, timoCb, timerQ>>
      /\ UNCHANGED <<count, suspQ, deleting, wokenThreads>>
  BY <1>1 DEF SemGetReturn, SuspendReturn, semVars, SemInv
<1>3. SuspendInv(W)'
  BY <1>2, LeaveCallPreserves
<1>4. AllWaiters' = W
  BY <1>1, <1>2 DEF AllWaiters, SemWaiters
<1>5. SuspendInv(AllWaiters)'
  BY <1>3, <1>4, SemWaitingAfter
<1>6. /\ atomCurrentContext = t /\ t \in Threads /\ t # Null
      /\ pc[t] = "got" /\ pc' = [pc EXCEPT ![t] = "app"]
      /\ cbFunc' = [cbFunc EXCEPT ![t] = "delay"]
      /\ UNCHANGED <<curr, started, intr, suspended>>
  BY <1>2, ThreadsAssumption DEF LeaveCall, DropStackTimer, AppThreads
<1>7. t = curr /\ t \notin W
  BY <1>2, <1>6, RunningFacts DEF Parked
<1>8. SemData' /\ SuspQueues(suspQ, Sems)'
  BY <1>2, <1>6
     DEF SemInv, SemData, SemLabels, SuspendLabels, TimerLabels, KernelLabels, SuspQueues
<1>9. TimeoutOfWait'
  BY <1>1, <1>2, <1>6, <1>7 DEF SemInv, SemData, TimeoutOfWait, SemWaiters, AllWaiters
<1>10. DeleteInv'
  BY <1>2, <1>6 DEF SemInv, SemData, DeleteInv, atomCurrentContext
<1>11. HighestInv'
  BY <1>2, <1>6, <1>7 DEF SemInv, HighestInv, InOwnCode, CurrIsHighest, RunningThreads, ReadyThreads
<1> QED
  BY <1>5, <1>8, <1>9, <1>10, <1>11 DEF SemInv

(* What a put and a delete do alike: the head of a queue is woken.         *)
LEMMA WakeHead ==
    ASSUME SemInv, NEW s \in Sems, suspQ[s] # <<>>, intr # "tick",
           NEW status \in WakeStatus,
           suspQ' = [suspQ EXCEPT ![s] = tcbDequeueHead(suspQ[s]).queue],
           WakeUp(tcbDequeueHead(suspQ[s]).tcb, status),
           CancelTimeout(tcbDequeueHead(suspQ[s]).tcb),
           DOMAIN pc' = Threads,
           \A u \in Threads : \/ pc'[u] = pc[u]
                              \/ /\ pc[u] \notin ParkedLabels \cup {"none", "exit"}
                                 /\ pc'[u] # "none",
           UNCHANGED <<curr, started, intr, suspended, terminated,
                       cbTicks, cbFunc, walk, due, systemTicks>>
    PROVE  /\ SuspendInv(AllWaiters)' /\ SuspQueues(suspQ, Sems)' /\ TimeoutOfWait'
           /\ ~ CancelTimeoutFails(tcbDequeueHead(suspQ[s]).tcb)
           /\ tcbDequeueHead(suspQ[s]).tcb \in AllWaiters
           /\ \A t \in AppThreads : t # tcbDequeueHead(suspQ[s]).tcb => wakeStatus'[t] = wakeStatus[t]
           /\ AllWaiters' = AllWaiters \ {tcbDequeueHead(suspQ[s]).tcb}
<1>1. PICK W : W = AllWaiters
  OBVIOUS
<1>2. PICK t : t = tcbDequeueHead(suspQ[s]).tcb
  OBVIOUS
<1>3. PICK U : U = W \ {t}
  OBVIOUS
<1>4. UpdatedAt(suspQ, Sems, s, tcbDequeueHead(suspQ[s]).queue, suspQ')
  BY DEF SemInv, SuspQueues, UpdatedAt, IsFunction
<1>5. /\ t \in W /\ t \in AppThreads
      /\ LeftBy(suspQ, Sems, s, t, suspQ')
  BY <1>1, <1>2, <1>4, LeaveHead, SemWaitersAre DEF SemInv
<1>6. /\ SuspQueues(suspQ', Sems) /\ WaitersIn(suspQ', Sems) = U
      /\ \A r \in Sems : Range(suspQ'[r]) \subseteq Range(suspQ[r])
  BY <1>1, <1>3, <1>5, SemWaitersAre DEF LeftBy
<1>7. AllWaiters' = U
  BY <1>6 DEF AllWaiters, SemWaiters, WaitersIn
<1>8. /\ SuspendInv(U)' /\ ~ CancelTimeoutFails(t)
      /\ timoCb' = [timoCb EXCEPT ![t] = FALSE]
  BY <1>1, <1>2, <1>3, <1>5, WakePreserves DEF SemInv
<1>9. SuspendInv(AllWaiters)'
  BY <1>7, <1>8, SemWaitingAfter
<1>10. TimeoutOfWait'
  <2> SUFFICES ASSUME NEW r \in Sems, NEW u \in Range(suspQ'[r]), timoCb'[u]
               PROVE  cbFunc'[u] = r
    BY DEF TimeoutOfWait, SemWaiters
  <2>1. u \in Range(suspQ[r]) /\ u \in Threads
    BY <1>6, InRange DEF SemInv, SuspQueues, AppThreads
  <2>2. timoCb[u]
    BY <1>8, <2>1 DEF SemInv, SuspendInv, KernelInv, KernelTypeOK
  <2> QED
    BY <2>1, <2>2 DEF SemInv, TimeoutOfWait, SemWaiters
<1>11. \A u \in AppThreads : u # t => wakeStatus'[u] = wakeStatus[u]
  BY <1>2 DEF WakeUp, SemInv, SuspendInv, KernelInv, KernelTypeOK, AppThreads
<1> QED
  BY <1>1, <1>2, <1>3, <1>5, <1>6, <1>7, <1>8, <1>9, <1>10, <1>11

LEMMA PutWakeInv ==
    ASSUME CallbacksWake = FALSE, SemInv, NEW c \in Contexts, NEW s \in Sems,
           MayWake(c), SemPutWake(c, s)
    PROVE  SemInv'
<1>1. /\ c = atomCurrentContext /\ deleting[c] = Null /\ intr # "tick"
      /\ c \in Threads => started /\ intr = "none" /\ c = curr /\ pc[c] = "app"
      /\ c = Null => ~ started \/ intr # "none"
  BY WakerFacts, CallerFacts
<1>2. pc' = [t \in Threads |-> IF t = c THEN "resched" ELSE pc[t]]
  BY DEF SemPutWake, PcResched
<1>3. /\ SuspendInv(AllWaiters)' /\ SuspQueues(suspQ, Sems)' /\ TimeoutOfWait'
  <2>1. \A u \in Threads : \/ pc'[u] = pc[u]
                           \/ /\ pc[u] \notin ParkedLabels \cup {"none", "exit"}
                              /\ pc'[u] # "none"
    BY <1>1, <1>2 DEF ParkedLabels
  <2>2. DOMAIN pc' = Threads /\ "ATOM_OK" \in WakeStatus
    BY <1>2 DEF WakeStatus
  <2> QED
    BY <1>1, <2>1, <2>2, WakeHead DEF SemPutWake
<1>4. UNCHANGED <<curr, started, intr, suspended, cbFunc, count, deleting, wokenThreads>>
  BY DEF SemPutWake
<1>5. SemData'
  BY <1>2, <1>4 DEF SemInv, SemData, SemLabels, SuspendLabels, TimerLabels, KernelLabels
<1>6. DeleteInv'
  BY <1>1, <1>2, <1>4 DEF SemInv, DeleteInv, atomCurrentContext
<1>7. HighestInv'
  BY <1>1, <1>2, <1>4 DEF HighestInv, InOwnCode, RunningThreads, Contexts
<1> QED
  BY <1>3, <1>5, <1>6, <1>7 DEF SemInv

LEMMA DeleteStartInv ==
    ASSUME CallbacksWake = FALSE, SemInv, NEW c \in Contexts, NEW s \in Sems,
           MayWake(c), SemDeleteStart(c, s)
    PROVE  SemInv'
<1>1. /\ MayCallSem(c)
      /\ c = atomCurrentContext /\ deleting[c] = Null /\ intr # "tick"
      /\ c \in Threads => started /\ intr = "none" /\ c = curr /\ pc[c] = "app"
      /\ c = Null => ~ started \/ intr # "none"
  BY WakerFacts, CallerFacts
<1>2. PICK W : W = AllWaiters
  OBVIOUS
<1>3. /\ pc' = [t \in Threads |-> IF t = c THEN "semdel" ELSE pc[t]]
      /\ deleting' = [deleting EXCEPT ![c] = s]
      /\ UNCHANGED <<readyQ, curr, started, intr, suspended, terminated,
                     wakeStatus, timoCb, timerVars, count, suspQ, wokenThreads>>
      /\ UNCHANGED cbFunc
  BY DEF SemDeleteStart, timerVars
<1>4. SuspendInv(W)'
  <2>1. \A u \in Threads : \/ pc'[u] = pc[u]
                           \/ /\ pc[u] \notin ParkedLabels \cup {"none", "exit"}
                              /\ pc'[u] # "none"
    BY <1>1, <1>3 DEF ParkedLabels
  <2> QED
    BY <1>2, <1>3, <2>1, LabelsSuspend DEF SemInv
<1>5. AllWaiters' = W
  BY <1>2, <1>3 DEF AllWaiters, SemWaiters
<1>6. SuspendInv(AllWaiters)'
  BY <1>4, <1>5, SemWaitingAfter
<1>7. SemData' /\ SuspQueues(suspQ, Sems)' /\ TimeoutOfWait'
  BY <1>3 DEF SemInv, SemData, SemLabels, SuspQueues, TimeoutOfWait, SemWaiters
<1>8. DeleteInv'
  BY <1>1, <1>3, SemsAssumption, ThreadsAssumption
     DEF SemInv, SemData, DeleteInv, atomCurrentContext, Contexts
<1>9. HighestInv'
  BY <1>1, <1>3
     DEF SemInv, HighestInv, InOwnCode, RunningThreads, ReadyThreads, CurrIsHighest, Contexts
<1> QED
  BY <1>6, <1>7, <1>8, <1>9 DEF SemInv

(* A context inside a delete: a thread at its label, or main() or the      *)
(* handler of an interrupt other than the tick.                            *)
LEMMA DeleterFacts ==
    ASSUME SemInv, NEW c \in Contexts, NEW s \in Sems, InSemDelete(c, s)
    PROVE  /\ c = atomCurrentContext /\ intr # "tick"
           /\ c \in Threads => started /\ intr = "none" /\ c = curr /\ pc[c] = "semdel"
           /\ c = Null => ~ started \/ intr # "none"
<1>1. c = atomCurrentContext /\ deleting[c] # Null
  BY SemsAssumption DEF InSemDelete
<1>2. c \in Threads => c # Null /\ intr = "none" /\ c = curr /\ pc[c] = "semdel"
  BY <1>1, ThreadsAssumption DEF atomCurrentContext, SemInv, DeleteInv
<1>3. c \in Threads => started
  BY <1>2 DEF SemInv, SuspendInv, KernelInv, ContextInv
<1>4. c = Null => (~ started \/ intr # "none") /\ intr # "tick"
  BY <1>1, ThreadsAssumption
     DEF atomCurrentContext, SemInv, DeleteInv, SuspendInv, KernelInv, SchedInv
<1> QED
  BY <1>1, <1>2, <1>3, <1>4 DEF Contexts

LEMMA DeleteWakeInv ==
    ASSUME SemInv, NEW c \in Contexts, NEW s \in Sems, SemDeleteWake(c, s)
    PROVE  SemInv'
<1>1. /\ c = atomCurrentContext /\ intr # "tick"
      /\ c \in Threads => started /\ intr = "none" /\ c = curr /\ pc[c] = "semdel"
      /\ c = Null => ~ started \/ intr # "none"
  BY DeleterFacts DEF SemDeleteWake
<1>2. PICK t : t = tcbDequeueHead(suspQ[s]).tcb
  OBVIOUS
<1>3. ~ CancelTimeoutFails(t)
  <2>1. /\ suspQ[s] # <<>> /\ IsTcbQueue(suspQ[s]) /\ suspQ[s] \in Seq(AppThreads)
    BY DEF SemDeleteWake, SemInv, SuspQueues
  <2>2. t = Head(suspQ[s]) /\ t \in Range(suspQ[s]) /\ t \in AllWaiters
    BY <1>2, <2>1, TailProperties DEF tcbDequeueHead, AllWaiters, SemWaiters
  <2> QED
    BY <1>1, <2>2, CancelSucceeds DEF SemInv
<1>4. /\ pc' = pc /\ deleting' = deleting
      /\ wokenThreads' = [wokenThreads EXCEPT ![c] = TRUE]
      /\ UNCHANGED <<curr, started, intr, suspended, cbFunc, count>>
  BY <1>2, <1>3 DEF SemDeleteWake
<1>5. /\ SuspendInv(AllWaiters)' /\ SuspQueues(suspQ, Sems)' /\ TimeoutOfWait'
  <2>1. DOMAIN pc' = Threads /\ "ATOM_ERR_DELETED" \in WakeStatus
    BY <1>4 DEF WakeStatus, SemInv, SemData
  <2> QED
    BY <1>1, <1>4, <2>1, WakeHead DEF SemDeleteWake
<1>6. SemData' /\ DeleteInv'
  BY <1>4 DEF SemInv, SemData, DeleteInv, atomCurrentContext
<1>7. HighestInv'
  BY <1>1, <1>4 DEF SemInv, SemData, HighestInv, InOwnCode, RunningThreads, Contexts
<1> QED
  BY <1>5, <1>6, <1>7 DEF SemInv

LEMMA DeleteEndInv ==
    ASSUME SemInv, NEW c \in Contexts, NEW s \in Sems, SemDeleteEnd(c, s)
    PROVE  SemInv'
<1>1. /\ c = atomCurrentContext
      /\ c \in Threads => started /\ intr = "none" /\ c = curr /\ pc[c] = "semdel"
      /\ c = Null => ~ started \/ intr # "none"
  BY DeleterFacts DEF SemDeleteEnd
<1>2. PICK W : W = AllWaiters
  OBVIOUS
<1>3. /\ pc' = [t \in Threads |-> IF t # c THEN pc[t]
                                  ELSE IF wokenThreads[c] THEN "resched" ELSE "app"]
      /\ deleting' = [deleting EXCEPT ![c] = Null]
      /\ wokenThreads' = [wokenThreads EXCEPT ![c] = FALSE]
      /\ UNCHANGED <<readyQ, curr, started, intr, suspended, terminated,
                     wakeStatus, timoCb, timerVars, count, suspQ>>
      /\ UNCHANGED cbFunc
  BY DEF SemDeleteEnd, SemDeleteLeave, timerVars
<1>4. SuspendInv(W)'
  <2>1. \A u \in Threads : \/ pc'[u] = pc[u]
                           \/ /\ pc[u] \notin ParkedLabels \cup {"none", "exit"}
                              /\ pc'[u] # "none"
    BY <1>1, <1>3 DEF ParkedLabels
  <2> QED
    BY <1>2, <1>3, <2>1, LabelsSuspend DEF SemInv
<1>5. AllWaiters' = W
  BY <1>2, <1>3 DEF AllWaiters, SemWaiters
<1>6. SuspendInv(AllWaiters)'
  BY <1>4, <1>5, SemWaitingAfter
<1>7. SuspQueues(suspQ, Sems)' /\ TimeoutOfWait'
  BY <1>3 DEF SemInv, SuspQueues, TimeoutOfWait, SemWaiters
<1>8. SemData'
  BY <1>3 DEF SemInv, SemData, SemLabels, SuspendLabels, TimerLabels, KernelLabels
<1>9. DeleteInv'
  BY <1>1, <1>3 DEF SemInv, SemData, DeleteInv, Contexts
<1>10. HighestInv'
  BY <1>1, <1>3
     DEF SemInv, SemData, HighestInv, InOwnCode, RunningThreads, ReadyThreads, CurrIsHighest, Contexts
<1> QED
  BY <1>6, <1>7, <1>8, <1>9, <1>10 DEF SemInv

LEMMA TimeoutInv ==
    ASSUME SemInv, NEW t \in AppThreads, NEW s \in Sems, atomSemTimerCallback(t, s)
    PROVE  SemInv'
<1>1. PICK W : W = AllWaiters
  OBVIOUS
<1>2. PICK U : U = W \ {t}
  OBVIOUS
<1>3. /\ Timeout(t, s) /\ UNCHANGED <<count, deleting, wokenThreads>>
      /\ suspQ' = [suspQ EXCEPT ![s] = tcbDequeueEntry(suspQ[s], t).queue]
      /\ timoCb' = [timoCb EXCEPT ![t] = FALSE]
      /\ UNCHANGED <<curr, started, intr, suspended, pc, cbFunc>>
      /\ cbFunc[t] = s /\ s # "delay"
  BY SemsAssumption DEF atomSemTimerCallback, Timeout, CallbackDue
<1>4. t \in W /\ SuspendInv(U)' /\ intr = "tick"
  BY <1>1, <1>2, <1>3, TimeoutPreserves DEF SemInv
<1>5. t \in Range(suspQ[s])
  <2>1. timoCb[t]
    <3>1. t \in PendingTimers
      BY <1>3, CallbackDueFacts, <1>1 DEF SemInv, Timeout
    <3> QED
      BY <3>1 DEF SemInv, SuspendInv, StackTimerInv
  <2>2. PICK r \in Sems : t \in Range(suspQ[r])
    BY <1>1, <1>4 DEF AllWaiters, SemWaiters
  <2> QED
    BY <1>3, <2>1, <2>2 DEF SemInv, TimeoutOfWait, SemWaiters
<1>6. UpdatedAt(suspQ, Sems, s, tcbDequeueEntry(suspQ[s], t).queue, suspQ')
  BY <1>3 DEF SemInv, SuspQueues, UpdatedAt, IsFunction
<1>7. /\ SuspQueues(suspQ', Sems) /\ WaitersIn(suspQ', Sems) = U
      /\ \A r \in Sems : Range(suspQ'[r]) \subseteq Range(suspQ[r])
  BY <1>1, <1>2, <1>5, <1>6, LeaveEntry, SemWaitersAre DEF SemInv, LeftBy
<1>8. AllWaiters' = U
  BY <1>7 DEF AllWaiters, SemWaiters, WaitersIn
<1>9. SuspendInv(AllWaiters)'
  BY <1>4, <1>8, SemWaitingAfter
<1>10. SemData' /\ DeleteInv'
  BY <1>3 DEF SemInv, SemData, DeleteInv, atomCurrentContext
<1>11. TimeoutOfWait'
  <2> SUFFICES ASSUME NEW r \in Sems, NEW u \in Range(suspQ'[r]), timoCb'[u]
               PROVE  cbFunc'[u] = r
    BY DEF TimeoutOfWait, SemWaiters
  <2>1. u \in Range(suspQ[r]) /\ u \in Threads
    BY <1>7, InRange DEF SemInv, SuspQueues, AppThreads
  <2>2. timoCb[u]
    BY <1>3, <2>1 DEF SemInv, SuspendInv, KernelInv, KernelTypeOK
  <2> QED
    BY <1>3, <2>1, <2>2 DEF SemInv, TimeoutOfWait, SemWaiters
<1>12. HighestInv'
  BY <1>3, <1>4 DEF HighestInv, InOwnCode
<1> QED
  BY <1>7, <1>9, <1>10, <1>11, <1>12 DEF SemInv

-----------------------------------------------------------------------------

(* Every step keeps the invariant.                                         *)
LEMMA SemStepInv ==
    ASSUME CallbacksWake = FALSE, SemInv, [SemNext]_allVars
    PROVE  SemInv'
<1>1. ASSUME NEW c \in Contexts, NEW s \in Sems, MayCallSem(c),
             \/ SemGetDecrement(s)
             \/ \E n \in InitCounts : atomSemCreate(s, n)
             \/ \E n \in ResetCounts : atomSemResetCount(s, n)
             \/ SemPutIncrement(s)
      PROVE  SemInv'
  <2>1. /\ UNCHANGED <<kernelVars, timerVars, deleting, wokenThreads>>
        /\ suspQ' = suspQ
    <3>1. CASE SemGetDecrement(s) \/ SemPutIncrement(s)
      BY <3>1 DEF SemGetDecrement, SemPutIncrement
    <3>2. ASSUME NEW n, atomSemCreate(s, n)
          PROVE  UNCHANGED <<kernelVars, timerVars, deleting, wokenThreads, suspQ>>
      BY <3>2 DEF atomSemCreate, SemInv, SuspQueues
    <3>3. ASSUME NEW n, atomSemResetCount(s, n)
          PROVE  UNCHANGED <<kernelVars, timerVars, deleting, wokenThreads, suspQ>>
      BY <3>3 DEF atomSemResetCount
    <3> QED
      BY <1>1, <3>1, <3>2, <3>3
  <2>2. count' \in [Sems -> 0..MaxCount]
    BY <1>1, CountsAssumption, MaxCountAssumption
       DEF SemGetDecrement, atomSemCreate, atomSemResetCount, SemPutIncrement, SemInv, SemData
  <2> QED
    BY <2>1, <2>2, CountOnly
<1>2. ASSUME NEW c \in Contexts, NEW s \in Sems, MayWake(c),
             SemPutWake(c, s) \/ SemPutIncrement(s) \/ SemDeleteStart(c, s)
      PROVE  SemInv'
  BY <1>1, <1>2, WakerFacts, PutWakeInv, DeleteStartInv
<1>3. CASE SemCall
  BY <1>1, <1>2, <1>3 DEF SemCall
<1>4. CASE SemGetWait
  <2>1. ASSUME NEW t \in AppThreads, MayCall(t),
               \E s \in Sems, timeout \in Ticks \cup {0} : SemGetBlock(t, s, timeout)
        PROVE  SemInv'
    BY <2>1, GetBlockInv, TicksAssumption
  <2> QED
    BY <1>4, <2>1, GetSchedInv, GetReturnInv DEF SemGetWait
<1>5. CASE \E c \in Contexts : SemDeleteStep(c)
  BY <1>5, DeleteWakeInv, DeleteEndInv DEF SemDeleteStep
<1>6. CASE SemTimeout
  BY <1>6, TimeoutInv DEF SemTimeout
<1>7. CASE OtherStep
  BY <1>7, OtherStepInv
<1>8. CASE UNCHANGED allVars
  <2>1. UNCHANGED <<kernelVars, timerVars, suspQ, deleting, wokenThreads, count>>
    BY <1>8 DEF allVars, semVars
  <2> QED
    BY <2>1, CountOnly DEF SemInv, SemData
<1> QED
  BY <1>3, <1>4, <1>5, <1>6, <1>7, <1>8 DEF SemNext

(* The invariant holds in every reachable state.                           *)
THEOREM SemInvariant == CallbacksWake = FALSE => (SemSpec => []SemInv)
<1> SUFFICES ASSUME CallbacksWake = FALSE PROVE SemSpec => []SemInv
  OBVIOUS
<1>1. SemInv /\ [SemNext]_allVars => SemInv'
  BY SemStepInv
<1> QED
  BY <1>1, SemInitInv, PTL DEF SemSpec

(* Every live thread is running, ready, in a delay or on one suspend queue,*)
(* and in one of these only, and the queues are in priority order, through *)
(* puts, deletions, timeouts, interrupts and preemptions in any order.     *)
THEOREM SemPlacementHolds == CallbacksWake = FALSE => (SemSpec => []SemPlacement)
<1>1. SemInv => SemPlacement
  <2> SUFFICES ASSUME SemInv PROVE SemPlacement
    OBVIOUS
  <2>1. SemTypeOK
    BY DEF SemInv, SemData, SemTypeOK, SuspendInv, KernelInv, TimerListInv, SuspQueues
  <2>2. DelayedThreads \cap AllWaiters = {}
    BY DEF SemInv, SuspendInv, StackTimerInv, DelayedThreads
  <2>3. Placement(DelayedThreads \cup AllWaiters)
    BY DEF SemInv, SuspendInv, KernelInv, SchedInv, Parked
  <2>4. \A s, r \in Sems : s # r => SemWaiters(s) \cap SemWaiters(r) = {}
    BY DEF SemInv, SuspQueues, SemWaiters
  <2> QED
    BY <2>1, <2>2, <2>3, <2>4 DEF SemPlacement, SemInv, SuspQueues
<1> QED
  BY <1>1, SemInvariant, PTL

(* The timer of a wait is pending while the thread waits on that semaphore *)
(* and not afterwards, when its stack frame is gone.                       *)
THEOREM SemTimeoutsSound == CallbacksWake = FALSE => (SemSpec => []TimeoutsSound)
<1>1. SemInv => TimeoutsSound
  <2> SUFFICES ASSUME SemInv PROVE TimeoutsSound
    OBVIOUS
  <2>1. ASSUME NEW t \in PendingTimers \cap AppThreads
        PROVE  \/ cbFunc[t] = "delay" /\ pc[t] \in {"delay", "delayed"} /\ suspended[t]
               \/ /\ cbFunc[t] \in Sems
                  /\ t \in SemWaiters(cbFunc[t])
                  /\ pc[t] \in {"get", "got"}
                  /\ timoCb[t]
    <3>1. timoCb[t] /\ suspended[t]
      BY <2>1, ParkedFacts DEF SemInv, SuspendInv, StackTimerInv
    <3>2. CASE cbFunc[t] = "delay"
      BY <2>1, <3>1, <3>2 DEF SemInv, SuspendInv, StackTimerInv
    <3>3. CASE cbFunc[t] # "delay"
      <4>1. t \in AllWaiters
        BY <2>1, <3>3 DEF SemInv, SuspendInv, StackTimerInv
      <4>2. PICK s \in Sems : t \in SemWaiters(s)
        BY <4>1 DEF AllWaiters
      <4> QED
        BY <3>1, <4>1, <4>2 DEF SemInv, TimeoutOfWait, SuspendInv, StackTimerInv
    <3> QED
      BY <3>2, <3>3
  <2>2. ASSUME NEW s \in Sems, NEW t \in SemWaiters(s), timoCb[t]
        PROVE  t \in PendingTimers /\ cbFunc[t] = s
    <3>1. t \in AllWaiters
      BY <2>2 DEF AllWaiters
    <3> QED
      BY <2>2, <3>1 DEF SemInv, TimeoutOfWait, SuspendInv, StackTimerInv
  <2> QED
    BY <2>1, <2>2 DEF TimeoutsSound, StackTimersSound, TimeoutsArmed
<1> QED
  BY <1>1, SemInvariant, PTL

(* Whenever a thread runs its own code no ready thread has a higher        *)
(* priority: no put, delete or timeout leaves a wake-up without a          *)
(* reschedule.                                                             *)
THEOREM SemHighestPriority == CallbacksWake = FALSE => (SemSpec => []HighestPriorityWithSems)
<1>1. SemInv => HighestPriorityWithSems
  BY DEF SemInv, HighestInv, InOwnCode, CurrIsHighest, HighestPriorityWithSems, HighestPriority
<1> QED
  BY <1>1, SemInvariant, PTL

(* A step does not touch the outcome of a wait that has ended.             *)
LEMMA OutcomeStep ==
    ASSUME CallbacksWake = FALSE, SemInv, [SemNext]_allVars,
           NEW t \in AppThreads, pc[t] \in {"get", "got"}, t \notin AllWaiters
    PROVE  wakeStatus'[t] = wakeStatus[t] /\ t \notin AllWaiters'
<1>1. ASSUME UNCHANGED <<wakeStatus, suspQ>>
      PROVE  wakeStatus'[t] = wakeStatus[t] /\ t \notin AllWaiters'
  BY <1>1 DEF AllWaiters, SemWaiters
<1>2. ASSUME NEW c \in Contexts, NEW s \in Sems, NEW status \in WakeStatus, intr # "tick",
             suspQ[s] # <<>>,
             suspQ' = [suspQ EXCEPT ![s] = tcbDequeueHead(suspQ[s]).queue],
             WakeUp(tcbDequeueHead(suspQ[s]).tcb, status)
      PROVE  wakeStatus'[t] = wakeStatus[t] /\ t \notin AllWaiters'
  <2>1. UpdatedAt(suspQ, Sems, s, tcbDequeueHead(suspQ[s]).queue, suspQ')
    BY <1>2 DEF SemInv, SuspQueues, UpdatedAt, IsFunction
  <2>2. /\ SuspQueues(suspQ, Sems) /\ suspQ[s] # <<>>
    BY <1>2 DEF SemInv
  <2>3. /\ tcbDequeueHead(suspQ[s]).tcb \in WaitersIn(suspQ, Sems)
        /\ LeftBy(suspQ, Sems, s, tcbDequeueHead(suspQ[s]).tcb, suspQ')
    BY <2>1, <2>2, LeaveHead
  <2>4. /\ tcbDequeueHead(suspQ[s]).tcb \in AllWaiters
        /\ \A r \in Sems : Range(suspQ'[r]) \subseteq Range(suspQ[r])
    BY <2>3, SemWaitersAre DEF LeftBy
  <2>5. t \notin AllWaiters'
    BY <2>4 DEF AllWaiters, SemWaiters
  <2>6. wakeStatus \in [Threads -> WakeStatus] /\ t \in Threads
    BY DEF SemInv, SuspendInv, KernelInv, KernelTypeOK, AppThreads
  <2>7. t # tcbDequeueHead(suspQ[s]).tcb
    BY <2>4
  <2> QED
    BY <1>2, <2>5, <2>6, <2>7 DEF WakeUp
<1>3. CASE SemCall
  <2>1. ASSUME NEW s \in Sems,
               \/ SemGetDecrement(s)
               \/ \E n \in InitCounts : atomSemCreate(s, n)
               \/ \E n \in ResetCounts : atomSemResetCount(s, n)
               \/ SemPutIncrement(s)
        PROVE  UNCHANGED <<wakeStatus, suspQ>>
    BY <2>1 DEF SemGetDecrement, atomSemCreate, atomSemResetCount, SemPutIncrement, SemInv,
                SuspQueues, kernelVars
  <2>2. ASSUME NEW c \in Contexts, NEW s \in Sems, SemDeleteStart(c, s)
        PROVE  UNCHANGED <<wakeStatus, suspQ>>
    BY <2>2 DEF SemDeleteStart
  <2>3. ASSUME NEW c \in Contexts, NEW s \in Sems, MayWake(c), SemPutWake(c, s)
        PROVE  wakeStatus'[t] = wakeStatus[t] /\ t \notin AllWaiters'
    BY <1>2, <2>3, WakerFacts DEF SemPutWake, WakeStatus
  <2> QED
    BY <1>1, <1>3, <2>1, <2>2, <2>3 DEF SemCall
<1>4. CASE SemGetWait
  <2>1. ASSUME NEW u \in AppThreads, NEW s \in Sems, NEW timeout \in Nat,
               MayCall(u), SemGetBlock(u, s, timeout)
        PROVE  wakeStatus'[t] = wakeStatus[t] /\ t \notin AllWaiters'
    <3>1. u # t /\ UNCHANGED wakeStatus
      BY <2>1, ThreadsAssumption DEF SemGetBlock, Suspend, MayCall, AppThreads
    <3>2. Suspend(u, s, timeout) /\ s # "delay"
      BY <2>1, SemsAssumption DEF SemGetBlock
    <3>3. u \notin AllWaiters
      BY <2>1, <3>2, SuspendPreserves DEF SemInv, Parked
    <3>4. UpdatedAt(suspQ, Sems, s, tcbEnqueuePriority(suspQ[s], u), suspQ')
      BY <2>1 DEF SemGetBlock, SemInv, SuspQueues, UpdatedAt, IsFunction
    <3>5. WaitersIn(suspQ', Sems) = WaitersIn(suspQ, Sems) \cup {u}
      BY <3>3, <3>4, JoinQueue, SemWaitersAre DEF SemInv
    <3>6. AllWaiters' = WaitersIn(suspQ', Sems)
      BY DEF AllWaiters, SemWaiters, WaitersIn
    <3> QED
      BY <3>1, <3>5, <3>6, SemWaitersAre
  <2>2. ASSUME NEW u \in AppThreads, SemGetSched(u) \/ SemGetReturn(u)
        PROVE  UNCHANGED <<wakeStatus, suspQ>>
    BY <2>2 DEF SemGetSched, SuspendSched, CallSched, SemGetReturn, SuspendReturn, semVars
  <2> QED
    BY <1>1, <1>4, <2>1, <2>2, TicksAssumption DEF SemGetWait
<1>5. ASSUME NEW c \in Contexts, SemDeleteStep(c)
      PROVE  wakeStatus'[t] = wakeStatus[t] /\ t \notin AllWaiters'
  <2>1. ASSUME NEW s \in Sems, SemDeleteWake(c, s)
        PROVE  wakeStatus'[t] = wakeStatus[t] /\ t \notin AllWaiters'
    BY <1>2, <2>1, DeleterFacts DEF SemDeleteWake, WakeStatus
  <2>2. ASSUME NEW s \in Sems, SemDeleteEnd(c, s)
        PROVE  UNCHANGED <<wakeStatus, suspQ>>
    BY <2>2 DEF SemDeleteEnd
  <2> QED
    BY <1>1, <1>5, <2>1, <2>2 DEF SemDeleteStep
<1>6. ASSUME NEW u \in AppThreads, NEW s \in Sems, atomSemTimerCallback(u, s)
      PROVE  wakeStatus'[t] = wakeStatus[t] /\ t \notin AllWaiters'
  <2>1. /\ Timeout(u, s) /\ s # "delay"
        /\ suspQ' = [suspQ EXCEPT ![s] = tcbDequeueEntry(suspQ[s], u).queue]
    BY <1>6, SemsAssumption DEF atomSemTimerCallback
  <2>2. u \in AllWaiters
    BY <2>1, TimeoutPreserves DEF SemInv
  <2>3. \A r \in Sems : Range(suspQ'[r]) \subseteq Range(suspQ[r])
    <3>1. suspQ[s] \in Seq(AppThreads) /\ DOMAIN suspQ = Sems
      BY DEF SemInv, SuspQueues
    <3>2. Range(RemoveFirst(suspQ[s], u)) \subseteq Range(suspQ[s])
      BY <3>1, RemoveFirstProperties
    <3>3. \A r \in Sems : suspQ'[r] = IF r = s THEN RemoveFirst(suspQ[s], u) ELSE suspQ[r]
      BY <2>1, <3>1 DEF tcbDequeueEntry
    <3> QED
      BY <3>2, <3>3
  <2>4. \A v \in AppThreads : v # u => wakeStatus'[v] = wakeStatus[v]
    BY <2>1 DEF Timeout, WakeUp, SemInv, SuspendInv, KernelInv, KernelTypeOK, AppThreads
  <2> QED
    BY <2>2, <2>3, <2>4 DEF AllWaiters, SemWaiters
<1>7. CASE OtherStep
  <2>1. wakeStatus' = wakeStatus /\ suspQ' = suspQ
    BY <1>7, TimerNextFrame DEF OtherStep, SemInv, semVars
  <2> QED
    BY <1>1, <2>1
<1>8. CASE UNCHANGED allVars
  BY <1>1, <1>8 DEF allVars, kernelVars, semVars
<1> QED
  BY <1>3, <1>4, <1>5, <1>6, <1>7, <1>8 DEF SemNext, SemTimeout

(* A wait ends once: its status stays what the thread was woken with until *)
(* atomSemGet returns it, whatever puts, deletions and timeouts follow.    *)
THEOREM SemOutcomeIsFinal == CallbacksWake = FALSE => (SemSpec => OutcomeIsFinal)
<1> SUFFICES ASSUME CallbacksWake = FALSE PROVE SemSpec => OutcomeIsFinal
  OBVIOUS
<1>1. SemInv /\ [SemNext]_allVars =>
        [ \A t \in AppThreads :
            pc[t] \in {"get", "got"} /\ t \notin AllWaiters =>
                wakeStatus'[t] = wakeStatus[t] /\ t \notin AllWaiters' ]_allVars
  BY OutcomeStep
<1>2. SemSpec => []SemInv
  BY SemInvariant
<1> QED
  BY <1>1, <1>2, PTL DEF SemSpec, OutcomeIsFinal

-----------------------------------------------------------------------------

(* The variables of the abstract semaphores.                               *)
Timed == { t \in AllWaiters : timoCb[t] }
Outcome == [t \in AppThreads |-> OutcomeOf(t)]
abstractVars == <<WaitingView(suspQ, Sems), TiesView(suspQ, Sems), Timed, Outcome>>

(* A step that touches no queue and no label of a get.                     *)
LEMMA WaitsUntouched ==
    ASSUME UNCHANGED <<suspQ, wakeStatus>>,
           \A t \in AllWaiters : timoCb'[t] = timoCb[t],
           \A t \in AppThreads : pc'[t] \in {"get", "got"} <=> pc[t] \in {"get", "got"}
    PROVE  UNCHANGED abstractVars
<1>1. AllWaiters' = AllWaiters
  BY DEF AllWaiters, SemWaiters
<1>2. Timed' = Timed
  BY <1>1 DEF Timed
<1>3. \A t \in AppThreads : OutcomeOf(t)' = OutcomeOf(t)
  BY <1>1 DEF OutcomeOf
<1>4. Outcome' = Outcome
  BY <1>3 DEF Outcome
<1>5. UNCHANGED <<WaitingView(suspQ, Sems), TiesView(suspQ, Sems)>>
  BY DEF WaitingView, TiesView
<1> QED
  BY <1>2, <1>4, <1>5 DEF abstractVars

(* A get that blocks joins the abstract queue.                             *)
LEMMA BlockJoins ==
    ASSUME SemInv, SemInv', NEW t \in AppThreads, NEW s \in Sems, NEW timeout \in Nat,
           MayCall(t), SemGetBlock(t, s, timeout)
    PROVE  Abstract!Wait(t, s)
<1>1. /\ count[s] = 0 /\ count' = count /\ pc[t] = "app" /\ Suspend(t, s, timeout)
      /\ suspQ' = [suspQ EXCEPT ![s] = tcbEnqueuePriority(suspQ[s], t)]
      /\ s # "delay" /\ t \in Threads
  BY SemsAssumption, ThreadsAssumption DEF SemGetBlock, MayCall, AppThreads
<1>2. t \notin AllWaiters
  BY <1>1, SuspendPreserves DEF SemInv, Parked
<1>3. UpdatedAt(suspQ, Sems, s, tcbEnqueuePriority(suspQ[s], t), suspQ')
  BY <1>1 DEF SemInv, SuspQueues, UpdatedAt, IsFunction
<1>4. /\ WaitingView(suspQ', Sems) = [WaitingView(suspQ, Sems) EXCEPT ![s] = @ \cup {t}]
      /\ TiesView(suspQ', Sems) = [TiesView(suspQ, Sems) EXCEPT ![s] =
             @ \cup ({ u \in WaitingView(suspQ, Sems)[s] : Prio[u] = Prio[t] } \X {t})]
  BY <1>2, <1>3, JoinView, SemWaitersAre DEF SemInv
<1>5. AllWaiters' = AllWaiters \cup {t}
  <2>1. WaitersIn(suspQ', Sems) = WaitersIn(suspQ, Sems) \cup {t}
    BY <1>2, <1>3, JoinQueue, SemWaitersAre DEF SemInv
  <2> QED
    BY <2>1, SemWaitersAre DEF AllWaiters, SemWaiters, WaitersIn
<1>6. /\ wakeStatus' = wakeStatus /\ pc' = [pc EXCEPT ![t] = "get"]
      /\ \A u \in Threads : u # t => timoCb'[u] = timoCb[u]
  BY <1>1 DEF Suspend, SemInv, SuspendInv, KernelInv, KernelTypeOK
<1>7. Timed' \in {Timed, Timed \cup {t}}
  BY <1>2, <1>5, <1>6, ParkedFacts DEF Timed, SemInv, Parked
<1>8. Outcome' = Outcome /\ Outcome[t] = "none"
  <2>1. \A u \in AppThreads : OutcomeOf(u)' = OutcomeOf(u)
    BY <1>1, <1>5, <1>6 DEF OutcomeOf, SemInv, SemData, AppThreads
  <2>2. OutcomeOf(t) = "none"
    BY <1>1 DEF OutcomeOf
  <2> QED
    BY <2>1, <2>2 DEF Outcome
<1>9. t \notin Abstract!Waiting
  BY <1>2 DEF Abstract!Waiting, AllWaiters, SemWaiters
<1> QED
  BY <1>1, <1>4, <1>7, <1>8, <1>9
     DEF Abstract!Wait, Abstract!Join, WaitingView, TiesView, Timed, Outcome

(* A thread that leaves a queue with a status has it as its outcome.       *)
LEMMA Departed ==
    ASSUME SemInv, NEW t \in AllWaiters, NEW status,
           AllWaiters' = AllWaiters \ {t},
           wakeStatus' = [wakeStatus EXCEPT ![t] = status],
           timoCb' = [timoCb EXCEPT ![t] = FALSE],
           \A u \in AppThreads : pc'[u] \in {"get", "got"} <=> pc[u] \in {"get", "got"}
    PROVE  Timed' = Timed \ {t} /\ Outcome' = [Outcome EXCEPT ![t] = status]
<1>1. /\ AllWaiters \subseteq AppThreads /\ AppThreads \subseteq Threads
      /\ pc[t] \in {"get", "got"}
  BY ParkedFacts DEF SemInv, SuspendInv, StackTimerInv, Parked, AppThreads
<1>2. /\ \A u \in AppThreads : timoCb'[u] = IF u = t THEN FALSE ELSE timoCb[u]
      /\ \A u \in AppThreads : wakeStatus'[u] = IF u = t THEN status ELSE wakeStatus[u]
  BY <1>1 DEF SemInv, SuspendInv, KernelInv, KernelTypeOK
<1>3. Timed' = Timed \ {t}
  BY <1>1, <1>2 DEF Timed
<1>4. \A u \in AppThreads : OutcomeOf(u)' = IF u = t THEN status ELSE OutcomeOf(u)
  BY <1>1, <1>2 DEF OutcomeOf
<1>5. Outcome' = [Outcome EXCEPT ![t] = status]
  BY <1>4 DEF Outcome
<1> QED
  BY <1>3, <1>5

(* Who is woken by a put or a deletion leaves as the first in line.        *)
LEMMA HeadLeaves ==
    ASSUME SemInv, NEW s \in Sems, suspQ[s] # <<>>, NEW status, NEW t,
           t = tcbDequeueHead(suspQ[s]).tcb,
           suspQ' = [suspQ EXCEPT ![s] = tcbDequeueHead(suspQ[s]).queue],
           wakeStatus' = [wakeStatus EXCEPT ![t] = status],
           timoCb' = [timoCb EXCEPT ![t] = FALSE],
           \A u \in AppThreads : pc'[u] \in {"get", "got"} <=> pc[u] \in {"get", "got"}
    PROVE  t \in AppThreads /\ Abstract!FirstInLine(t, s) /\ Abstract!Leave(t, s, status)
<1>1. UpdatedAt(suspQ, Sems, s, tcbDequeueHead(suspQ[s]).queue, suspQ')
  BY DEF SemInv, SuspQueues, UpdatedAt, IsFunction
<1>2. /\ t \in AppThreads /\ t \in AllWaiters
      /\ LeftBy(suspQ, Sems, s, t, suspQ')
  BY <1>1, LeaveHead, SemWaitersAre DEF SemInv
<1>3. LeavesView(suspQ, Sems, s, t, suspQ') /\ FirstInView(suspQ, Sems, s, t)
  BY <1>1, HeadView DEF SemInv
<1>4. AllWaiters' = AllWaiters \ {t}
  BY <1>2, SemWaitersAre DEF LeftBy, AllWaiters, SemWaiters, WaitersIn
<1>5. Timed' = Timed \ {t} /\ Outcome' = [Outcome EXCEPT ![t] = status]
  BY <1>2, <1>4, Departed
<1> QED
  BY <1>2, <1>3, <1>5
     DEF Abstract!FirstInLine, Abstract!Leave, LeavesView, FirstInView, WaitingView, TiesView,
         Timed, Outcome

(* A timeout expires.                                                      *)
LEMMA TimeoutExpires ==
    ASSUME SemInv, NEW t \in AppThreads, NEW s \in Sems, atomSemTimerCallback(t, s)
    PROVE  Abstract!Expire(t, s)
<1>1. /\ Timeout(t, s) /\ s # "delay" /\ cbFunc[t] = s
      /\ suspQ' = [suspQ EXCEPT ![s] = tcbDequeueEntry(suspQ[s], t).queue]
      /\ timoCb' = [timoCb EXCEPT ![t] = FALSE] /\ pc' = pc
      /\ wakeStatus' = [wakeStatus EXCEPT ![t] = "ATOM_TIMEOUT"]
  BY SemsAssumption DEF atomSemTimerCallback, Timeout, CallbackDue, WakeUp
<1>2. t \in AllWaiters /\ timoCb[t]
  <2>1. t \in AllWaiters
    BY <1>1, TimeoutPreserves DEF SemInv
  <2>2. SuspendInv(AllWaiters)
    BY DEF SemInv
  <2> QED
    BY <1>1, <2>1, <2>2, CallbackDueFacts DEF Timeout
<1>3. t \in Range(suspQ[s])
  BY <1>1, <1>2 DEF SemInv, TimeoutOfWait, AllWaiters, SemWaiters
<1>4. UpdatedAt(suspQ, Sems, s, tcbDequeueEntry(suspQ[s], t).queue, suspQ')
  BY <1>1 DEF SemInv, SuspQueues, UpdatedAt, IsFunction
<1>5. LeavesView(suspQ, Sems, s, t, suspQ') /\ LeftBy(suspQ, Sems, s, t, suspQ')
  BY <1>3, <1>4, EntryView, LeaveEntry DEF SemInv
<1>6. AllWaiters' = AllWaiters \ {t}
  BY <1>5, SemWaitersAre DEF LeftBy, AllWaiters, SemWaiters, WaitersIn
<1>7. Timed' = Timed \ {t} /\ Outcome' = [Outcome EXCEPT ![t] = "ATOM_TIMEOUT"]
  BY <1>1, <1>2, <1>6, Departed
<1> QED
  BY <1>2, <1>3, <1>5, <1>7
     DEF Abstract!Expire, Abstract!Leave, LeavesView, WaitingView, TiesView, Timed, Outcome

(* The return from atomSemGet hands the outcome over.                      *)
LEMMA ReturnReturns ==
    ASSUME SemInv, NEW t \in AppThreads, SemGetReturn(t)
    PROVE  Abstract!Return(t)
<1>1. /\ atomCurrentContext = t /\ t \in Threads /\ pc[t] = "got"
      /\ pc' = [pc EXCEPT ![t] = "app"]
      /\ UNCHANGED <<suspQ, wakeStatus, timoCb>>
  BY DEF SemGetReturn, SuspendReturn, LeaveCall, semVars, AppThreads
<1>2. t \notin AllWaiters
  BY <1>1, RunningFacts DEF SemInv, Parked
<1>3. AllWaiters' = AllWaiters
  BY <1>1 DEF AllWaiters, SemWaiters
<1>4. wakeStatus[t] # "none"
  BY <1>1 DEF SemInv, SuspendInv, KernelInv, KernelTypeOK, WakeStatus
<1>5. /\ OutcomeOf(t) # "none"
      /\ \A u \in AppThreads : OutcomeOf(u)' = IF u = t THEN "none" ELSE OutcomeOf(u)
  BY <1>1, <1>2, <1>3, <1>4 DEF OutcomeOf, SemInv, SemData, AppThreads
<1>6. Outcome[t] # "none" /\ Outcome' = [Outcome EXCEPT ![t] = "none"]
  BY <1>5 DEF Outcome
<1>7. Timed' = Timed /\ UNCHANGED <<WaitingView(suspQ, Sems), TiesView(suspQ, Sems)>>
  BY <1>1, <1>3 DEF Timed, WaitingView, TiesView
<1> QED
  BY <1>6, <1>7 DEF Abstract!Return, WaitingView, TiesView, Timed, Outcome

(* A step that moves the count only.                                       *)
LEMMA CountStep ==
    ASSUME SemInv, NEW s \in Sems,
           \/ SemGetDecrement(s)
           \/ \E n \in InitCounts : atomSemCreate(s, n)
           \/ \E n \in ResetCounts : atomSemResetCount(s, n)
           \/ SemPutIncrement(s)
    PROVE  \/ Abstract!Take(s)
           \/ \E n \in InitCounts : Abstract!Create(s, n)
           \/ \E n \in ResetCounts : Abstract!Reset(s, n)
           \/ Abstract!Put(s)
<1>1. UNCHANGED <<kernelVars, suspQ>>
  BY DEF SemGetDecrement, atomSemCreate, atomSemResetCount, SemPutIncrement, SemInv, SuspQueues
<1>2. UNCHANGED <<suspQ, wakeStatus, timoCb, pc>>
  BY <1>1 DEF kernelVars
<1>3. UNCHANGED abstractVars
  BY <1>2, WaitsUntouched
<1>4. suspQ[s] = <<>> => WaitingView(suspQ, Sems)[s] = {}
  BY DEF WaitingView, Range
<1>5. Abstract!waitVars' = Abstract!waitVars
  BY <1>3 DEF Abstract!waitVars, abstractVars, WaitingView, TiesView, Timed, Outcome
<1>6. suspQ[s] = <<>> => [r \in Sems |-> Range(suspQ[r])][s] = {}
  BY <1>4 DEF WaitingView
<1> QED
  BY <1>5, <1>6
     DEF SemGetDecrement, atomSemCreate, atomSemResetCount, SemPutIncrement,
         Abstract!Take, Abstract!Create, Abstract!Reset, Abstract!Put

(* The head of a queue waits.                                              *)
LEMMA HeadWaits ==
    ASSUME SemInv, NEW s \in Sems, suspQ[s] # <<>>
    PROVE  tcbDequeueHead(suspQ[s]).tcb \in AllWaiters
<1>1. suspQ[s] \in Seq(AppThreads)
  BY DEF SemInv, SuspQueues
<1>2. Head(suspQ[s]) \in Range(suspQ[s])
  BY <1>1, TailProperties
<1> QED
  BY <1>2 DEF tcbDequeueHead, AllWaiters, SemWaiters

(* A put that wakes a thread hands it the token.                           *)
LEMMA PutHands ==
    ASSUME CallbacksWake = FALSE, SemInv, NEW c \in Contexts, NEW s \in Sems,
           MayWake(c), SemPutWake(c, s)
    PROVE  \E t \in AppThreads : Abstract!Hand(t, s)
<1>1. PICK t : t = tcbDequeueHead(suspQ[s]).tcb
  OBVIOUS
<1>2. /\ suspQ[s] # <<>> /\ suspQ' = [suspQ EXCEPT ![s] = tcbDequeueHead(suspQ[s]).queue]
      /\ wakeStatus' = [wakeStatus EXCEPT ![t] = "ATOM_OK"] /\ CancelTimeout(t)
      /\ pc' = [u \in Threads |-> IF u = c THEN "resched" ELSE pc[u]]
      /\ count' = count
  BY <1>1 DEF SemPutWake, WakeUp, PcResched
<1>3. timoCb' = [timoCb EXCEPT ![t] = FALSE]
  <2>1. t \in AllWaiters
    BY <1>1, <1>2, HeadWaits
  <2>2. ~ CancelTimeoutFails(t)
    BY <2>1, WakerFacts, CancelSucceeds DEF SemInv
  <2> QED
    BY <1>2, <2>2 DEF CancelTimeout
<1>4. \A u \in AppThreads : pc'[u] \in {"get", "got"} <=> pc[u] \in {"get", "got"}
  BY <1>2, WakerFacts, CallerFacts DEF AppThreads
<1>5. t \in AppThreads /\ Abstract!FirstInLine(t, s) /\ Abstract!Leave(t, s, "ATOM_OK")
  BY <1>1, <1>2, <1>3, <1>4, HeadLeaves
<1> QED
  BY <1>2, <1>5 DEF Abstract!Hand

(* A deletion wakes one.                                                   *)
LEMMA DeleteDeletes ==
    ASSUME SemInv, NEW c \in Contexts, NEW s \in Sems, SemDeleteWake(c, s)
    PROVE  count' = count /\ \E t \in AppThreads : Abstract!DeleteOne(t, s)
<1>1. PICK t : t = tcbDequeueHead(suspQ[s]).tcb
  OBVIOUS
<1>2. /\ suspQ[s] # <<>> /\ suspQ' = [suspQ EXCEPT ![s] = tcbDequeueHead(suspQ[s]).queue]
      /\ wakeStatus' = [wakeStatus EXCEPT ![t] = "ATOM_ERR_DELETED"] /\ CancelTimeout(t)
      /\ ~ CancelTimeoutFails(t) => pc' = pc
      /\ count' = count
  BY <1>1 DEF SemDeleteWake, WakeUp
<1>3. timoCb' = [timoCb EXCEPT ![t] = FALSE] /\ pc' = pc
  <2>1. t \in AllWaiters
    BY <1>1, <1>2, HeadWaits
  <2>2. ~ CancelTimeoutFails(t)
    BY <2>1, DeleterFacts, CancelSucceeds DEF SemInv, SemDeleteWake
  <2> QED
    BY <1>2, <2>2 DEF CancelTimeout
<1>4. t \in AppThreads /\ Abstract!FirstInLine(t, s) /\ Abstract!Leave(t, s, "ATOM_ERR_DELETED")
  BY <1>1, <1>2, <1>3, HeadLeaves
<1> QED
  BY <1>2, <1>4 DEF Abstract!DeleteOne

(* Every step is one of the abstract semaphores or leaves them alone.      *)
LEMMA AbstractStep ==
    ASSUME CallbacksWake = FALSE, SemInv, SemInv', [SemNext]_allVars
    PROVE  Abstract!Next \/ UNCHANGED <<count, abstractVars>>
<1>1. ASSUME NEW s \in Sems,
             \/ SemGetDecrement(s)
             \/ \E n \in InitCounts : atomSemCreate(s, n)
             \/ \E n \in ResetCounts : atomSemResetCount(s, n)
             \/ SemPutIncrement(s)
      PROVE  Abstract!Next
  BY <1>1, CountStep DEF Abstract!Next
<1>2. CASE SemCall
  <2>1. ASSUME NEW c \in Contexts, NEW s \in Sems, MayWake(c), SemPutWake(c, s)
        PROVE  Abstract!Next
    BY <2>1, PutHands DEF Abstract!Next
  <2>2. ASSUME NEW c \in Contexts, NEW s \in Sems, MayWake(c), SemDeleteStart(c, s)
        PROVE  UNCHANGED <<count, abstractVars>>
    <3>1. /\ UNCHANGED <<suspQ, wakeStatus, timoCb, count>>
          /\ pc' = [t \in Threads |-> IF t = c THEN "semdel" ELSE pc[t]]
      BY <2>2 DEF SemDeleteStart
    <3>2. \A t \in AppThreads : pc'[t] \in {"get", "got"} <=> pc[t] \in {"get", "got"}
      BY <2>2, <3>1, WakerFacts, CallerFacts DEF AppThreads
    <3> QED
      BY <3>1, <3>2, WaitsUntouched
  <2> QED
    BY <1>1, <1>2, <2>1, <2>2 DEF SemCall
<1>3. CASE SemGetWait
  <2>1. ASSUME NEW t \in AppThreads, NEW s \in Sems, NEW timeout \in Ticks \cup {0},
               MayCall(t), SemGetBlock(t, s, timeout)
        PROVE  Abstract!Next
    BY <2>1, BlockJoins, TicksAssumption DEF Abstract!Next
  <2>2. ASSUME NEW t \in AppThreads, SemGetSched(t)
        PROVE  UNCHANGED <<count, abstractVars>>
    <3>1. /\ UNCHANGED <<suspQ, wakeStatus, timoCb, count>>
          /\ pc[t] = "get" /\ pc' = [pc EXCEPT ![t] = "got"] /\ DOMAIN pc = Threads
      BY <2>2 DEF SemGetSched, SuspendSched, CallSched, semVars, SemInv, SemData
    <3>2. \A u \in AppThreads : pc'[u] \in {"get", "got"} <=> pc[u] \in {"get", "got"}
      BY <3>1 DEF AppThreads
    <3> QED
      BY <3>1, <3>2, WaitsUntouched
  <2>3. ASSUME NEW t \in AppThreads, SemGetReturn(t)
        PROVE  Abstract!Next
    <3>1. Abstract!Return(t) /\ count' = count
      BY <2>3, ReturnReturns DEF SemGetReturn, semVars
    <3> QED
      BY <3>1 DEF Abstract!Next, Abstract!WaitNext
  <2> QED
    BY <1>3, <2>1, <2>2, <2>3 DEF SemGetWait
<1>4. CASE \E c \in Contexts : SemDeleteStep(c)
  <2>1. ASSUME NEW c \in Contexts, NEW s \in Sems, SemDeleteWake(c, s)
        PROVE  Abstract!Next
    BY <2>1, DeleteDeletes DEF Abstract!Next, Abstract!WaitNext
  <2>2. ASSUME NEW c \in Contexts, NEW s \in Sems, SemDeleteEnd(c, s)
        PROVE  UNCHANGED <<count, abstractVars>>
    <3>1. /\ UNCHANGED <<suspQ, wakeStatus, timoCb, count>>
          /\ pc' = [t \in Threads |-> IF t # c THEN pc[t]
                                    ELSE IF wokenThreads[c] THEN "resched" ELSE "app"]
      BY <2>2 DEF SemDeleteEnd, SemDeleteLeave
    <3>2. \A t \in AppThreads : pc'[t] \in {"get", "got"} <=> pc[t] \in {"get", "got"}
      BY <2>2, <3>1, DeleterFacts DEF SemDeleteEnd, AppThreads
    <3> QED
      BY <3>1, <3>2, WaitsUntouched
  <2> QED
    BY <1>4, <2>1, <2>2 DEF SemDeleteStep
<1>5. CASE SemTimeout
  <2>1. PICK t \in AppThreads, s \in Sems : atomSemTimerCallback(t, s)
    BY <1>5 DEF SemTimeout
  <2>2. Abstract!Expire(t, s) /\ count' = count
    BY <2>1, TimeoutExpires DEF atomSemTimerCallback
  <2> QED
    BY <2>2 DEF Abstract!Next, Abstract!WaitNext
<1>6. CASE OtherStep
  <2>1. /\ TimerNext /\ UNCHANGED <<count, suspQ>> /\ SuspendInv(AllWaiters)
    BY <1>6 DEF OtherStep, semVars, SemInv
  <2>2. /\ wakeStatus' = wakeStatus /\ LabelsMove
        /\ \A t \in AllWaiters : timoCb'[t] = timoCb[t]
    BY <2>1, TimerNextFrame
  <2>3. \A t \in AppThreads : pc'[t] \in {"get", "got"} <=> pc[t] \in {"get", "got"}
    BY <2>2 DEF LabelsMove, TimerLabels, KernelLabels, AppThreads
  <2> QED
    BY <2>1, <2>2, <2>3, WaitsUntouched
<1>7. CASE UNCHANGED allVars
  <2>1. UNCHANGED <<suspQ, wakeStatus, timoCb, pc, count>>
    BY <1>7 DEF allVars, kernelVars, semVars
  <2> QED
    BY <2>1, WaitsUntouched
<1> QED
  BY <1>2, <1>3, <1>4, <1>5, <1>6, <1>7 DEF SemNext

(* The semaphore code implements the abstract semaphores, for any number   *)
(* of threads and semaphores and any priorities: tokens are neither lost   *)
(* nor made, wake-ups go to the highest priority and among equals to the   *)
(* longest wait, and a get returns the reason for which the thread left    *)
(* the queue.                                                              *)
THEOREM SemImplementsSemaphore == CallbacksWake = FALSE => (SemSpec => ImplementsSemaphore)
<1> SUFFICES ASSUME CallbacksWake = FALSE PROVE SemSpec => ImplementsSemaphore
  OBVIOUS
<1>1. SemInit => Abstract!Init
  <2> SUFFICES ASSUME SemInit PROVE Abstract!Init
    OBVIOUS
  <2>1. /\ count \in [Sems -> InitCounts] /\ \A s \in Sems : suspQ[s] = <<>>
        /\ \A t \in AppThreads : pc[t] \in {"none", "app"}
    BY DEF SemInit, SemLibInit, TimerInit, KernelInit, AppThreads
  <2>2. \A s \in Sems : Range(suspQ[s]) = {} /\ TiesInOrder(suspQ[s]) = {}
    BY <2>1 DEF Range, TiesInOrder
  <2>3. AllWaiters = {}
    BY <2>2 DEF AllWaiters, SemWaiters
  <2>4. \A t \in AppThreads : OutcomeOf(t) = "none"
    BY <2>1 DEF OutcomeOf
  <2> QED
    BY <2>1, <2>2, <2>3, <2>4 DEF Abstract!Init, Abstract!WaitInit
<1>2. SemInv /\ SemInv' /\ [SemNext]_allVars => [Abstract!Next]_<<count, Abstract!waitVars>>
  <2> SUFFICES ASSUME SemInv, SemInv', [SemNext]_allVars
               PROVE  [Abstract!Next]_<<count, Abstract!waitVars>>
    OBVIOUS
  <2>1. UNCHANGED <<count, abstractVars>> => UNCHANGED <<count, Abstract!waitVars>>
    BY DEF Abstract!waitVars, abstractVars, WaitingView, TiesView, Timed, Outcome
  <2> QED
    BY <2>1, AbstractStep
<1>3. SemSpec => []SemInv
  BY SemInvariant
<1> QED
  BY <1>1, <1>2, <1>3, PTL DEF SemSpec, ImplementsSemaphore, Abstract!Spec
=============================================================================
