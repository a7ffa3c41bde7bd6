-------------------------- MODULE AtomMutexProofs ---------------------------
(***************************************************************************)
(* Theorems about AtomMutex, for any number of threads, mutexes, timers of *)
(* the application and ticks.  Their hypotheses are that interrupt         *)
(* handlers do not put a mutex, whose owner check they pass when nobody    *)
(* owns it, and that the callbacks of timers delete none.                  *)
(***************************************************************************)
EXTENDS AtomMutexRefinement, AtomSuspendProofs

(* The data of the module: what the scheduler and the timers do not see.   *)
MutexData ==
    /\ cbFunc \in [AppThreads -> {"delay"} \cup Mutexes]
    /\ pc \in [Threads -> MutexLabels]
    /\ owner \in [Mutexes -> AppThreads \cup {Null}]
    /\ count \in [Mutexes -> 0..MaxCount]
    /\ getting \in [AppThreads -> Mutexes \cup {Null}]
    /\ deleting \in [Contexts -> Mutexes \cup {Null}]
    /\ wokenThreads \in [Contexts -> BOOLEAN]

(* The timeout of a waiting thread is that of the mutex it waits for, and  *)
(* so is its blocking call.                                                *)
WaitOfGet ==
    /\ \A m \in Mutexes : \A t \in MutexWaiters(m) :
          getting[t] = m /\ (timoCb[t] => cbFunc[t] = m)
    /\ \A t \in AppThreads : getting[t] # Null <=> pc[t] \in {"get", "got"}

(* A thread is inside atomMutexDelete exactly if its label says so; main() *)
(* and interrupt handlers finish theirs before anything else runs, and the *)
(* tick handler deletes nothing.                                           *)
DeleteInv ==
    /\ \A t \in Threads : deleting[t] # Null <=> pc[t] = "mutdel"
    /\ deleting[Null] # Null => atomCurrentContext = Null /\ intr # "tick"

MutexInv ==
    /\ SuspendInv(AllWaiters)
    /\ MutexData
    /\ SuspQueues(suspQ, Mutexes)
    /\ WaitOfGet
    /\ DeleteInv
    /\ OwnershipSound

-----------------------------------------------------------------------------

(* The waiting threads may be named by what they are after a step.         *)
LEMMA MutexWaitingAfter ==
    ASSUME NEW U, SuspendInv(U)', AllWaiters' = U
    PROVE  SuspendInv(AllWaiters)'
  BY DEF SuspendInv, KernelInv, SchedInv, Placement, StackTimerInv, Parked

LEMMA MutexWaitersAre == AllWaiters = WaitersIn(suspQ, Mutexes)
  BY DEF AllWaiters, WaitersIn, MutexWaiters

LEMMA MutexInitInv == MutexInit => MutexInv
<1> SUFFICES ASSUME MutexInit PROVE MutexInv
  OBVIOUS
<1>1. SuspendInv({})
  BY TimerInitSuspend DEF MutexInit
<1>2. \A m \in Mutexes : suspQ[m] = <<>> /\ Range(suspQ[m]) = {}
  BY DEF MutexInit, MutexLibInit, Range
<1>3. AllWaiters = {}
  BY <1>2 DEF AllWaiters, MutexWaiters
<1>4. SuspendInv(AllWaiters)
  BY <1>1, <1>3 DEF SuspendInv, KernelInv, SchedInv, Placement, StackTimerInv, Parked
<1>5. IsTcbQueue(<<>>)
  BY DEF IsTcbQueue, NoDuplicates, PriorityOrdered
<1>6. SuspQueues(suspQ, Mutexes)
  BY <1>2, <1>5 DEF MutexInit, MutexLibInit, SuspQueues
<1>7. MutexData
  BY MaxCountAssumption
     DEF MutexInit, MutexLibInit, TimerInit, TimerLibInit, KernelInit, MutexData, MutexLabels,
         SuspendLabels, TimerLabels, KernelLabels
<1>8. WaitOfGet
  BY <1>2 DEF WaitOfGet, MutexWaiters, MutexInit, MutexLibInit, TimerInit, KernelInit, AppThreads
<1>9. DeleteInv
  BY ThreadsAssumption DEF MutexInit, MutexLibInit, TimerInit, KernelInit, DeleteInv, Contexts
<1>10. OwnershipSound
  BY <1>2, MutexesAssumption DEF MutexInit, MutexLibInit, OwnershipSound, HandedOver
<1> QED
  BY <1>4, <1>6, <1>7, <1>8, <1>9, <1>10 DEF MutexInv

(* A step that leaves the scheduler, the timers and the queues alone.      *)
LEMMA OwnerOrCount ==
    ASSUME MutexInv, UNCHANGED <<kernelVars, timerVars, suspQ, getting, deleting, wokenThreads>>,
           count' \in [Mutexes -> 0..MaxCount],
           owner' \in [Mutexes -> AppThreads \cup {Null}],
           OwnershipSound'
    PROVE  MutexInv'
<1>1. PICK W : W = AllWaiters
  OBVIOUS
<1>2. AllWaiters' = W
  BY <1>1 DEF AllWaiters, MutexWaiters
<1>3. SuspendInv(W)'
  BY <1>1, SuspendStutter DEF MutexInv
<1>4. SuspendInv(AllWaiters)'
  BY <1>2, <1>3, MutexWaitingAfter
<1>5. UNCHANGED <<curr, intr, timoCb, pc, cbFunc>>
  BY DEF kernelVars, timerVars
<1>6. MutexData' /\ SuspQueues(suspQ, Mutexes)'
  BY <1>5 DEF MutexInv, MutexData, SuspQueues
<1>7. WaitOfGet' /\ DeleteInv'
  BY <1>5 DEF MutexInv, WaitOfGet, MutexWaiters, DeleteInv, atomCurrentContext
<1> QED
  BY <1>4, <1>6, <1>7 DEF MutexInv

(* A step after which owners, counts and the threads that have been handed *)
(* a mutex are as before, and no queue of a free mutex has grown.          *)
LEMMA SameOwnership ==
    ASSUME OwnershipSound, UNCHANGED <<owner, count>>,
           \A m \in Mutexes : HandedOver(m)' = HandedOver(m),
           \A m \in Mutexes : owner[m] = Null => suspQ'[m] = <<>>
    PROVE  OwnershipSound'
  BY DEF OwnershipSound

(* A context that may call the module: a thread in its own code, or main() *)
(* or a handler that is not inside a delete.                               *)
LEMMA CallerFacts ==
    ASSUME MutexInv, NEW c \in Contexts, MayCallMutex(c)
    PROVE  /\ c = atomCurrentContext /\ deleting[c] = Null
           /\ c \in Threads => /\ started /\ intr = "none" /\ c = curr /\ pc[c] = "app"
                               /\ c \in AppThreads /\ getting[c] = Null
           /\ c = Null => ~ started \/ intr # "none"
<1>1. c = atomCurrentContext /\ deleting[c] = Null
  BY DEF MayCallMutex, MayCallTimer, MayCall, InAppCallback, atomCurrentContext
<1>2. c \in Threads => c # Null
  BY ThreadsAssumption
<1>3. c \in Threads => intr = "none" /\ c = curr /\ pc[c] = "app" /\ c \in AppThreads
  BY <1>1, <1>2 DEF MayCallMutex, MayCallTimer, MayCall, atomCurrentContext, AppThreads
<1>4. c \in Threads => started
  BY <1>3, ThreadsAssumption DEF MutexInv, SuspendInv, KernelInv, ContextInv
<1>5. c \in Threads => getting[c] = Null
  BY <1>3 DEF MutexInv, WaitOfGet
<1>6. c = Null => ~ started \/ intr # "none"
  BY <1>1, ThreadsAssumption DEF atomCurrentContext, MutexInv, SuspendInv, KernelInv, SchedInv
<1> QED
  BY <1>1, <1>3, <1>4, <1>5, <1>6

(* A thread that owns a mutex and is in its own code has counted its lock; *)
(* nobody else has been handed the mutex.                                  *)
LEMMA OwnerFacts ==
    ASSUME MutexInv, NEW c \in AppThreads, NEW m \in Mutexes, getting[c] = Null,
           owner[m] \in {Null, c}
    PROVE  /\ HandedOver(m) = {}
           /\ owner[m] = c <=> count[m] > 0
<1>1. c # Null /\ Null \notin AppThreads
  BY ThreadsAssumption DEF AppThreads
<1>2. ASSUME NEW t \in HandedOver(m) PROVE FALSE
  <2>1. t \in AppThreads /\ getting[t] = m /\ owner[m] = t
    BY <1>2 DEF MutexInv, OwnershipSound, HandedOver
  <2> QED
    BY <1>1, <2>1, MutexesAssumption
<1> QED
  BY <1>1, <1>2 DEF MutexInv, OwnershipSound

-----------------------------------------------------------------------------

(* One lemma per action.                                                   *)
LEMMA CreateInv ==
    ASSUME MutexInv, NEW m \in Mutexes, atomMutexCreate(m)
    PROVE  MutexInv'
<1>1. \A t \in AppThreads : getting[t] # m
  BY DEF atomMutexCreate
<1>2. suspQ[m] = <<>> /\ suspQ \in [Mutexes -> Seq(AppThreads)]
  <2>1. suspQ \in [Mutexes -> Seq(AppThreads)] /\ IsTcbQueue(suspQ[m])
    BY DEF MutexInv, SuspQueues
  <2>2. ASSUME suspQ[m] # <<>> PROVE FALSE
    BY <1>1, <2>1, <2>2, TailProperties DEF MutexInv, WaitOfGet, MutexWaiters
  <2> QED
    BY <2>1, <2>2
<1>3. suspQ' = suspQ
  BY <1>2 DEF atomMutexCreate
<1>4. /\ count' \in [Mutexes -> 0..MaxCount]
      /\ owner' \in [Mutexes -> AppThreads \cup {Null}]
      /\ \A n \in Mutexes : /\ count'[n] = IF n = m THEN 0 ELSE count[n]
                            /\ owner'[n] = IF n = m THEN Null ELSE owner[n]
  BY MaxCountAssumption DEF atomMutexCreate, MutexInv, MutexData
<1>5. \A n \in Mutexes : HandedOver(n)' = HandedOver(n)
  BY <1>3 DEF atomMutexCreate, HandedOver, MutexWaiters, kernelVars
<1>6. HandedOver(m) = {}
  BY <1>1 DEF HandedOver
<1>7. OwnershipSound'
  <2>1. /\ owner'[m] = Null /\ ~ (count'[m] > 0) /\ HandedOver(m)' = {} /\ suspQ'[m] = <<>>
    BY <1>2, <1>3, <1>4, <1>5, <1>6
  <2>2. \A n \in Mutexes : n # m => /\ owner'[n] = owner[n] /\ count'[n] = count[n]
                                    /\ HandedOver(n)' = HandedOver(n) /\ suspQ'[n] = suspQ[n]
    BY <1>3, <1>4, <1>5
  <2> QED
    BY <2>1, <2>2 DEF OwnershipSound, MutexInv
<1> QED
  BY <1>3, <1>4, <1>7, OwnerOrCount DEF atomMutexCreate

LEMMA GetClaimInv ==
    ASSUME MutexInv, NEW c \in Contexts, NEW m \in Mutexes, MayCallMutex(c), MutexGetClaim(c, m)
    PROVE  MutexInv'
<1>1. c \in AppThreads /\ getting[c] = Null /\ c # Null
  BY CallerFacts DEF MutexGetClaim, Contexts
<1>2. HandedOver(m) = {}
  BY <1>1, OwnerFacts DEF MutexGetClaim
<1>3. /\ count' \in [Mutexes -> 0..MaxCount]
      /\ owner' \in [Mutexes -> AppThreads \cup {Null}]
      /\ count[m] \in Nat
      /\ \A n \in Mutexes : /\ count'[n] = IF n = m THEN count[m] + 1 ELSE count[n]
                            /\ owner'[n] = IF n = m THEN c ELSE owner[n]
  BY <1>1, MaxCountAssumption DEF MutexGetClaim, MutexInv, MutexData
<1>4. /\ UNCHANGED <<suspQ, getting, deleting, wokenThreads, kernelVars, timerVars>>
      /\ \A n \in Mutexes : HandedOver(n)' = HandedOver(n)
  BY DEF MutexGetClaim, HandedOver, MutexWaiters, kernelVars
<1>5. OwnershipSound'
  BY <1>1, <1>2, <1>3, <1>4 DEF OwnershipSound, MutexInv
<1> QED
  BY <1>3, <1>4, <1>5, OwnerOrCount

(* The arithmetic of the count, a byte.                                    *)
LEMMA CountOfPut ==
    ASSUME NEW m \in Mutexes, count[m] \in 1..MaxCount
    PROVE  CountAfterPut(m) = count[m] - 1
<1>1. \A n, a \in Nat : a < n => a % n = a
  OBVIOUS
<1>2. MaxCount + 1 \in Nat /\ count[m] - 1 \in Nat /\ count[m] - 1 < MaxCount + 1
  BY MaxCountAssumption
<1> QED
  BY <1>1, <1>2 DEF CountAfterPut

LEMMA PutStayInv ==
    ASSUME MutexInv, NEW c \in AppThreads, NEW m \in Mutexes, MayCallMutex(c),
           MutexPutNested(c, m) \/ MutexPutRelease(c, m)
    PROVE  MutexInv'
<1>1. owner[m] = c /\ getting[c] = Null /\ c # Null
  BY CallerFacts, ThreadsAssumption DEF MutexPutNested, MutexPutRelease, Contexts, AppThreads
<1>2. HandedOver(m) = {} /\ count[m] \in 1..MaxCount /\ CountAfterPut(m) = count[m] - 1
  <2>1. HandedOver(m) = {} /\ count[m] > 0
    BY <1>1, OwnerFacts
  <2>2. count[m] \in 1..MaxCount
    BY <2>1, MaxCountAssumption DEF MutexInv, MutexData
  <2> QED
    BY <2>1, <2>2, CountOfPut
<1>3. /\ UNCHANGED <<suspQ, getting, deleting, wokenThreads, kernelVars, timerVars>>
      /\ \A n \in Mutexes : HandedOver(n)' = HandedOver(n)
  BY DEF MutexPutNested, MutexPutRelease, HandedOver, MutexWaiters, kernelVars
<1>4. /\ count' \in [Mutexes -> 0..MaxCount]
      /\ \A n \in Mutexes : count'[n] = IF n = m THEN count[m] - 1 ELSE count[n]
  BY <1>2, MaxCountAssumption DEF MutexPutNested, MutexPutRelease, MutexInv, MutexData
<1>5. CASE MutexPutNested(c, m)
  <2>1. UNCHANGED owner /\ count[m] - 1 # 0
    BY <1>2, <1>5 DEF MutexPutNested
  <2>2. OwnershipSound'
    BY <1>1, <1>2, <1>3, <1>4, <2>1, MaxCountAssumption DEF OwnershipSound, MutexInv
  <2> QED
    BY <1>3, <1>4, <2>1, <2>2, OwnerOrCount DEF MutexInv, MutexData
<1>6. CASE MutexPutRelease(c, m)
  <2>1. /\ owner' \in [Mutexes -> AppThreads \cup {Null}]
        /\ \A n \in Mutexes : owner'[n] = IF n = m THEN Null ELSE owner[n]
        /\ suspQ[m] = <<>> /\ count[m] - 1 = 0
    BY <1>2, <1>6 DEF MutexPutRelease, MutexInv, MutexData
  <2>2. OwnershipSound'
    BY <1>1, <1>2, <1>3, <1>4, <2>1, MaxCountAssumption DEF OwnershipSound, MutexInv
  <2> QED
    BY <1>3, <1>4, <2>1, <2>2, OwnerOrCount
<1> QED
  BY <1>5, <1>6

LEMMA GetBlockInv ==
    ASSUME MutexInv, NEW t \in AppThreads, NEW m \in Mutexes, NEW timeout \in Nat,
           MayCall(t), MutexGetBlock(t, m, timeout)
    PROVE  MutexInv'
<1>1. PICK W : W = AllWaiters
  OBVIOUS
<1>2. PICK U : U = W \cup {t}
  OBVIOUS
<1>3. /\ Suspend(t, m, timeout) /\ UNCHANGED <<owner, count, deleting, wokenThreads>>
      /\ suspQ' = [suspQ EXCEPT ![m] = tcbEnqueuePriority(suspQ[m], t)]
      /\ getting' = [getting EXCEPT ![t] = m]
      /\ m # "delay" /\ m # Null /\ owner[m] # Null
  BY MutexesAssumption DEF MutexGetBlock
<1>4. /\ SuspendInv(U)' /\ t \notin Parked(W) /\ t \notin W /\ t = curr
      /\ cbFunc' \in {cbFunc, [cbFunc EXCEPT ![t] = m]}
      /\ timoCb'[t] => cbFunc'[t] = m
  BY <1>1, <1>2, <1>3, SuspendPreserves DEF MutexInv, Parked
<1>5. t \in Threads /\ pc[t] = "app" /\ intr = "none" /\ atomCurrentContext = t
  BY <1>4, ThreadsAssumption DEF AppThreads, MayCall, atomCurrentContext
<1>6. UpdatedAt(suspQ, Mutexes, m, tcbEnqueuePriority(suspQ[m], t), suspQ')
  BY <1>3 DEF MutexInv, SuspQueues, UpdatedAt, IsFunction
<1>7. /\ SuspQueues(suspQ', Mutexes)
      /\ \A n \in Mutexes : n # m => suspQ'[n] = suspQ[n]
      /\ Range(suspQ'[m]) = Range(suspQ[m]) \cup {t}
      /\ WaitersIn(suspQ', Mutexes) = U
  BY <1>1, <1>2, <1>4, <1>6, JoinQueue, MutexWaitersAre DEF MutexInv, Parked
<1>8. AllWaiters' = U
  BY <1>7 DEF AllWaiters, MutexWaiters, WaitersIn
<1>9. SuspendInv(AllWaiters)'
  BY <1>4, <1>8, MutexWaitingAfter
<1>10. /\ UNCHANGED <<curr, intr, wakeStatus>>
       /\ pc' = [pc EXCEPT ![t] = "get"]
       /\ \A u \in Threads : u # t => timoCb'[u] = timoCb[u]
       /\ \A u \in AppThreads : u # t => cbFunc'[u] = cbFunc[u]
       /\ \A u \in AppThreads : getting'[u] = IF u = t THEN m ELSE getting[u]
       /\ \A u \in Threads : pc'[u] = IF u = t THEN "get" ELSE pc[u]
  BY <1>3 DEF Suspend, MutexInv, SuspendInv, KernelInv, KernelTypeOK, MutexData
<1>11. MutexData'
  <2>1. pc' \in [Threads -> MutexLabels] /\ getting' \in [AppThreads -> Mutexes \cup {Null}]
    BY <1>3, <1>10 DEF MutexInv, MutexData, MutexLabels, SuspendLabels
  <2>2. cbFunc' \in [AppThreads -> {"delay"} \cup Mutexes]
    BY <1>4 DEF MutexInv, MutexData
  <2> QED
    BY <1>3, <2>1, <2>2 DEF MutexInv, MutexData
<1>12. \A n \in Mutexes : t \notin MutexWaiters(n)
  BY <1>1, <1>4 DEF AllWaiters
<1>13. WaitOfGet'
  <2>1. ASSUME NEW n \in Mutexes, NEW u \in Range(suspQ'[n])
        PROVE  getting'[u] = n /\ (timoCb'[u] => cbFunc'[u] = n)
    <3>1. CASE u = t
      BY <1>4, <1>7, <1>10, <1>12, <2>1, <3>1 DEF MutexWaiters
    <3>2. CASE u # t
      <4>1. u \in Range(suspQ[n])
        BY <1>7, <2>1, <3>2
      <4>2. u \in AppThreads /\ u \in Threads
        BY <4>1, InRange DEF MutexInv, SuspQueues, AppThreads
      <4> QED
        BY <1>10, <3>2, <4>1, <4>2 DEF MutexInv, WaitOfGet, MutexWaiters
    <3> QED
      BY <3>1, <3>2
  <2>2. \A u \in AppThreads : getting'[u] # Null <=> pc'[u] \in {"get", "got"}
    BY <1>3, <1>10 DEF MutexInv, WaitOfGet, AppThreads
  <2> QED
    BY <2>1, <2>2 DEF WaitOfGet, MutexWaiters
<1>14. DeleteInv'
  BY <1>3, <1>5, <1>10 DEF MutexInv, MutexData, DeleteInv, atomCurrentContext
<1>15. OwnershipSound'
  <2>1. \A n \in Mutexes : HandedOver(n)' = HandedOver(n)
    <3>1. getting[t] # m /\ \A n \in Mutexes : getting[t] # n
      BY <1>5, MutexesAssumption DEF MutexInv, WaitOfGet
    <3>2. \A n \in Mutexes : Range(suspQ'[n]) = IF n = m THEN Range(suspQ[n]) \cup {t} ELSE Range(suspQ[n])
      BY <1>7
    <3>3. ASSUME NEW n \in Mutexes, NEW u \in AppThreads
          PROVE  getting'[u] = n /\ u \notin Range(suspQ'[n])
                     <=> getting[u] = n /\ u \notin Range(suspQ[n])
      <4>1. CASE u = t
        <5>1. getting'[t] = m /\ getting[t] # n
          BY <1>10, <3>1
        <5>2. n = m => t \in Range(suspQ'[n])
          BY <3>2
        <5> QED
          BY <4>1, <5>1, <5>2
      <4>2. CASE u # t
        <5>1. getting'[u] = getting[u]
          BY <1>10, <4>2
        <5>2. u \in Range(suspQ'[n]) <=> u \in Range(suspQ[n])
          BY <3>2, <4>2
        <5> QED
          BY <5>1, <5>2
      <4> QED
        BY <4>1, <4>2
    <3> QED
      BY <1>10, <3>3 DEF HandedOver, MutexWaiters
  <2>2. \A n \in Mutexes : owner[n] = Null => suspQ'[n] = <<>>
    BY <1>3, <1>7 DEF MutexInv, OwnershipSound
  <2> QED
    BY <1>3, <2>1, <2>2, SameOwnership DEF MutexInv
<1> QED
  BY <1>7, <1>9, <1>11, <1>13, <1>14, <1>15 DEF MutexInv

(* The steps of the scheduler and the timers change no queue and leave the *)
(* waiting threads alone.                                                  *)
LEMMA OtherStepInv == ASSUME MutexInv, OtherStep PROVE MutexInv'
<1>1. PICK W : W = AllWaiters
  OBVIOUS
<1>2. TimerNext /\ UNCHANGED <<owner, count, suspQ, getting, deleting, wokenThreads>>
  BY DEF OtherStep, mutexVars
<1>3. AllWaiters' = W
  BY <1>1, <1>2 DEF AllWaiters, MutexWaiters
<1>4. SuspendInv(W)
  BY <1>1 DEF MutexInv
<1>5. SuspendInv(W)'
  BY <1>2, <1>4, TimerNextSuspend
<1>6. SuspendInv(AllWaiters)'
  BY <1>3, <1>5, MutexWaitingAfter
<1>7. /\ wakeStatus' = wakeStatus
      /\ \A t \in W : timoCb'[t] = timoCb[t] /\ cbFunc'[t] = cbFunc[t]
      /\ LabelsMove
      /\ \A t \in AppThreads : cbFunc'[t] \in {cbFunc[t], "delay"}
  BY <1>2, <1>4, TimerNextFrame
<1>8. IsFunction(pc', Threads) /\ IsFunction(cbFunc', AppThreads)
  <2>1. IsFunction(pc, Threads) /\ IsFunction(cbFunc, AppThreads)
    BY DEF MutexInv, MutexData, IsFunction
  <2> QED
    BY <1>2, <1>4, <2>1, TimerNextFunctions
<1>9. MutexData'
  <2>1. \A t \in Threads : pc'[t] \in MutexLabels
    BY <1>7 DEF LabelsMove, MutexInv, MutexData, MutexLabels, SuspendLabels
  <2>2. \A t \in AppThreads : cbFunc'[t] \in {"delay"} \cup Mutexes
    BY <1>7 DEF MutexInv, MutexData
  <2>3. pc' \in [Threads -> MutexLabels] /\ cbFunc' \in [AppThreads -> {"delay"} \cup Mutexes]
    BY <1>8, <2>1, <2>2, FunctionSet
  <2> QED
    BY <1>2, <2>3 DEF MutexInv, MutexData
<1>10. SuspQueues(suspQ, Mutexes)'
  BY <1>2 DEF MutexInv, SuspQueues
<1>11. /\ \A t \in Threads : pc'[t] = "mutdel" <=> pc[t] = "mutdel"
       /\ \A t \in Threads : pc'[t] \in {"get", "got"} <=> pc[t] \in {"get", "got"}
  BY <1>7 DEF LabelsMove, TimerLabels, KernelLabels
<1>12. WaitOfGet'
  BY <1>1, <1>2, <1>7, <1>11 DEF MutexInv, WaitOfGet, AllWaiters, MutexWaiters, AppThreads
<1>13. DeleteInv'
  <2>1. deleting[Null] = Null
    BY DEF OtherStep, MutexInv, DeleteInv
  <2> QED
    BY <1>2, <1>11, <2>1 DEF MutexInv, DeleteInv
<1>14. OwnershipSound'
  BY <1>2, <1>7 DEF MutexInv, OwnershipSound, HandedOver, MutexWaiters
<1> QED
  BY <1>6, <1>9, <1>10, <1>12, <1>13, <1>14 DEF MutexInv

LEMMA GetSchedInv == ASSUME MutexInv, NEW t \in AppThreads, MutexGetSched(t) PROVE MutexInv'
<1>1. PICK W : W = AllWaiters
  OBVIOUS
<1>2. /\ SuspendInv(W) /\ SuspendSched(t)
      /\ UNCHANGED <<owner, count, suspQ, getting, deleting, wokenThreads>>
      /\ CallSched(t, "get", "got") /\ UNCHANGED timerVars
  BY <1>1 DEF MutexGetSched, SuspendSched, mutexVars, MutexInv
<1>3. SuspendInv(W)'
  BY <1>2, SuspendSchedPreserves
<1>4. AllWaiters' = W
  BY <1>1, <1>2 DEF AllWaiters, MutexWaiters
<1>5. SuspendInv(AllWaiters)'
  BY <1>3, <1>4, MutexWaitingAfter
<1>6. /\ atomCurrentContext = t /\ t \in Threads /\ t # Null
      /\ pc[t] = "get" /\ pc' = [pc EXCEPT ![t] = "got"]
      /\ UNCHANGED <<intr, timoCb, cbFunc, wakeStatus>>
  BY <1>2, ThreadsAssumption DEF CallSched, AppThreads, timerVars
<1>7. MutexData' /\ SuspQueues(suspQ, Mutexes)' /\ WaitOfGet'
  BY <1>2, <1>6
     DEF MutexInv, MutexData, MutexLabels, SuspendLabels, SuspQueues, WaitOfGet, MutexWaiters,
         AppThreads
<1>8. DeleteInv'
  BY <1>2, <1>6 DEF MutexInv, MutexData, DeleteInv
<1>9. OwnershipSound'
  BY <1>2, <1>6 DEF MutexInv, OwnershipSound, HandedOver, MutexWaiters
<1> QED
  BY <1>5, <1>7, <1>8, <1>9 DEF MutexInv

(* The new owner counts its lock.                                          *)
LEMMA GetReturnInv == ASSUME MutexInv, NEW t \in AppThreads, MutexGetReturn(t) PROVE MutexInv'
<1>1. PICK W : W = AllWaiters
  OBVIOUS
<1>2. /\ SuspendInv(W) /\ LeaveCall(t) /\ UNCHANGED <<readyQ, wakeStatus, timoCb, timerQ>>
      /\ UNCHANGED <<owner, suspQ, deleting, wokenThreads>>
      /\ getting' = [getting EXCEPT ![t] = Null]
  BY <1>1 DEF MutexGetReturn, SuspendReturn, MutexInv
<1>3. SuspendInv(W)'
  BY <1>2, LeaveCallPreserves
<1>4. AllWaiters' = W
  BY <1>1, <1>2 DEF AllWaiters, MutexWaiters
<1>5. SuspendInv(AllWaiters)'
  BY <1>3, <1>4, MutexWaitingAfter
<1>6. /\ atomCurrentContext = t /\ t \in Threads /\ t # Null
      /\ pc[t] = "got" /\ pc' = [pc EXCEPT ![t] = "app"]
      /\ cbFunc' = [cbFunc EXCEPT ![t] = "delay"]
      /\ UNCHANGED <<curr, intr>>
  BY <1>2, ThreadsAssumption DEF LeaveCall, DropStackTimer, AppThreads
<1>7. t \notin W /\ \A m \in Mutexes : t \notin MutexWaiters(m)
  BY <1>1, <1>2, <1>6, RunningFacts DEF Parked, AllWaiters
<1>8. PICK m \in Mutexes : getting[t] = m
  BY <1>6 DEF MutexInv, WaitOfGet, MutexData
<1>9. /\ count' \in [Mutexes -> 0..MaxCount]
      /\ \A n \in Mutexes : count'[n] = IF n = m /\ wakeStatus[t] = "ATOM_OK" THEN 1 ELSE count[n]
      /\ wakeStatus[t] = "ATOM_OK" => owner[m] = t
  <2>1. CASE wakeStatus[t] # "ATOM_OK"
    BY <2>1 DEF MutexGetReturn, MutexInv, MutexData
  <2>2. CASE wakeStatus[t] = "ATOM_OK"
    <3>1. t \in HandedOver(m)
      BY <1>7, <1>8, <2>2 DEF HandedOver
    <3>2. count[m] = 0 /\ owner[m] = t
      BY <3>1 DEF MutexInv, OwnershipSound
    <3>3. (0 + 1) % (MaxCount + 1) = 1 /\ 1 \in 0..MaxCount
      <4>1. \A n, a \in Nat : a < n => a % n = a
        OBVIOUS
      <4> QED
        BY <4>1, MaxCountAssumption
    <3>4. count' = [count EXCEPT ![m] = 1]
      BY <1>8, <2>2, <3>2, <3>3 DEF MutexGetReturn
    <3> QED
      BY <2>2, <3>2, <3>3, <3>4 DEF MutexInv, MutexData
  <2> QED
    BY <2>1, <2>2
<1>10. MutexData' /\ SuspQueues(suspQ, Mutexes)'
  BY <1>2, <1>6, <1>9
     DEF MutexInv, MutexData, MutexLabels, SuspendLabels, TimerLabels, KernelLabels, SuspQueues
<1>11. /\ \A u \in AppThreads : getting'[u] = IF u = t THEN Null ELSE getting[u]
       /\ \A u \in Threads : pc'[u] = IF u = t THEN "app" ELSE pc[u]
       /\ \A u \in AppThreads : u # t => cbFunc'[u] = cbFunc[u]
  BY <1>2, <1>6 DEF MutexInv, MutexData
<1>12. WaitOfGet'
  <2>1. ASSUME NEW n \in Mutexes, NEW u \in Range(suspQ'[n])
        PROVE  getting'[u] = n /\ (timoCb'[u] => cbFunc'[u] = n)
    <3>1. u \in MutexWaiters(n) /\ u # t
      BY <1>2, <1>7, <2>1 DEF MutexWaiters
    <3>2. u \in AppThreads
      BY <3>1, InRange DEF MutexInv, SuspQueues, MutexWaiters
    <3> QED
      BY <1>2, <1>11, <3>1, <3>2 DEF MutexInv, WaitOfGet
  <2>2. \A u \in AppThreads : getting'[u] # Null <=> pc'[u] \in {"get", "got"}
    BY <1>11 DEF MutexInv, WaitOfGet, AppThreads
  <2> QED
    BY <2>1, <2>2 DEF WaitOfGet, MutexWaiters
<1>13. DeleteInv'
  BY <1>2, <1>6 DEF MutexInv, MutexData, DeleteInv, atomCurrentContext
<1>14. OwnershipSound'
  <2>1. \A n \in Mutexes : HandedOver(n)' = HandedOver(n) \ {t}
    BY <1>2, <1>11, MutexesAssumption DEF HandedOver, MutexWaiters
  <2>2. \A n \in Mutexes : n # m => t \notin HandedOver(n)
    BY <1>8 DEF HandedOver
  <2>3. wakeStatus[t] = "ATOM_OK" => t \in HandedOver(m)
    BY <1>7, <1>8 DEF HandedOver
  <2>4. wakeStatus[t] # "ATOM_OK" => t \notin HandedOver(m)
    BY DEF HandedOver
  <2>5. \A n \in Mutexes : n # m \/ wakeStatus[t] # "ATOM_OK" =>
            HandedOver(n)' = HandedOver(n) /\ count'[n] = count[n]
    BY <1>9, <2>1, <2>2, <2>4
  <2>6. wakeStatus[t] = "ATOM_OK" =>
            HandedOver(m)' = {} /\ count'[m] = 1 /\ owner[m] = t /\ suspQ'[m] = suspQ[m]
    BY <1>2, <1>9, <2>1 DEF MutexInv, OwnershipSound
  <2> QED
    BY <1>2, <1>6, <2>5, <2>6 DEF MutexInv, OwnershipSound
<1> QED
  BY <1>5, <1>10, <1>12, <1>13, <1>14 DEF MutexInv

(* What a hand-over and a delete do alike: the head of a queue is woken,   *)
(* and has been handed the mutex if its status says so.                    *)
LEMMA WakeHead ==
    ASSUME MutexInv, NEW m \in Mutexes, suspQ[m] # <<>>, intr # "tick",
           NEW status \in WakeStatus,
           UpdatedAt(suspQ, Mutexes, m, tcbDequeueHead(suspQ[m]).queue, suspQ'),
           WakeUp(tcbDequeueHead(suspQ[m]).tcb, status),
           CancelTimeout(tcbDequeueHead(suspQ[m]).tcb),
           DOMAIN pc' = Threads,
           \A u \in Threads : \/ pc'[u] = pc[u]
                              \/ /\ pc[u] \notin ParkedLabels \cup {"none", "exit"}
                                 /\ pc'[u] \in {"app", "resched"},
           UNCHANGED <<curr, started, intr, suspended, terminated,
                       cbTicks, cbFunc, walk, due, systemTicks, getting>>
    PROVE  /\ SuspendInv(AllWaiters)' /\ SuspQueues(suspQ, Mutexes)' /\ WaitOfGet'
           /\ tcbDequeueHead(suspQ[m]).tcb \in AppThreads
           /\ \A n \in Mutexes :
                 HandedOver(n)' = IF n = m /\ status = "ATOM_OK"
                                    THEN HandedOver(n) \cup {tcbDequeueHead(suspQ[m]).tcb}
                                    ELSE HandedOver(n)
           /\ \A n \in Mutexes : n # m => suspQ'[n] = suspQ[n]
<1>1. PICK W : W = AllWaiters
  OBVIOUS
<1>2. PICK t : t = tcbDequeueHead(suspQ[m]).tcb
  OBVIOUS
<1>3. PICK U : U = W \ {t}
  OBVIOUS
<1>4. UpdatedAt(suspQ, Mutexes, m, tcbDequeueHead(suspQ[m]).queue, suspQ')
  OBVIOUS
<1>5. /\ t \in W /\ t \in AppThreads /\ t \in Range(suspQ[m])
      /\ LeftBy(suspQ, Mutexes, m, t, suspQ')
  BY <1>1, <1>2, <1>4, LeaveHead, MutexWaitersAre DEF MutexInv
<1>6. /\ SuspQueues(suspQ', Mutexes) /\ WaitersIn(suspQ', Mutexes) = U
      /\ \A n \in Mutexes : n # m => suspQ'[n] = suspQ[n]
      /\ Range(suspQ'[m]) = Range(suspQ[m]) \ {t}
      /\ \A n \in Mutexes : Range(suspQ'[n]) \subseteq Range(suspQ[n])
  BY <1>1, <1>3, <1>5, MutexWaitersAre DEF LeftBy
<1>7. AllWaiters' = U
  BY <1>6 DEF AllWaiters, MutexWaiters, WaitersIn
<1>8. /\ SuspendInv(U)'
      /\ timoCb' = [timoCb EXCEPT ![t] = FALSE]
  BY <1>1, <1>2, <1>3, <1>5, WakePreserves DEF MutexInv
<1>9. SuspendInv(AllWaiters)'
  BY <1>7, <1>8, MutexWaitingAfter
<1>10. WaitOfGet'
  <2>1. ASSUME NEW n \in Mutexes, NEW u \in Range(suspQ'[n])
        PROVE  getting'[u] = n /\ (timoCb'[u] => cbFunc'[u] = n)
    <3>1. u \in Range(suspQ[n]) /\ u \in Threads
      BY <1>6, InRange DEF MutexInv, SuspQueues, AppThreads
    <3>2. timoCb'[u] => timoCb[u]
      BY <1>8, <3>1 DEF MutexInv, SuspendInv, KernelInv, KernelTypeOK
    <3> QED
      BY <3>1, <3>2 DEF MutexInv, WaitOfGet, MutexWaiters
  <2>2. \A u \in AppThreads : getting'[u] # Null <=> pc'[u] \in {"get", "got"}
    BY DEF MutexInv, WaitOfGet, AppThreads, ParkedLabels
  <2> QED
    BY <2>1, <2>2 DEF WaitOfGet, MutexWaiters
<1>11. \A n \in Mutexes :
          HandedOver(n)' = IF n = m /\ status = "ATOM_OK" THEN HandedOver(n) \cup {t} ELSE HandedOver(n)
  <2>1. \A u \in AppThreads : wakeStatus'[u] = IF u = t THEN status ELSE wakeStatus[u]
    BY <1>2, <1>5 DEF WakeUp, MutexInv, SuspendInv, KernelInv, KernelTypeOK, AppThreads
  <2>2. getting[t] = m
    BY <1>5 DEF MutexInv, WaitOfGet, MutexWaiters
  <2>3. \A n \in Mutexes : Range(suspQ'[n]) = IF n = m THEN Range(suspQ[n]) \ {t} ELSE Range(suspQ[n])
    BY <1>6
  <2>4. \A n \in Mutexes : \A u \in AppThreads : u # t =>
            (u \in HandedOver(n)' <=> u \in HandedOver(n))
    BY <2>1, <2>3 DEF HandedOver, MutexWaiters
  <2>5. \A n \in Mutexes : t \in HandedOver(n)' <=> (n = m /\ status = "ATOM_OK")
    BY <1>5, <2>1, <2>2, <2>3 DEF HandedOver, MutexWaiters
  <2>6. \A n \in Mutexes : t \notin HandedOver(n)
    BY <1>5, <2>2 DEF HandedOver, MutexWaiters
  <2>7. \A n \in Mutexes : HandedOver(n) \subseteq AppThreads /\ HandedOver(n)' \subseteq AppThreads
    BY DEF HandedOver
  <2>8. ASSUME NEW n \in Mutexes
        PROVE  HandedOver(n)' = IF n = m /\ status = "ATOM_OK" THEN HandedOver(n) \cup {t}
                                                              ELSE HandedOver(n)
    <3>1. PICK A, B : A = HandedOver(n) /\ B = HandedOver(n)'
      OBVIOUS
    <3>2. /\ A \subseteq AppThreads /\ B \subseteq AppThreads /\ t \in AppThreads /\ t \notin A
          /\ \A u \in AppThreads : u # t => (u \in B <=> u \in A)
          /\ t \in B <=> (n = m /\ status = "ATOM_OK")
      BY <1>5, <2>4, <2>5, <2>6, <2>7, <3>1
    <3>3. n = m /\ status = "ATOM_OK" => B = A \cup {t}
      BY <3>2
    <3>4. ASSUME ~ (n = m /\ status = "ATOM_OK")
          PROVE  B = A
      <4>1. t \notin B
        BY <3>2, <3>4
      <4>2. A \subseteq B /\ B \subseteq A
        BY <3>2, <4>1
      <4> QED
        BY <4>2
    <3> QED
      BY <3>1, <3>3, <3>4
  <2> QED
    BY <2>8
<1> QED
  BY <1>2, <1>5, <1>6, <1>9, <1>10, <1>11

LEMMA PutHandOverInv ==
    ASSUME MutexInv, NEW c \in AppThreads, NEW m \in Mutexes, MayCallMutex(c),
           MutexPutHandOver(c, m)
    PROVE  MutexInv'
<1>1. /\ owner[m] = c /\ getting[c] = Null /\ c # Null /\ c \in Threads
      /\ c = atomCurrentContext /\ deleting[c] = Null
      /\ started /\ intr = "none" /\ c = curr /\ pc[c] = "app"
  BY CallerFacts, ThreadsAssumption DEF MutexPutHandOver, Contexts, AppThreads
<1>2. HandedOver(m) = {} /\ count[m] \in 1..MaxCount
  <2>1. HandedOver(m) = {} /\ count[m] > 0
    BY <1>1, OwnerFacts
  <2> QED
    BY <2>1, MaxCountAssumption DEF MutexInv, MutexData
<1>3. PICK t : t = tcbDequeueHead(suspQ[m]).tcb
  OBVIOUS
<1>4. /\ pc' = [u \in Threads |-> IF u = c THEN "resched" ELSE pc[u]]
      /\ count' = [count EXCEPT ![m] = 0] /\ owner' = [owner EXCEPT ![m] = t]
      /\ UNCHANGED <<curr, intr, cbFunc, getting, deleting, wokenThreads>>
  BY <1>3 DEF MutexPutHandOver, PcResched
<1>5. /\ SuspendInv(AllWaiters)' /\ SuspQueues(suspQ, Mutexes)' /\ WaitOfGet'
      /\ t \in AppThreads
      /\ \A n \in Mutexes : HandedOver(n)' = IF n = m THEN HandedOver(n) \cup {t} ELSE HandedOver(n)
      /\ \A n \in Mutexes : n # m => suspQ'[n] = suspQ[n]
  <2>1. \A u \in Threads : \/ pc'[u] = pc[u]
                           \/ /\ pc[u] \notin ParkedLabels \cup {"none", "exit"}
                              /\ pc'[u] \in {"app", "resched"}
    BY <1>1, <1>4 DEF ParkedLabels
  <2>2. DOMAIN pc' = Threads /\ "ATOM_OK" \in WakeStatus /\ intr # "tick"
    BY <1>1, <1>4 DEF WakeStatus
  <2>3. /\ suspQ[m] # <<>>
        /\ UpdatedAt(suspQ, Mutexes, m, tcbDequeueHead(suspQ[m]).queue, suspQ')
        /\ WakeUp(tcbDequeueHead(suspQ[m]).tcb, "ATOM_OK")
        /\ CancelTimeout(tcbDequeueHead(suspQ[m]).tcb)
        /\ UNCHANGED <<curr, started, intr, suspended, terminated,
                       cbTicks, cbFunc, walk, due, systemTicks, getting>>
    BY DEF MutexPutHandOver, MutexInv, SuspQueues, UpdatedAt, IsFunction
  <2> QED
    BY <1>3, <2>1, <2>2, <2>3, WakeHead
<1>6. /\ count' \in [Mutexes -> 0..MaxCount] /\ owner' \in [Mutexes -> AppThreads \cup {Null}]
      /\ \A n \in Mutexes : /\ count'[n] = IF n = m THEN 0 ELSE count[n]
                            /\ owner'[n] = IF n = m THEN t ELSE owner[n]
  BY <1>4, <1>5, MaxCountAssumption DEF MutexInv, MutexData
<1>7. MutexData'
  BY <1>4, <1>6 DEF MutexInv, MutexData, MutexLabels, SuspendLabels, TimerLabels, KernelLabels
<1>8. DeleteInv'
  BY <1>1, <1>4 DEF MutexInv, DeleteInv, atomCurrentContext
<1>9. OwnershipSound'
  <2>1. owner'[m] = t /\ t # Null /\ count'[m] = 0 /\ HandedOver(m)' = {t}
    BY <1>2, <1>5, <1>6, ThreadsAssumption DEF AppThreads
  <2>2. \A n \in Mutexes : n # m => /\ owner'[n] = owner[n] /\ count'[n] = count[n]
                                    /\ HandedOver(n)' = HandedOver(n) /\ suspQ'[n] = suspQ[n]
    BY <1>5, <1>6
  <2> QED
    BY <2>1, <2>2 DEF OwnershipSound, MutexInv
<1> QED
  BY <1>5, <1>7, <1>8, <1>9 DEF MutexInv

(* A delete by a context that is not the tick handler.                     *)
LEMMA DeleteStartInv ==
    ASSUME MutexInv, NEW c \in Contexts, NEW m \in Mutexes, MayCallMutex(c), ~ InAppCallback,
           MutexDeleteStart(c, m)
    PROVE  MutexInv'
<1>1. /\ c = atomCurrentContext /\ deleting[c] = Null
      /\ c \in Threads => started /\ intr = "none" /\ c = curr /\ pc[c] = "app"
  BY CallerFacts
<1>2. c = Null => intr # "tick"
  BY ThreadsAssumption DEF MayCallMutex, MayCallTimer, MayCall, atomCurrentContext
<1>3. PICK W : W = AllWaiters
  OBVIOUS
<1>4. /\ pc' = [t \in Threads |-> IF t = c THEN "mutdel" ELSE pc[t]]
      /\ deleting' = [deleting EXCEPT ![c] = m]
      /\ UNCHANGED <<readyQ, curr, started, intr, suspended, terminated,
                     wakeStatus, timoCb, timerVars, owner, count, suspQ, getting, wokenThreads>>
      /\ UNCHANGED cbFunc
  BY DEF MutexDeleteStart, timerVars
<1>5. SuspendInv(W)'
  <2>1. \A u \in Threads : \/ pc'[u] = pc[u]
                           \/ /\ pc[u] \notin ParkedLabels \cup {"none", "exit"}
                              /\ pc'[u] # "none"
    BY <1>1, <1>4 DEF ParkedLabels
  <2> QED
    BY <1>3, <1>4, <2>1, LabelsSuspend DEF MutexInv
<1>6. AllWaiters' = W
  BY <1>3, <1>4 DEF AllWaiters, MutexWaiters
<1>7. SuspendInv(AllWaiters)'
  BY <1>5, <1>6, MutexWaitingAfter
<1>8. MutexData' /\ SuspQueues(suspQ, Mutexes)'
  BY <1>4 DEF MutexInv, MutexData, MutexLabels, SuspQueues
<1>9. WaitOfGet'
  BY <1>1, <1>4 DEF MutexInv, WaitOfGet, MutexWaiters, AppThreads
<1>10. DeleteInv'
  BY <1>1, <1>2, <1>4, MutexesAssumption, ThreadsAssumption
     DEF MutexInv, MutexData, DeleteInv, atomCurrentContext, Contexts
<1>11. OwnershipSound'
  BY <1>4 DEF MutexInv, OwnershipSound, HandedOver, MutexWaiters
<1> QED
  BY <1>7, <1>8, <1>9, <1>10, <1>11 DEF MutexInv

LEMMA DeleterFacts ==
    ASSUME MutexInv, NEW c \in Contexts, NEW m \in Mutexes, InMutexDelete(c, m)
    PROVE  /\ c = atomCurrentContext /\ intr # "tick"
           /\ c \in Threads => started /\ intr = "none" /\ c = curr /\ pc[c] = "mutdel"
<1>1. c = atomCurrentContext /\ deleting[c] # Null
  BY MutexesAssumption DEF InMutexDelete
<1>2. c \in Threads => c # Null /\ intr = "none" /\ c = curr /\ pc[c] = "mutdel"
  BY <1>1, ThreadsAssumption DEF atomCurrentContext, MutexInv, DeleteInv
<1>3. c \in Threads => started
  BY <1>2 DEF MutexInv, SuspendInv, KernelInv, ContextInv
<1>4. c = Null => intr # "tick"
  BY <1>1 DEF MutexInv, DeleteInv
<1> QED
  BY <1>1, <1>2, <1>3, <1>4 DEF Contexts

LEMMA DeleteWakeInv ==
    ASSUME MutexInv, NEW c \in Contexts, NEW m \in Mutexes, MutexDeleteWake(c, m)
    PROVE  MutexInv'
<1>1. c = atomCurrentContext /\ intr # "tick"
  BY DeleterFacts DEF MutexDeleteWake
<1>2. PICK t : t = tcbDequeueHead(suspQ[m]).tcb
  OBVIOUS
<1>3. ~ CancelTimeoutFails(t)
  <2>1. /\ suspQ[m] # <<>> /\ suspQ[m] \in Seq(AppThreads)
    BY DEF MutexDeleteWake, MutexInv, SuspQueues
  <2>2. t = Head(suspQ[m]) /\ t \in Range(suspQ[m]) /\ t \in AllWaiters
    BY <1>2, <2>1, TailProperties DEF tcbDequeueHead, AllWaiters, MutexWaiters
  <2> QED
    BY <1>1, <2>2, CancelSucceeds DEF MutexInv
<1>4. /\ pc' = pc /\ deleting' = deleting
      /\ wokenThreads' = [wokenThreads EXCEPT ![c] = TRUE]
      /\ UNCHANGED <<curr, intr, cbFunc, owner, count, getting>>
  BY <1>2, <1>3 DEF MutexDeleteWake
<1>5. /\ SuspendInv(AllWaiters)' /\ SuspQueues(suspQ, Mutexes)' /\ WaitOfGet'
      /\ \A n \in Mutexes : HandedOver(n)' = HandedOver(n)
      /\ \A n \in Mutexes : n # m => suspQ'[n] = suspQ[n]
  <2>1. /\ DOMAIN pc' = Threads /\ "ATOM_ERR_DELETED" \in WakeStatus
        /\ "ATOM_ERR_DELETED" # "ATOM_OK" /\ \A u \in Threads : pc'[u] = pc[u]
    BY <1>4 DEF WakeStatus, MutexInv, MutexData
  <2>2. /\ suspQ[m] # <<>>
        /\ UpdatedAt(suspQ, Mutexes, m, tcbDequeueHead(suspQ[m]).queue, suspQ')
        /\ WakeUp(tcbDequeueHead(suspQ[m]).tcb, "ATOM_ERR_DELETED")
        /\ CancelTimeout(tcbDequeueHead(suspQ[m]).tcb)
        /\ UNCHANGED <<curr, started, intr, suspended, terminated,
                       cbTicks, cbFunc, walk, due, systemTicks, getting>>
    BY DEF MutexDeleteWake, MutexInv, SuspQueues, UpdatedAt, IsFunction
  <2> QED
    BY <1>1, <2>1, <2>2, WakeHead
<1>6. MutexData' /\ DeleteInv'
  BY <1>4 DEF MutexInv, MutexData, DeleteInv, atomCurrentContext
<1>7. OwnershipSound'
  <2>1. suspQ[m] # <<>>
    BY DEF MutexDeleteWake
  <2> QED
    BY <1>4, <1>5, <2>1, SameOwnership DEF MutexInv, OwnershipSound
<1> QED
  BY <1>5, <1>6, <1>7 DEF MutexInv

LEMMA DeleteEndInv ==
    ASSUME MutexInv, NEW c \in Contexts, NEW m \in Mutexes, MutexDeleteEnd(c, m)
    PROVE  MutexInv'
<1>1. /\ c = atomCurrentContext
      /\ c \in Threads => started /\ intr = "none" /\ c = curr /\ pc[c] = "mutdel"
  BY DeleterFacts DEF MutexDeleteEnd
<1>2. PICK W : W = AllWaiters
  OBVIOUS
<1>3. /\ pc' = [t \in Threads |-> IF t # c THEN pc[t]
                                  ELSE IF wokenThreads[c] THEN "resched" ELSE "app"]
      /\ deleting' = [deleting EXCEPT ![c] = Null]
      /\ wokenThreads' = [wokenThreads EXCEPT ![c] = FALSE]
      /\ UNCHANGED <<readyQ, curr, started, intr, suspended, terminated,
                     wakeStatus, timoCb, timerVars, owner, count, suspQ, getting>>
      /\ UNCHANGED cbFunc
  BY DEF MutexDeleteEnd, MutexDeleteLeave, timerVars
<1>4. SuspendInv(W)'
  <2>1. \A u \in Threads : \/ pc'[u] = pc[u]
                           \/ /\ pc[u] \notin ParkedLabels \cup {"none", "exit"}
                              /\ pc'[u] # "none"
    BY <1>1, <1>3 DEF ParkedLabels
  <2> QED
    BY <1>2, <1>3, <2>1, LabelsSuspend DEF MutexInv
<1>5. AllWaiters' = W
  BY <1>2, <1>3 DEF AllWaiters, MutexWaiters
<1>6. SuspendInv(AllWaiters)'
  BY <1>4, <1>5, MutexWaitingAfter
<1>7. SuspQueues(suspQ, Mutexes)'
  BY <1>3 DEF MutexInv, SuspQueues
<1>8. WaitOfGet'
  BY <1>1, <1>3 DEF MutexInv, WaitOfGet, MutexWaiters, AppThreads
<1>9. MutexData'
  BY <1>3 DEF MutexInv, MutexData, MutexLabels, SuspendLabels, TimerLabels, KernelLabels
<1>10. DeleteInv'
  BY <1>1, <1>3 DEF MutexInv, MutexData, DeleteInv, Contexts
<1>11. OwnershipSound'
  BY <1>3 DEF MutexInv, OwnershipSound, HandedOver, MutexWaiters
<1> QED
  BY <1>6, <1>7, <1>8, <1>9, <1>10, <1>11 DEF MutexInv

LEMMA TimeoutInv ==
    ASSUME MutexInv, NEW t \in AppThreads, NEW m \in Mutexes, atomMutexTimerCallback(t, m)
    PROVE  MutexInv'
<1>1. PICK W : W = AllWaiters
  OBVIOUS
<1>2. PICK U : U = W \ {t}
  OBVIOUS
<1>3. /\ Timeout(t, m) /\ UNCHANGED <<owner, count, getting, deleting, wokenThreads>>
      /\ UpdatedAt(suspQ, Mutexes, m, tcbDequeueEntry(suspQ[m], t).queue, suspQ')
      /\ timoCb' = [timoCb EXCEPT ![t] = FALSE]
      /\ UNCHANGED <<curr, intr, pc, cbFunc>>
      /\ cbFunc[t] = m /\ m # "delay"
  BY MutexesAssumption
     DEF atomMutexTimerCallback, Timeout, CallbackDue, MutexInv, SuspQueues, UpdatedAt, IsFunction
<1>4. t \in W /\ SuspendInv(U)' /\ t \in Threads
  BY <1>1, <1>2, <1>3, TimeoutPreserves DEF MutexInv, AppThreads
<1>5. t \in Range(suspQ[m])
  <2>1. timoCb[t]
    <3>1. t \in PendingTimers
      BY <1>1, <1>3, CallbackDueFacts DEF MutexInv, Timeout
    <3> QED
      BY <3>1 DEF MutexInv, SuspendInv, StackTimerInv
  <2>2. PICK n \in Mutexes : t \in Range(suspQ[n])
    BY <1>1, <1>4 DEF AllWaiters, MutexWaiters
  <2> QED
    BY <1>3, <2>1, <2>2 DEF MutexInv, WaitOfGet, MutexWaiters
<1>6. /\ SuspQueues(suspQ', Mutexes) /\ WaitersIn(suspQ', Mutexes) = U
      /\ \A n \in Mutexes : n # m => suspQ'[n] = suspQ[n]
      /\ Range(suspQ'[m]) = Range(suspQ[m]) \ {t}
      /\ \A n \in Mutexes : Range(suspQ'[n]) \subseteq Range(suspQ[n])
  <2>1. SuspQueues(suspQ, Mutexes)
    BY DEF MutexInv
  <2>2. LeftBy(suspQ, Mutexes, m, t, suspQ')
    BY <1>3, <1>5, <2>1, LeaveEntry
  <2>3. WaitersIn(suspQ, Mutexes) = W
    BY <1>1, MutexWaitersAre
  <2>4. \A n \in Mutexes : n # m => suspQ'[n] = suspQ[n]
    BY <2>2 DEF LeftBy
  <2>5. Range(suspQ'[m]) = Range(suspQ[m]) \ {t}
    BY <2>2 DEF LeftBy
  <2>6. \A n \in Mutexes : Range(suspQ'[n]) \subseteq Range(suspQ[n])
    BY <2>4, <2>5
  <2> QED
    BY <1>2, <2>2, <2>3, <2>4, <2>5, <2>6 DEF LeftBy
<1>7. AllWaiters' = U
  BY <1>6 DEF AllWaiters, MutexWaiters, WaitersIn
<1>8. SuspendInv(AllWaiters)'
  BY <1>4, <1>7, MutexWaitingAfter
<1>9. MutexData' /\ DeleteInv'
  BY <1>3 DEF MutexInv, MutexData, DeleteInv, atomCurrentContext
<1>10. WaitOfGet'
  <2>1. ASSUME NEW n \in Mutexes, NEW u \in Range(suspQ'[n])
        PROVE  getting'[u] = n /\ (timoCb'[u] => cbFunc'[u] = n)
    <3>1. u \in Range(suspQ[n]) /\ u \in Threads
      <4>1. u \in Range(suspQ[n])
        BY <1>6, <2>1
      <4>2. suspQ[n] \in Seq(AppThreads)
        BY DEF MutexInv, SuspQueues
      <4> QED
        BY <4>1, <4>2, InRange DEF AppThreads
    <3>2. timoCb'[u] => timoCb[u]
      BY <1>3, <3>1 DEF MutexInv, SuspendInv, KernelInv, KernelTypeOK
    <3> QED
      BY <1>3, <3>1, <3>2 DEF MutexInv, WaitOfGet, MutexWaiters
  <2>2. \A u \in AppThreads : getting'[u] # Null <=> pc'[u] \in {"get", "got"}
    BY <1>3 DEF MutexInv, WaitOfGet
  <2> QED
    BY <2>1, <2>2 DEF WaitOfGet, MutexWaiters
<1>11. OwnershipSound'
  <2>1. \A u \in AppThreads : wakeStatus'[u] = IF u = t THEN "ATOM_TIMEOUT" ELSE wakeStatus[u]
    BY <1>3 DEF Timeout, WakeUp, MutexInv, SuspendInv, KernelInv, KernelTypeOK, AppThreads
  <2>2. getting[t] = m /\ "ATOM_TIMEOUT" # "ATOM_OK"
    BY <1>5 DEF MutexInv, WaitOfGet, MutexWaiters
  <2>3. \A n \in Mutexes : Range(suspQ'[n]) = IF n = m THEN Range(suspQ[n]) \ {t} ELSE Range(suspQ[n])
    BY <1>6
  <2>4. \A n \in Mutexes : HandedOver(n)' = HandedOver(n)
    BY <1>3, <1>5, <2>1, <2>2, <2>3 DEF HandedOver, MutexWaiters
  <2>5. \A n \in Mutexes : owner[n] = Null => suspQ'[n] = <<>>
    <3>1. suspQ[m] \in Seq(AppThreads) /\ suspQ[m] # <<>>
      BY <1>5, InRange DEF MutexInv, SuspQueues
    <3> QED
      BY <1>6, <3>1 DEF MutexInv, OwnershipSound
  <2> QED
    BY <1>3, <2>4, <2>5, SameOwnership DEF MutexInv
<1> QED
  BY <1>6, <1>8, <1>9, <1>10, <1>11 DEF MutexInv

-----------------------------------------------------------------------------

(* Every step keeps the invariant.                                         *)
LEMMA MutexStepInv ==
    ASSUME HandlersPut = FALSE, CallbacksDelete = FALSE, MutexInv, [MutexNext]_allVars
    PROVE  MutexInv'
<1>1. ASSUME NEW c \in Contexts, NEW m \in Mutexes, MayCallMutex(c),
             c = Null => HandlersPut /\ intr # "none", atomMutexPut(c, m)
      PROVE  MutexInv'
  <2>1. c \in AppThreads
    BY <1>1, CallerFacts DEF Contexts
  <2> QED
    BY <1>1, <2>1, PutStayInv, PutHandOverInv DEF atomMutexPut
<1>2. CASE MutexCall
  BY <1>1, <1>2, CreateInv, GetClaimInv, DeleteStartInv DEF MutexCall
<1>3. CASE MutexGetWait
  <2>1. ASSUME NEW t \in AppThreads, MayCall(t),
               \E m \in Mutexes, timeout \in Ticks \cup {0} : MutexGetBlock(t, m, timeout)
        PROVE  MutexInv'
    BY <2>1, GetBlockInv, TicksAssumption
  <2> QED
    BY <1>3, <2>1, GetSchedInv, GetReturnInv DEF MutexGetWait
<1>4. CASE \E c \in Contexts : MutexDeleteStep(c)
  BY <1>4, DeleteWakeInv, DeleteEndInv DEF MutexDeleteStep
<1>5. CASE MutexTimeout
  BY <1>5, TimeoutInv DEF MutexTimeout
<1>6. CASE OtherStep
  BY <1>6, OtherStepInv
<1>7. CASE UNCHANGED allVars
  <2>1. UNCHANGED <<kernelVars, timerVars, owner, count, suspQ, getting, deleting, wokenThreads>>
    BY <1>7 DEF allVars, mutexVars
  <2>2. \A m \in Mutexes : HandedOver(m)' = HandedOver(m)
    BY <2>1 DEF HandedOver, MutexWaiters, kernelVars
  <2>3. OwnershipSound'
    BY <2>1, <2>2, SameOwnership DEF MutexInv, OwnershipSound
  <2> QED
    BY <2>1, <2>3, OwnerOrCount DEF MutexInv, MutexData
<1> QED
  BY <1>2, <1>3, <1>4, <1>5, <1>6, <1>7 DEF MutexNext

(* The invariant holds in every reachable state.                           *)
THEOREM MutexInvariant ==
    HandlersPut = FALSE /\ CallbacksDelete = FALSE => (MutexSpec => []MutexInv)
<1> SUFFICES ASSUME HandlersPut = FALSE, CallbacksDelete = FALSE PROVE MutexSpec => []MutexInv
  OBVIOUS
<1>1. MutexInv /\ [MutexNext]_allVars => MutexInv'
  BY MutexStepInv
<1> QED
  BY <1>1, MutexInitInv, PTL DEF MutexSpec

(* Every live thread is running, ready, in a delay or on one suspend queue,*)
(* and in one of these only, and the queues are in priority order.         *)
THEOREM MutexPlacementHolds ==
    HandlersPut = FALSE /\ CallbacksDelete = FALSE => (MutexSpec => []MutexPlacement)
<1>1. MutexInv => MutexPlacement
  <2> SUFFICES ASSUME MutexInv PROVE MutexPlacement
    OBVIOUS
  <2>1. MutexTypeOK
    BY DEF MutexInv, MutexData, MutexTypeOK, SuspendInv, KernelInv, TimerListInv, SuspQueues
  <2>2. DelayedThreads \cap AllWaiters = {}
    BY DEF MutexInv, SuspendInv, StackTimerInv, DelayedThreads
  <2>3. Placement(DelayedThreads \cup AllWaiters)
    BY DEF MutexInv, SuspendInv, KernelInv, SchedInv, Parked
  <2>4. \A m, n \in Mutexes : m # n => MutexWaiters(m) \cap MutexWaiters(n) = {}
    BY DEF MutexInv, SuspQueues, MutexWaiters
  <2> QED
    BY <2>1, <2>2, <2>3, <2>4 DEF MutexPlacement, MutexInv, SuspQueues
<1> QED
  BY <1>1, MutexInvariant, PTL

(* The timer of a wait is pending while the thread waits for that mutex    *)
(* and not afterwards, when its stack frame is gone.                       *)
THEOREM MutexTimeoutsSound ==
    HandlersPut = FALSE /\ CallbacksDelete = FALSE => (MutexSpec => []TimeoutsSound)
<1>1. MutexInv => TimeoutsSound
  <2> SUFFICES ASSUME MutexInv PROVE TimeoutsSound
    OBVIOUS
  <2>1. ASSUME NEW t \in PendingTimers \cap AppThreads
        PROVE  \/ cbFunc[t] = "delay" /\ pc[t] \in {"delay", "delayed"} /\ suspended[t]
               \/ /\ cbFunc[t] \in Mutexes
                  /\ t \in MutexWaiters(cbFunc[t])
                  /\ pc[t] \in {"get", "got"}
                  /\ timoCb[t]
    <3>1. timoCb[t] /\ suspended[t]
      BY <2>1, ParkedFacts DEF MutexInv, SuspendInv, StackTimerInv
    <3>2. CASE cbFunc[t] = "delay"
      BY <2>1, <3>1, <3>2 DEF MutexInv, SuspendInv, StackTimerInv
    <3>3. CASE cbFunc[t] # "delay"
      <4>1. t \in AllWaiters
        BY <2>1, <3>3 DEF MutexInv, SuspendInv, StackTimerInv
      <4>2. PICK m \in Mutexes : t \in MutexWaiters(m)
        BY <4>1 DEF AllWaiters
      <4> QED
        BY <3>1, <4>1, <4>2 DEF MutexInv, WaitOfGet, SuspendInv, StackTimerInv
    <3> QED
      BY <3>2, <3>3
  <2>2. ASSUME NEW m \in Mutexes, NEW t \in MutexWaiters(m), timoCb[t]
        PROVE  t \in PendingTimers /\ cbFunc[t] = m
    <3>1. t \in AllWaiters
      BY <2>2 DEF AllWaiters
    <3> QED
      BY <2>2, <3>1 DEF MutexInv, WaitOfGet, SuspendInv, StackTimerInv
  <2> QED
    BY <2>1, <2>2 DEF TimeoutsSound, StackTimersSound, TimeoutsArmed
<1> QED
  BY <1>1, MutexInvariant, PTL

(* A mutex has an owner exactly if it has been locked or handed over, it   *)
(* is handed to one thread only, and nobody waits for a free one.          *)
THEOREM OwnershipSoundHolds ==
    HandlersPut = FALSE /\ CallbacksDelete = FALSE => (MutexSpec => []OwnershipSound)
<1>1. MutexInv => OwnershipSound
  BY DEF MutexInv
<1> QED
  BY <1>1, MutexInvariant, PTL

(* Who changes a mutex in a step.                                          *)
MutexFree(m) == \A t \in AppThreads : getting[t] # m
ByOwnerOnly(m) ==
    \/ count'[m] = count[m] /\ owner'[m] = owner[m]
    \/ count'[m] = 0 /\ owner'[m] = Null /\ MutexFree(m)
    \/ atomCurrentContext # Null /\ owner[m] \in {Null, atomCurrentContext}

LEMMA OwnerStep ==
    ASSUME HandlersPut = FALSE, CallbacksDelete = FALSE, MutexInv, [MutexNext]_allVars,
           NEW m \in Mutexes
    PROVE  ByOwnerOnly(m)
<1>1. ASSUME UNCHANGED <<owner, count>> PROVE ByOwnerOnly(m)
  BY <1>1 DEF ByOwnerOnly
<1>2. ASSUME NEW c, c # Null, c = atomCurrentContext, NEW n \in Mutexes, owner[n] \in {Null, c},
             \A k \in Mutexes : k # n => count'[k] = count[k] /\ owner'[k] = owner[k]
      PROVE  ByOwnerOnly(m)
  BY <1>2 DEF ByOwnerOnly
<1>3. DOMAIN count = Mutexes /\ DOMAIN owner = Mutexes
  BY DEF MutexInv, MutexData
<1>4. ASSUME NEW c \in Contexts, NEW n \in Mutexes, MayCallMutex(c), atomMutexCreate(n)
      PROVE  ByOwnerOnly(m)
  BY <1>3, <1>4 DEF atomMutexCreate, ByOwnerOnly, MutexFree
<1>5. ASSUME NEW c \in Contexts, NEW n \in Mutexes, MayCallMutex(c), MutexGetClaim(c, n)
      PROVE  ByOwnerOnly(m)
  <2>1. /\ c # Null /\ c = atomCurrentContext /\ owner[n] \in {Null, c}
        /\ \A k \in Mutexes : k # n => count'[k] = count[k] /\ owner'[k] = owner[k]
    BY <1>3, <1>5, CallerFacts DEF MutexGetClaim
  <2> QED
    BY <1>2, <2>1
<1>6. ASSUME NEW c \in Contexts, NEW n \in Mutexes, MayCallMutex(c),
             c = Null => HandlersPut /\ intr # "none", atomMutexPut(c, n)
      PROVE  ByOwnerOnly(m)
  <2>1. /\ c # Null /\ c = atomCurrentContext /\ owner[n] \in {Null, c}
        /\ \A k \in Mutexes : k # n => count'[k] = count[k] /\ owner'[k] = owner[k]
    BY <1>3, <1>6, CallerFacts
       DEF atomMutexPut, MutexPutNested, MutexPutRelease, MutexPutHandOver
  <2> QED
    BY <1>2, <2>1
<1>7. CASE MutexCall
  <2>1. ASSUME NEW c \in Contexts, NEW n \in Mutexes, MutexDeleteStart(c, n)
        PROVE  UNCHANGED <<owner, count>>
    BY <2>1 DEF MutexDeleteStart
  <2> QED
    BY <1>1, <1>4, <1>5, <1>6, <1>7, <2>1 DEF MutexCall
<1>8. CASE MutexGetWait
  <2>1. ASSUME NEW t \in AppThreads,
               \/ \E n \in Mutexes, timeout \in Ticks \cup {0} : MutexGetBlock(t, n, timeout)
               \/ MutexGetSched(t)
        PROVE  UNCHANGED <<owner, count>>
    BY <2>1 DEF MutexGetBlock, MutexGetSched, mutexVars
  <2>2. ASSUME NEW t \in AppThreads, MutexGetReturn(t) PROVE ByOwnerOnly(m)
    <3>1. atomCurrentContext = t /\ t # Null /\ t \in Threads /\ pc[t] = "got"
      BY <2>2, ThreadsAssumption DEF MutexGetReturn, SuspendReturn, LeaveCall, AppThreads
    <3>2. PICK n \in Mutexes : getting[t] = n
      BY <3>1 DEF MutexInv, WaitOfGet, MutexData
    <3>3. t \notin AllWaiters /\ t \notin MutexWaiters(n)
      BY <3>1, RunningFacts DEF MutexInv, Parked, AllWaiters
    <3>4. owner' = owner
      BY <2>2 DEF MutexGetReturn
    <3>5. CASE wakeStatus[t] = "ATOM_OK"
      <4>1. owner[n] = t
        BY <3>2, <3>3, <3>5 DEF HandedOver, MutexInv, OwnershipSound
      <4>2. \A k \in Mutexes : k # n => count'[k] = count[k]
        BY <1>3, <2>2, <3>2, <3>5 DEF MutexGetReturn
      <4> QED
        BY <1>2, <3>1, <3>4, <4>1, <4>2
    <3>6. CASE wakeStatus[t] # "ATOM_OK"
      BY <1>1, <2>2, <3>4, <3>6 DEF MutexGetReturn
    <3> QED
      BY <3>5, <3>6
  <2> QED
    BY <1>1, <1>8, <2>1, <2>2 DEF MutexGetWait
<1>9. CASE \/ \E c \in Contexts : MutexDeleteStep(c)
           \/ MutexTimeout
           \/ OtherStep
  BY <1>1, <1>9 DEF MutexDeleteStep, MutexDeleteWake, MutexDeleteEnd, MutexTimeout,
                    atomMutexTimerCallback, OtherStep, mutexVars
<1>10. CASE UNCHANGED allVars
  BY <1>1, <1>10 DEF allVars, mutexVars
<1> QED
  BY <1>7, <1>8, <1>9, <1>10 DEF MutexNext

(* "No thread other than the owner can lock or unlock the mutex": but for  *)
(* its creation, a mutex is changed by its owner, or, if it has none, by   *)
(* the thread that locks it; the lock a new owner counts outside of its    *)
(* critical section included.                                              *)
THEOREM OwnerOnlyHolds ==
    HandlersPut = FALSE /\ CallbacksDelete = FALSE => (MutexSpec => OwnerOnly)
<1> SUFFICES ASSUME HandlersPut = FALSE, CallbacksDelete = FALSE PROVE MutexSpec => OwnerOnly
  OBVIOUS
<1>1. MutexInv /\ [MutexNext]_allVars =>
        [ \A m \in Mutexes :
          \/ count'[m] = count[m] /\ owner'[m] = owner[m]
          \/ count'[m] = 0 /\ owner'[m] = Null /\ \A t \in AppThreads : getting[t] # m
          \/ /\ atomCurrentContext # Null
             /\ owner[m] \in {Null, atomCurrentContext} ]_allVars
  BY OwnerStep DEF ByOwnerOnly, MutexFree
<1>2. MutexSpec => []MutexInv
  BY MutexInvariant
<1> QED
  BY <1>1, <1>2, PTL DEF MutexSpec, OwnerOnly

-----------------------------------------------------------------------------

(* The variables of the abstract mutexes.                                  *)
Timed == { t \in AllWaiters : timoCb[t] }
OutcomeOf(t) ==
    IF getting[t] # Null /\ t \notin AllWaiters THEN wakeStatus[t] ELSE "none"
Outcome == [t \in AppThreads |-> OutcomeOf(t)]
Depth == [m \in Mutexes |-> IF HandedOver(m) # {} THEN count[m] + 1 ELSE count[m]]
abstractVars == <<WaitingView(suspQ, Mutexes), TiesView(suspQ, Mutexes), Timed, Outcome>>

(* The depth follows from owner and count: a mutex with an owner and a     *)
(* count of zero has been handed over.                                     *)
DepthFrom(o, k) == IF o # Null /\ k = 0 THEN 1 ELSE k

LEMMA DepthIs ==
    /\ MutexInv => Depth = [m \in Mutexes |-> DepthFrom(owner[m], count[m])]
    /\ MutexInv' => Depth' = [m \in Mutexes |-> DepthFrom(owner'[m], count'[m])]
<1>1. ASSUME MutexInv, NEW m \in Mutexes
      PROVE  (IF HandedOver(m) # {} THEN count[m] + 1 ELSE count[m])
                 = DepthFrom(owner[m], count[m])
  <2>1. /\ count[m] \in Nat
        /\ owner[m] # Null <=> count[m] > 0 \/ HandedOver(m) # {}
        /\ HandedOver(m) # {} => count[m] = 0
    BY <1>1, MaxCountAssumption DEF MutexInv, MutexData, OwnershipSound
  <2> QED
    BY <2>1 DEF DepthFrom
<1>2. ASSUME MutexInv', NEW m \in Mutexes
      PROVE  (IF HandedOver(m)' # {} THEN count'[m] + 1 ELSE count'[m])
                 = DepthFrom(owner'[m], count'[m])
  <2>1. /\ count'[m] \in Nat
        /\ owner'[m] # Null <=> count'[m] > 0 \/ HandedOver(m)' # {}
        /\ HandedOver(m)' # {} => count'[m] = 0
    BY <1>2, MaxCountAssumption DEF MutexInv, MutexData, OwnershipSound
  <2> QED
    BY <2>1 DEF DepthFrom
<1> QED
  BY <1>1, <1>2 DEF Depth

LEMMA SameDepth ==
    ASSUME MutexInv, MutexInv', UNCHANGED <<owner, count>>
    PROVE  Depth' = Depth
  BY DepthIs

(* A step that touches no queue and no get.                                *)
LEMMA WaitsUntouched ==
    ASSUME UNCHANGED <<suspQ, wakeStatus, getting>>,
           \A t \in AllWaiters : timoCb'[t] = timoCb[t]
    PROVE  UNCHANGED abstractVars
<1>1. AllWaiters' = AllWaiters
  BY DEF AllWaiters, MutexWaiters
<1>2. Timed' = Timed
  BY <1>1 DEF Timed
<1>3. \A t \in AppThreads : OutcomeOf(t)' = OutcomeOf(t)
  BY <1>1 DEF OutcomeOf
<1>4. Outcome' = Outcome
  BY <1>3 DEF Outcome
<1>5. UNCHANGED <<WaitingView(suspQ, Mutexes), TiesView(suspQ, Mutexes)>>
  BY DEF WaitingView, TiesView
<1> QED
  BY <1>2, <1>4, <1>5 DEF abstractVars

LEMMA WaitVarsAre == UNCHANGED abstractVars => UNCHANGED Abstract!waitVars
  BY DEF abstractVars, Abstract!waitVars, WaitingView, TiesView, Timed, Outcome, OutcomeOf

(* A get that blocks joins the abstract queue.                             *)
LEMMA BlockJoins ==
    ASSUME MutexInv, MutexInv', NEW t \in AppThreads, NEW m \in Mutexes, NEW timeout \in Nat,
           MayCall(t), MutexGetBlock(t, m, timeout)
    PROVE  Abstract!Wait(t, m)
<1>1. /\ owner[m] \notin {Null, t} /\ UNCHANGED <<owner, count>> /\ pc[t] = "app"
      /\ Suspend(t, m, timeout)
      /\ suspQ' = [suspQ EXCEPT ![m] = tcbEnqueuePriority(suspQ[m], t)]
      /\ getting' = [getting EXCEPT ![t] = m]
      /\ m # "delay" /\ m # Null /\ t \in Threads
  BY MutexesAssumption, ThreadsAssumption DEF MutexGetBlock, MayCall, AppThreads
<1>2. t \notin AllWaiters
  BY <1>1, SuspendPreserves DEF MutexInv, Parked
<1>3. UpdatedAt(suspQ, Mutexes, m, tcbEnqueuePriority(suspQ[m], t), suspQ')
  BY <1>1 DEF MutexInv, SuspQueues, UpdatedAt, IsFunction
<1>4. /\ WaitingView(suspQ', Mutexes) = [WaitingView(suspQ, Mutexes) EXCEPT ![m] = @ \cup {t}]
      /\ TiesView(suspQ', Mutexes) = [TiesView(suspQ, Mutexes) EXCEPT ![m] =
             @ \cup ({ u \in WaitingView(suspQ, Mutexes)[m] : Prio[u] = Prio[t] } \X {t})]
  BY <1>2, <1>3, JoinView, MutexWaitersAre DEF MutexInv
<1>5. AllWaiters' = AllWaiters \cup {t}
  <2>1. WaitersIn(suspQ', Mutexes) = WaitersIn(suspQ, Mutexes) \cup {t}
    BY <1>2, <1>3, JoinQueue, MutexWaitersAre DEF MutexInv
  <2> QED
    BY <2>1, MutexWaitersAre DEF AllWaiters, MutexWaiters, WaitersIn
<1>6. /\ wakeStatus' = wakeStatus
      /\ \A u \in Threads : u # t => timoCb'[u] = timoCb[u]
      /\ getting[t] = Null
      /\ \A u \in AppThreads : getting'[u] = IF u = t THEN m ELSE getting[u]
  BY <1>1 DEF Suspend, MutexInv, SuspendInv, KernelInv, KernelTypeOK, MutexData, WaitOfGet
<1>7. Timed' \in {Timed, Timed \cup {t}}
  BY <1>2, <1>5, <1>6, ParkedFacts DEF Timed, MutexInv, Parked
<1>8. Outcome' = Outcome /\ Outcome[t] = "none"
  <2>1. \A u \in AppThreads : OutcomeOf(u)' = OutcomeOf(u)
    BY <1>5, <1>6 DEF OutcomeOf
  <2>2. OutcomeOf(t) = "none"
    BY <1>6 DEF OutcomeOf
  <2> QED
    BY <2>1, <2>2 DEF Outcome
<1>9. t \notin Abstract!Waiting
  BY <1>2 DEF Abstract!Waiting, AllWaiters, MutexWaiters
<1>10. Depth' = Depth
  BY <1>1, SameDepth
<1> QED
  BY <1>1, <1>4, <1>7, <1>8, <1>9, <1>10
     DEF Abstract!Wait, Abstract!Join, WaitingView, TiesView, Timed, Outcome, OutcomeOf, Depth

(* A thread that leaves a queue with a status has it as its outcome.       *)
LEMMA Departed ==
    ASSUME MutexInv, NEW t \in AllWaiters, NEW status,
           AllWaiters' = AllWaiters \ {t},
           wakeStatus' = [wakeStatus EXCEPT ![t] = status],
           timoCb' = [timoCb EXCEPT ![t] = FALSE],
           getting' = getting
    PROVE  Timed' = Timed \ {t} /\ Outcome' = [Outcome EXCEPT ![t] = status]
<1>1. AllWaiters \subseteq AppThreads /\ AppThreads \subseteq Threads
  BY ParkedFacts DEF MutexInv, Parked, AppThreads
<1>2. getting[t] # Null
  BY MutexesAssumption DEF MutexInv, WaitOfGet, AllWaiters
<1>3. /\ \A u \in AppThreads : timoCb'[u] = IF u = t THEN FALSE ELSE timoCb[u]
      /\ \A u \in AppThreads : wakeStatus'[u] = IF u = t THEN status ELSE wakeStatus[u]
  BY <1>1 DEF MutexInv, SuspendInv, KernelInv, KernelTypeOK
<1>4. Timed' = Timed \ {t}
  BY <1>1, <1>3 DEF Timed
<1>5. \A u \in AppThreads : OutcomeOf(u)' = IF u = t THEN status ELSE OutcomeOf(u)
  BY <1>1, <1>2, <1>3 DEF OutcomeOf
<1>6. Outcome' = [Outcome EXCEPT ![t] = status]
  BY <1>5 DEF Outcome
<1> QED
  BY <1>4, <1>6

(* The head of a queue waits.                                              *)
LEMMA HeadWaits ==
    ASSUME MutexInv, NEW m \in Mutexes, suspQ[m] # <<>>
    PROVE  tcbDequeueHead(suspQ[m]).tcb \in AllWaiters
<1>1. suspQ[m] \in Seq(AppThreads)
  BY DEF MutexInv, SuspQueues
<1>2. Head(suspQ[m]) \in Range(suspQ[m])
  BY <1>1, TailProperties
<1> QED
  BY <1>2 DEF tcbDequeueHead, AllWaiters, MutexWaiters

(* Who is woken by a put or a deletion leaves as the first in line; its    *)
(* timeout is cancelled, for no callback is due outside of the tick.       *)
LEMMA HeadLeaves ==
    ASSUME MutexInv, NEW m \in Mutexes, suspQ[m] # <<>>, NEW status, NEW t,
           t = tcbDequeueHead(suspQ[m]).tcb, intr # "tick",
           suspQ' = [suspQ EXCEPT ![m] = tcbDequeueHead(suspQ[m]).queue],
           wakeStatus' = [wakeStatus EXCEPT ![t] = status],
           CancelTimeout(t), getting' = getting
    PROVE  t \in AppThreads /\ Abstract!FirstInLine(t, m) /\ Abstract!Leave(t, m, status)
<1>1. UpdatedAt(suspQ, Mutexes, m, tcbDequeueHead(suspQ[m]).queue, suspQ')
  BY DEF MutexInv, SuspQueues, UpdatedAt, IsFunction
<1>2. /\ t \in AppThreads /\ t \in AllWaiters
      /\ LeftBy(suspQ, Mutexes, m, t, suspQ')
  BY <1>1, LeaveHead, MutexWaitersAre DEF MutexInv
<1>3. LeavesView(suspQ, Mutexes, m, t, suspQ') /\ FirstInView(suspQ, Mutexes, m, t)
  BY <1>1, HeadView DEF MutexInv
<1>4. AllWaiters' = AllWaiters \ {t}
  BY <1>2, MutexWaitersAre DEF LeftBy, AllWaiters, MutexWaiters, WaitersIn
<1>5. timoCb' = [timoCb EXCEPT ![t] = FALSE]
  <2>1. ~ CancelTimeoutFails(t)
    BY <1>2, CancelSucceeds DEF MutexInv
  <2> QED
    BY <2>1 DEF CancelTimeout
<1>6. Timed' = Timed \ {t} /\ Outcome' = [Outcome EXCEPT ![t] = status]
  BY <1>2, <1>4, <1>5, Departed
<1> QED
  BY <1>2, <1>3, <1>6
     DEF Abstract!FirstInLine, Abstract!Leave, LeavesView, FirstInView, WaitingView, TiesView,
         Timed, Outcome, OutcomeOf

(* A timeout expires.                                                      *)
LEMMA TimeoutExpires ==
    ASSUME MutexInv, NEW t \in AppThreads, NEW m \in Mutexes, atomMutexTimerCallback(t, m)
    PROVE  Abstract!Expire(t, m)
<1>1. /\ Timeout(t, m) /\ m # "delay" /\ cbFunc[t] = m
      /\ suspQ' = [suspQ EXCEPT ![m] = tcbDequeueEntry(suspQ[m], t).queue]
      /\ timoCb' = [timoCb EXCEPT ![t] = FALSE] /\ getting' = getting
      /\ wakeStatus' = [wakeStatus EXCEPT ![t] = "ATOM_TIMEOUT"]
  BY MutexesAssumption DEF atomMutexTimerCallback, Timeout, CallbackDue, WakeUp
<1>2. t \in AllWaiters /\ timoCb[t]
  <2>1. t \in AllWaiters
    BY <1>1, TimeoutPreserves DEF MutexInv
  <2>2. t \in PendingTimers
    BY <1>1, CallbackDueFacts DEF MutexInv, Timeout
  <2> QED
    BY <2>1, <2>2 DEF MutexInv, SuspendInv, StackTimerInv
<1>3. t \in Range(suspQ[m])
  BY <1>1, <1>2 DEF MutexInv, WaitOfGet, AllWaiters, MutexWaiters
<1>4. UpdatedAt(suspQ, Mutexes, m, tcbDequeueEntry(suspQ[m], t).queue, suspQ')
  BY <1>1 DEF MutexInv, SuspQueues, UpdatedAt, IsFunction
<1>5. LeavesView(suspQ, Mutexes, m, t, suspQ') /\ LeftBy(suspQ, Mutexes, m, t, suspQ')
  BY <1>3, <1>4, EntryView, LeaveEntry DEF MutexInv
<1>6. AllWaiters' = AllWaiters \ {t}
  BY <1>5, MutexWaitersAre DEF LeftBy, AllWaiters, MutexWaiters, WaitersIn
<1>7. Timed' = Timed \ {t} /\ Outcome' = [Outcome EXCEPT ![t] = "ATOM_TIMEOUT"]
  BY <1>1, <1>2, <1>6, Departed
<1> QED
  BY <1>2, <1>3, <1>5, <1>7
     DEF Abstract!Expire, Abstract!Leave, LeavesView, WaitingView, TiesView, Timed, Outcome,
         OutcomeOf

(* The return from atomMutexGet hands the outcome over; the lock that a    *)
(* new owner counts was granted before.                                    *)
LEMMA ReturnReturns ==
    ASSUME MutexInv, MutexInv', NEW t \in AppThreads, MutexGetReturn(t)
    PROVE  Abstract!Return(t) /\ UNCHANGED <<owner, Depth>>
<1>1. /\ atomCurrentContext = t /\ t \in Threads /\ pc[t] = "got"
      /\ getting' = [getting EXCEPT ![t] = Null]
      /\ UNCHANGED <<suspQ, wakeStatus, timoCb, owner>>
  BY DEF MutexGetReturn, SuspendReturn, LeaveCall, AppThreads
<1>2. PICK m \in Mutexes : getting[t] = m
  BY <1>1 DEF MutexInv, WaitOfGet, MutexData
<1>3. t \notin AllWaiters /\ t \notin MutexWaiters(m)
  BY <1>1, <1>2, RunningFacts DEF MutexInv, Parked, AllWaiters
<1>4. AllWaiters' = AllWaiters
  BY <1>1 DEF AllWaiters, MutexWaiters
<1>5. wakeStatus[t] # "none"
  BY <1>1 DEF MutexInv, SuspendInv, KernelInv, KernelTypeOK, WakeStatus
<1>6. /\ OutcomeOf(t) # "none"
      /\ \A u \in AppThreads : OutcomeOf(u)' = IF u = t THEN "none" ELSE OutcomeOf(u)
  BY <1>1, <1>2, <1>3, <1>4, <1>5, MutexesAssumption DEF OutcomeOf, MutexInv, MutexData
<1>7. Outcome[t] # "none" /\ Outcome' = [Outcome EXCEPT ![t] = "none"]
  BY <1>6 DEF Outcome
<1>8. Timed' = Timed /\ UNCHANGED <<WaitingView(suspQ, Mutexes), TiesView(suspQ, Mutexes)>>
  BY <1>1, <1>4 DEF Timed, WaitingView, TiesView
<1>9. Depth' = Depth
  <2>1. CASE wakeStatus[t] # "ATOM_OK"
    BY <1>1, <2>1, SameDepth DEF MutexGetReturn
  <2>2. CASE wakeStatus[t] = "ATOM_OK"
    <3>1. t \in HandedOver(m)
      BY <1>2, <1>3, <2>2 DEF HandedOver
    <3>2. count[m] = 0 /\ owner[m] = t /\ t # Null
      BY <1>1, <3>1, ThreadsAssumption DEF MutexInv, OwnershipSound
    <3>3. (0 + 1) % (MaxCount + 1) = 1
      <4>1. \A n, a \in Nat : a < n => a % n = a
        OBVIOUS
      <4> QED
        BY <4>1, MaxCountAssumption
    <3>4. count' = [count EXCEPT ![m] = 1] /\ DOMAIN count = Mutexes
      BY <1>2, <2>2, <3>2, <3>3 DEF MutexGetReturn, MutexInv, MutexData
    <3>5. \A n \in Mutexes : DepthFrom(owner'[n], count'[n]) = DepthFrom(owner[n], count[n])
      BY <1>1, <3>2, <3>4 DEF DepthFrom
    <3> QED
      BY <3>5, DepthIs
  <2> QED
    BY <2>1, <2>2
<1> QED
  BY <1>1, <1>7, <1>8, <1>9
     DEF Abstract!Return, WaitingView, TiesView, Timed, Outcome, OutcomeOf

(* A lock that does not block.                                             *)
LEMMA ClaimLocks ==
    ASSUME MutexInv, MutexInv', NEW c \in Contexts, NEW m \in Mutexes, MayCallMutex(c),
           MutexGetClaim(c, m)
    PROVE  c \in AppThreads /\ Abstract!Lock(c, m)
<1>1. c \in AppThreads /\ getting[c] = Null /\ c # Null
  BY CallerFacts DEF MutexGetClaim, Contexts
<1>2. owner[m] = c <=> count[m] > 0
  BY <1>1, OwnerFacts DEF MutexGetClaim
<1>3. /\ owner \in [Mutexes -> AppThreads \cup {Null}] /\ count \in [Mutexes -> Nat]
      /\ owner[m] \in {Null, c} /\ count[m] < MaxCount
      /\ owner' = [owner EXCEPT ![m] = c] /\ count' = [count EXCEPT ![m] = count[m] + 1]
      /\ UNCHANGED <<suspQ, wakeStatus, getting, timoCb>>
  BY MaxCountAssumption DEF MutexGetClaim, MutexInv, MutexData, kernelVars
<1>4. Depth[m] = count[m] /\ Depth' = [Depth EXCEPT ![m] = count[m] + 1]
  <2>1. /\ DepthFrom(owner[m], count[m]) = count[m]
        /\ \A n \in Mutexes : DepthFrom(owner'[n], count'[n]) =
                IF n = m THEN count[m] + 1 ELSE DepthFrom(owner[n], count[n])
    BY <1>2, <1>3 DEF DepthFrom
  <2> QED
    BY <2>1, DepthIs
<1>5. UNCHANGED Abstract!waitVars
  BY <1>3, WaitsUntouched, WaitVarsAre
<1> QED
  BY <1>1, <1>3, <1>4, <1>5 DEF Abstract!Lock, Depth

(* A put of the owner.                                                     *)
LEMMA PutUnlocks ==
    ASSUME MutexInv, MutexInv', NEW c \in AppThreads, NEW m \in Mutexes, MayCallMutex(c),
           atomMutexPut(c, m)
    PROVE  Abstract!Unlock(c, m)
<1>1. /\ owner[m] = c /\ c # Null /\ HandedOver(m) = {}
      /\ count[m] \in 1..MaxCount /\ CountAfterPut(m) = count[m] - 1
      /\ intr # "tick"
  <2>1. owner[m] = c /\ getting[c] = Null /\ c # Null /\ intr # "tick"
    BY CallerFacts, ThreadsAssumption
       DEF atomMutexPut, MutexPutNested, MutexPutRelease, MutexPutHandOver, Contexts, AppThreads
  <2>2. HandedOver(m) = {} /\ count[m] > 0
    BY <2>1, OwnerFacts
  <2>3. count[m] \in 1..MaxCount
    BY <2>2, MaxCountAssumption DEF MutexInv, MutexData
  <2> QED
    BY <2>1, <2>2, <2>3, CountOfPut
<1>2. /\ owner \in [Mutexes -> AppThreads \cup {Null}] /\ count \in [Mutexes -> Nat]
      /\ Null \notin AppThreads
  BY MaxCountAssumption, ThreadsAssumption DEF MutexInv, MutexData, AppThreads
<1>3. Depth[m] = count[m]
  BY <1>1 DEF Depth
<1>4. CASE MutexPutNested(c, m)
  <2>1. /\ count' = [count EXCEPT ![m] = count[m] - 1] /\ count[m] > 1 /\ owner' = owner
        /\ UNCHANGED <<suspQ, wakeStatus, getting, timoCb>>
    BY <1>1, <1>4 DEF MutexPutNested, kernelVars
  <2>2. \A n \in Mutexes : DepthFrom(owner'[n], count'[n]) =
            IF n = m THEN count[m] - 1 ELSE DepthFrom(owner[n], count[n])
    BY <1>1, <1>2, <2>1 DEF DepthFrom
  <2>3. Depth' = [Depth EXCEPT ![m] = count[m] - 1]
    BY <2>2, DepthIs
  <2>4. UNCHANGED Abstract!waitVars
    BY <2>1, WaitsUntouched, WaitVarsAre
  <2> QED
    BY <1>1, <1>3, <2>1, <2>3, <2>4 DEF Abstract!Unlock, Depth
<1>5. CASE MutexPutRelease(c, m)
  <2>1. /\ count' = [count EXCEPT ![m] = 0] /\ count[m] = 1 /\ suspQ[m] = <<>>
        /\ owner' = [owner EXCEPT ![m] = Null]
        /\ UNCHANGED <<suspQ, wakeStatus, getting, timoCb>>
    BY <1>1, <1>5 DEF MutexPutRelease, kernelVars
  <2>2. \A n \in Mutexes : DepthFrom(owner'[n], count'[n]) =
            IF n = m THEN 0 ELSE DepthFrom(owner[n], count[n])
    BY <1>1, <1>2, <2>1 DEF DepthFrom
  <2>3. Depth' = [Depth EXCEPT ![m] = 0]
    BY <2>2, DepthIs
  <2>4. UNCHANGED Abstract!waitVars
    BY <2>1, WaitsUntouched, WaitVarsAre
  <2>5. Range(suspQ[m]) = {}
    BY <2>1 DEF Range
  <2> QED
    BY <1>1, <1>3, <2>1, <2>3, <2>4, <2>5 DEF Abstract!Unlock, Depth
<1>6. CASE MutexPutHandOver(c, m)
  <2>1. PICK t : t = tcbDequeueHead(suspQ[m]).tcb
    OBVIOUS
  <2>2. /\ suspQ[m] # <<>> /\ suspQ' = [suspQ EXCEPT ![m] = tcbDequeueHead(suspQ[m]).queue]
        /\ wakeStatus' = [wakeStatus EXCEPT ![t] = "ATOM_OK"] /\ CancelTimeout(t)
        /\ getting' = getting
        /\ count' = [count EXCEPT ![m] = 0] /\ count[m] = 1
        /\ owner' = [owner EXCEPT ![m] = t]
    BY <1>1, <1>6, <2>1 DEF MutexPutHandOver, WakeUp
  <2>3. t \in AppThreads /\ Abstract!FirstInLine(t, m) /\ Abstract!Leave(t, m, "ATOM_OK")
    BY <1>1, <2>1, <2>2, HeadLeaves
  <2>4. \A n \in Mutexes : DepthFrom(owner'[n], count'[n]) = DepthFrom(owner[n], count[n])
    BY <1>1, <1>2, <2>2, <2>3 DEF DepthFrom
  <2>5. Depth' = Depth
    BY <2>4, DepthIs
  <2> QED
    BY <1>1, <1>3, <2>2, <2>3, <2>5 DEF Abstract!Unlock, Depth
<1> QED
  BY <1>4, <1>5, <1>6 DEF atomMutexPut

(* A mutex is created anew.                                                *)
LEMMA CreateCreates ==
    ASSUME MutexInv, MutexInv', NEW m \in Mutexes, atomMutexCreate(m)
    PROVE  Abstract!Create(m)
<1>1. suspQ[m] = <<>> /\ suspQ \in [Mutexes -> Seq(AppThreads)]
  <2>1. suspQ \in [Mutexes -> Seq(AppThreads)] /\ \A t \in AppThreads : getting[t] # m
    BY DEF atomMutexCreate, MutexInv, SuspQueues
  <2>2. ASSUME suspQ[m] # <<>> PROVE FALSE
    BY <2>1, <2>2, TailProperties DEF MutexInv, WaitOfGet, MutexWaiters
  <2> QED
    BY <2>1, <2>2
<1>2. /\ owner' = [owner EXCEPT ![m] = Null] /\ count' = [count EXCEPT ![m] = 0]
      /\ UNCHANGED <<suspQ, wakeStatus, getting, timoCb>>
      /\ DOMAIN owner = Mutexes /\ DOMAIN count = Mutexes
  BY <1>1 DEF atomMutexCreate, kernelVars, MutexInv, MutexData
<1>3. \A n \in Mutexes : DepthFrom(owner'[n], count'[n]) =
          IF n = m THEN 0 ELSE DepthFrom(owner[n], count[n])
  BY <1>2 DEF DepthFrom
<1>4. Depth' = [Depth EXCEPT ![m] = 0]
  BY <1>3, DepthIs
<1>5. UNCHANGED Abstract!waitVars
  BY <1>2, WaitsUntouched, WaitVarsAre
<1>6. Range(suspQ[m]) = {}
  BY <1>1 DEF Range
<1> QED
  BY <1>2, <1>4, <1>5, <1>6 DEF Abstract!Create, Depth

(* Every step is one of the abstract mutexes or leaves them alone.         *)
LEMMA AbstractStep ==
    ASSUME HandlersPut = FALSE, CallbacksDelete = FALSE, MutexInv, MutexInv',
           [MutexNext]_allVars
    PROVE  Abstract!Next \/ UNCHANGED <<owner, Depth, abstractVars>>
<1>1. ASSUME UNCHANGED <<suspQ, wakeStatus, getting, owner, count>>,
             \A t \in AllWaiters : timoCb'[t] = timoCb[t]
      PROVE  UNCHANGED <<owner, Depth, abstractVars>>
  BY <1>1, WaitsUntouched, SameDepth
<1>2. CASE MutexCall
  <2>1. ASSUME NEW m \in Mutexes, atomMutexCreate(m) PROVE Abstract!Next
    BY <2>1, CreateCreates DEF Abstract!Next
  <2>2. ASSUME NEW c \in Contexts, NEW m \in Mutexes, MayCallMutex(c), MutexGetClaim(c, m)
        PROVE  Abstract!Next
    BY <2>2, ClaimLocks DEF Abstract!Next
  <2>3. ASSUME NEW c \in Contexts, NEW m \in Mutexes, MayCallMutex(c),
               c = Null => HandlersPut /\ intr # "none", atomMutexPut(c, m)
        PROVE  Abstract!Next
    <3>1. c \in AppThreads
      BY <2>3, CallerFacts DEF Contexts
    <3> QED
      BY <2>3, <3>1, PutUnlocks DEF Abstract!Next
  <2>4. ASSUME NEW c \in Contexts, NEW m \in Mutexes, MutexDeleteStart(c, m)
        PROVE  UNCHANGED <<owner, Depth, abstractVars>>
    BY <1>1, <2>4 DEF MutexDeleteStart
  <2> QED
    BY <1>2, <2>1, <2>2, <2>3, <2>4 DEF MutexCall
<1>3. CASE MutexGetWait
  <2>1. ASSUME NEW t \in AppThreads, NEW m \in Mutexes, NEW timeout \in Ticks \cup {0},
               MayCall(t), MutexGetBlock(t, m, timeout)
        PROVE  Abstract!Next
    BY <2>1, BlockJoins, TicksAssumption DEF Abstract!Next
  <2>2. ASSUME NEW t \in AppThreads, MutexGetSched(t)
        PROVE  UNCHANGED <<owner, Depth, abstractVars>>
    BY <1>1, <2>2 DEF MutexGetSched, SuspendSched, CallSched, mutexVars
  <2>3. ASSUME NEW t \in AppThreads, MutexGetReturn(t) PROVE Abstract!Next
    <3>1. Abstract!Return(t) /\ UNCHANGED <<owner, Depth>>
      BY <2>3, ReturnReturns
    <3> QED
      BY <3>1 DEF Abstract!Next, Abstract!WaitNext, Depth
  <2> QED
    BY <1>3, <2>1, <2>2, <2>3 DEF MutexGetWait
<1>4. CASE \E c \in Contexts : MutexDeleteStep(c)
  <2>1. ASSUME NEW c \in Contexts, NEW m \in Mutexes, MutexDeleteWake(c, m)
        PROVE  Abstract!Next
    <3>1. PICK t : t = tcbDequeueHead(suspQ[m]).tcb
      OBVIOUS
    <3>2. /\ suspQ[m] # <<>> /\ suspQ' = [suspQ EXCEPT ![m] = tcbDequeueHead(suspQ[m]).queue]
          /\ wakeStatus' = [wakeStatus EXCEPT ![t] = "ATOM_ERR_DELETED"] /\ CancelTimeout(t)
          /\ UNCHANGED <<getting, owner, count>> /\ intr # "tick"
      BY <2>1, <3>1, DeleterFacts DEF MutexDeleteWake, WakeUp
    <3>3. /\ t \in AppThreads /\ Abstract!FirstInLine(t, m)
          /\ Abstract!Leave(t, m, "ATOM_ERR_DELETED")
      BY <3>1, <3>2, HeadLeaves
    <3>4. Depth' = Depth
      BY <3>2, SameDepth
    <3> QED
      BY <3>2, <3>3, <3>4 DEF Abstract!Next, Abstract!WaitNext, Abstract!DeleteOne, Depth
  <2>2. ASSUME NEW c \in Contexts, NEW m \in Mutexes, MutexDeleteEnd(c, m)
        PROVE  UNCHANGED <<owner, Depth, abstractVars>>
    BY <1>1, <2>2 DEF MutexDeleteEnd
  <2> QED
    BY <1>4, <2>1, <2>2 DEF MutexDeleteStep
<1>5. CASE MutexTimeout
  <2>1. PICK t \in AppThreads, m \in Mutexes : atomMutexTimerCallback(t, m)
    BY <1>5 DEF MutexTimeout
  <2>2. Abstract!Expire(t, m) /\ UNCHANGED <<owner, count>>
    BY <2>1, TimeoutExpires DEF atomMutexTimerCallback
  <2>3. Depth' = Depth
    BY <2>2, SameDepth
  <2> QED
    BY <2>2, <2>3 DEF Abstract!Next, Abstract!WaitNext, Depth
<1>6. CASE OtherStep
  <2>1. /\ TimerNext /\ UNCHANGED <<owner, count, suspQ, getting>> /\ SuspendInv(AllWaiters)
    BY <1>6 DEF OtherStep, mutexVars, MutexInv
  <2>2. /\ wakeStatus' = wakeStatus
        /\ \A t \in AllWaiters : timoCb'[t] = timoCb[t]
    BY <2>1, TimerNextFrame
  <2> QED
    BY <1>1, <2>1, <2>2
<1>7. CASE UNCHANGED allVars
  BY <1>1, <1>7 DEF allVars, kernelVars, mutexVars
<1> QED
  BY <1>2, <1>3, <1>4, <1>5, <1>6, <1>7 DEF MutexNext

(* The mutex code implements the abstract mutexes, for any number of       *)
(* threads and mutexes, any priorities and any depth: a mutex is held by   *)
(* one thread at a time, goes from its last unlock to the first in line    *)
(* without ever being free, and every granted lock is counted once, though *)
(* a new owner counts it later and outside of its critical section.        *)
THEOREM MutexImplementsMutex ==
    HandlersPut = FALSE /\ CallbacksDelete = FALSE => (MutexSpec => ImplementsMutex)
<1> SUFFICES ASSUME HandlersPut = FALSE, CallbacksDelete = FALSE
             PROVE  MutexSpec => ImplementsMutex
  OBVIOUS
<1>1. MutexInit => Abstract!Init
  <2> SUFFICES ASSUME MutexInit PROVE Abstract!Init
    OBVIOUS
  <2>1. /\ owner = [m \in Mutexes |-> Null] /\ \A m \in Mutexes : count[m] = 0
        /\ \A m \in Mutexes : suspQ[m] = <<>>
        /\ \A t \in AppThreads : getting[t] = Null
    BY DEF MutexInit, MutexLibInit
  <2>2. \A m \in Mutexes : Range(suspQ[m]) = {} /\ TiesInOrder(suspQ[m]) = {}
    BY <2>1 DEF Range, TiesInOrder
  <2>3. AllWaiters = {}
    BY <2>2 DEF AllWaiters, MutexWaiters
  <2>4. \A m \in Mutexes : HandedOver(m) = {}
    BY <2>1, MutexesAssumption DEF HandedOver
  <2> QED
    BY <2>1, <2>2, <2>3, <2>4 DEF Abstract!Init, Abstract!WaitInit
<1>2. MutexInv /\ MutexInv' /\ [MutexNext]_allVars =>
          [Abstract!Next]_<<owner, Depth, Abstract!waitVars>>
  <2> SUFFICES ASSUME MutexInv, MutexInv', [MutexNext]_allVars
               PROVE  [Abstract!Next]_<<owner, Depth, Abstract!waitVars>>
    OBVIOUS
  <2> QED
    BY AbstractStep, WaitVarsAre
<1>3. MutexSpec => []MutexInv
  BY MutexInvariant
<1> QED
  BY <1>1, <1>2, <1>3, PTL DEF MutexSpec, ImplementsMutex, Abstract!Spec, Depth
=============================================================================
