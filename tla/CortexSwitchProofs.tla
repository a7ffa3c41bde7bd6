------------------------- MODULE CortexSwitchProofs -------------------------
(***************************************************************************)
(* Theorems about CortexSwitch: nested handlers and the deferred switch,   *)
(* for all threads, priorities and interrupt sources.  The kernel's part   *)
(* of the invariant is KernelInv of AtomKernelProofs, with the threads     *)
(* that wait on the object of the kernel parked.                           *)
(***************************************************************************)
EXTENDS CortexSwitch, AtomKernelProofs

(* The object's list and the handlers; intr follows from the latter.       *)
ListInv == suspQ \in Seq(AppThreads) /\ IsTcbQueue(suspQ)
HandlersInv ==
    /\ handlers \in Seq(Handler)
    /\ intr = IntrOf(handlers)
    /\ ~ started => handlers = <<>>

(* The registers.  No thread ends, so one that has been created can always *)
(* be switched to.                                                         *)
RegsInv ==
    /\ \A t \in Threads : ~ terminated[t]
    /\ pendSV \in BOOLEAN
    /\ saved \in [Threads -> Contexts]
    /\ IF started
         THEN /\ runningTcb \in LiveThreads
              /\ nextTcb = curr
              /\ regs = runningTcb
              /\ regs # curr => pendSV
         ELSE runningTcb = Null /\ nextTcb = Null /\ regs = Null
    /\ \A t \in LiveThreads : saved[t] = IF t = runningTcb THEN Null ELSE t

(* The last handler leaves the thread of the highest priority current,     *)
(* whether PendSV has been taken or not.                                   *)
HighestIsCurrent ==
    started /\ handlers = <<>> /\ pc[curr] = "app" =>
        \A t \in ReadyThreads : Prio[curr] <= Prio[t]

CortexInv ==
    /\ KernelInv(Range(suspQ))
    /\ ListInv
    /\ HandlersInv
    /\ RegsInv
    /\ HighestIsCurrent

-----------------------------------------------------------------------------

(* The parked threads may be named by what they are after a step.          *)
LEMMA ParkedBy ==
    ASSUME NEW W, KernelInv(W)', Range(suspQ)' = W
    PROVE  KernelInv(Range(suspQ))'
  BY DEF KernelInv, SchedInv, Placement

(* Interrupts are masked in no state the kernel sees but while it starts:  *)
(* intr tells whether a handler is active.                                 *)
LEMMA NoHandler ==
    ASSUME HandlersInv
    PROVE  intr = "none" <=> handlers = <<>>
<1>1. CASE handlers # <<>>
  <2>1. Head(handlers) \in Handler
    BY <1>1 DEF HandlersInv
  <2> QED
    BY <1>1 DEF HandlersInv, IntrOf
<1> QED
  BY <1>1 DEF HandlersInv, IntrOf

(* A caller that is a thread is the current one, in thread mode, with its  *)
(* own registers.                                                          *)
LEMMA Caller ==
    ASSUME CortexInv, NEW t \in Threads, MayCallPort(t)
    PROVE  started /\ handlers = <<>> /\ t = curr /\ t # Idle /\ pc[t] = "app"
<1>1. t # Null
  BY ThreadsAssumption
<1>2. t = curr /\ pc[t] = "app" /\ t # Idle
  BY <1>1 DEF MayCallPort, MayCall, atomCurrentContext
<1>3. started
  BY <1>1, <1>2 DEF CortexInv, KernelInv, ContextInv
<1> QED
  BY <1>1, <1>2, <1>3 DEF MayCallPort, ThreadMode

-----------------------------------------------------------------------------

(* The first thread is restored from its stack.                            *)
LEMMA StartStep ==
    ASSUME CortexInv, StartFirst
    PROVE  CortexInv'
<1>1. PICK W : W = Range(suspQ)
  OBVIOUS
<1>2. KernelInv(W) /\ atomOSStart /\ ~ started /\ started'
  BY <1>1 DEF CortexInv, StartFirst, atomOSStart
<1>3. /\ UNCHANGED <<intr, suspended, terminated, pc, handlers, pendSV, suspQ>>
      /\ runningTcb' = curr' /\ nextTcb' = curr' /\ regs' = saved[curr']
      /\ saved' = [saved EXCEPT ![curr'] = Null]
  BY DEF StartFirst, atomOSStart
<1>4. KernelInv(W)'
  BY <1>2, OSStartPreserves
<1>5. KernelInv(Range(suspQ))'
  BY <1>1, <1>3, <1>4, ParkedBy
<1>6. LiveThreads' = LiveThreads
  BY <1>3 DEF CortexInv, RegsInv, LiveThreads, Live
<1>7. curr' \in Threads /\ curr' \in LiveThreads
  BY <1>2, <1>3, <1>4, <1>6 DEF CortexInv, RegsInv, KernelInv, SchedInv, ContextInv, LiveThreads, Live
<1>8. saved[curr'] = curr'
  BY <1>2, <1>7, ThreadsAssumption DEF CortexInv, RegsInv
<1>9. RegsInv'
  <2>1. /\ saved' \in [Threads -> Contexts]
        /\ \A t \in Threads : saved'[t] = IF t = curr' THEN Null ELSE saved[t]
    BY <1>3, <1>7 DEF CortexInv, RegsInv, Contexts
  <2>2. \A t \in LiveThreads : t \in Threads /\ saved[t] = t
    BY <1>2, ThreadsAssumption DEF CortexInv, RegsInv, LiveThreads
  <2>3. \A t \in LiveThreads' : saved'[t] = IF t = runningTcb' THEN Null ELSE t
    BY <1>3, <1>6, <2>1, <2>2
  <2> QED
    BY <1>2, <1>3, <1>6, <1>7, <1>8, <2>1, <2>3 DEF CortexInv, RegsInv
<1>10. HighestIsCurrent'
  BY <1>2, OSStartHighest DEF HighestIsCurrent
<1>11. ListInv' /\ HandlersInv'
  BY <1>2, <1>3 DEF CortexInv, ListInv, HandlersInv
<1> QED
  BY <1>5, <1>9, <1>10, <1>11 DEF CortexInv

(* A new thread has its own context on its stack.                          *)
LEMMA CreateStep ==
    ASSUME CortexInv, NEW c \in Contexts, NEW t \in AppThreads, Create(c, t)
    PROVE  CortexInv'
<1>1. PICK W : W = Range(suspQ)
  OBVIOUS
<1>2. /\ KernelInv(W) /\ t \in Threads /\ pc[t] = "none"
      /\ c = atomCurrentContext /\ (c \in Threads => pc[c] = "app")
      /\ atomThreadCreate(c, t)
  BY <1>1, ThreadsAssumption
     DEF CortexInv, RegsInv, Create, MayCallPort, MayCall, atomThreadCreate, AppThreads
<1>3. /\ UNCHANGED <<curr, started, intr, handlers, runningTcb, nextTcb, pendSV, regs, suspQ>>
      /\ saved' = [saved EXCEPT ![t] = t]
      /\ terminated' = [terminated EXCEPT ![t] = FALSE]
      /\ \A u \in Threads : pc'[u] = IF u = t THEN "app" ELSE IF u = c THEN "resched" ELSE pc[u]
  BY <1>2 DEF Create, atomThreadCreate
<1>4. KernelInv(W)'
  BY <1>2, CreatePreserves
<1>5. KernelInv(Range(suspQ))'
  BY <1>1, <1>3, <1>4, ParkedBy
<1>6. \A u \in Threads : ~ terminated'[u]
  BY <1>3 DEF CortexInv, RegsInv, KernelInv, KernelTypeOK
<1>7. LiveThreads' = LiveThreads \cup {t} /\ t \notin LiveThreads
  BY <1>2, <1>3, <1>6 DEF CortexInv, RegsInv, LiveThreads, Live
<1>8. RegsInv'
  <2>1. /\ saved' \in [Threads -> Contexts]
        /\ \A u \in Threads : saved'[u] = IF u = t THEN t ELSE saved[u]
    BY <1>2, <1>3 DEF CortexInv, RegsInv, Contexts
  <2>2. t # runningTcb
    BY <1>2, <1>7, ThreadsAssumption DEF CortexInv, RegsInv
  <2>3. \A u \in LiveThreads' : saved'[u] = IF u = runningTcb' THEN Null ELSE u
    BY <1>3, <1>7, <2>1, <2>2 DEF CortexInv, RegsInv, LiveThreads
  <2> QED
    BY <1>3, <1>6, <1>7, <2>1, <2>3 DEF CortexInv, RegsInv
<1>9. HighestIsCurrent'
  <2>1. CASE started /\ handlers = <<>>
    <3>1. c = curr /\ c \in Threads /\ t # c
      BY <1>2, <2>1, NoHandler DEF CortexInv, atomCurrentContext, KernelInv, SchedInv
    <3>2. pc'[curr'] = "resched"
      BY <1>3, <3>1
    <3> QED
      BY <3>2 DEF HighestIsCurrent
  <2> QED
    BY <1>3, <2>1 DEF HighestIsCurrent
<1>10. ListInv' /\ HandlersInv'
  BY <1>3 DEF CortexInv, ListInv, HandlersInv
<1> QED
  BY <1>5, <1>8, <1>9, <1>10 DEF CortexInv

(* A step that leaves the registers and which threads are live alone.      *)
LEMMA SameRegs ==
    ASSUME CortexInv, KernelInv(Range(suspQ))',
           UNCHANGED <<curr, started, terminated, runningTcb, nextTcb, pendSV, regs, saved>>,
           \A t \in Threads : pc'[t] = "none" <=> pc[t] = "none"
    PROVE  RegsInv'
<1>1. LiveThreads' = LiveThreads
  BY DEF LiveThreads, Live
<1> QED
  BY <1>1 DEF CortexInv, RegsInv

(* The critical section of a call that blocks.                             *)
LEMMA BlockStep ==
    ASSUME CortexInv, NEW t \in AppThreads, Block(t)
    PROVE  CortexInv'
<1>1. PICK W : W = Range(suspQ)
  OBVIOUS
<1>2. /\ started /\ handlers = <<>> /\ t = curr /\ pc[t] = "app"
      /\ t \in Threads /\ ~ terminated[t] /\ ~ suspended[t]
  <2>1. t \in Threads /\ MayCallPort(t)
    BY DEF AppThreads, Block
  <2> QED
    BY <2>1, Caller DEF CortexInv, RegsInv, KernelInv, ContextInv, KernelLabels
<1>3. /\ suspQ' = tcbEnqueuePriority(suspQ, t)
      /\ suspended' = [suspended EXCEPT ![t] = TRUE]
      /\ pc' = [pc EXCEPT ![t] = "get"]
      /\ UNCHANGED <<readyQ, curr, started, intr, terminated, wakeStatus, timoCb,
                     handlers, runningTcb, nextTcb, pendSV, regs, saved>>
  BY DEF Block
<1>4. KernelInv(W \cup {t})'
  BY <1>1, <1>2, <1>3, ParkPreserves DEF CortexInv, KernelInv, KernelTypeOK, KernelLabels
<1>5. t \notin W
  BY <1>1, <1>2 DEF CortexInv, KernelInv, SchedInv
<1>6. ListInv' /\ Range(suspQ)' = W \cup {t}
  <2>1. /\ tcbEnqueuePriority(suspQ, t) \in Seq(Threads)
        /\ Range(tcbEnqueuePriority(suspQ, t)) = W \cup {t}
        /\ NoDuplicates(tcbEnqueuePriority(suspQ, t))
        /\ PriorityOrdered(tcbEnqueuePriority(suspQ, t))
    BY <1>1, <1>2, <1>5, EnqueueProperties DEF CortexInv, ListInv, IsTcbQueue
  <2>2. W \cup {t} \subseteq AppThreads
    BY <1>1 DEF CortexInv, KernelInv, SchedInv
  <2>3. tcbEnqueuePriority(suspQ, t) \in Seq(AppThreads)
    BY <2>1, <2>2, SeqOfRange, SeqMonotonic
  <2> QED
    BY <1>3, <2>1, <2>3 DEF ListInv, IsTcbQueue
<1>7. KernelInv(Range(suspQ))'
  <2>1. PICK V : V = W \cup {t}
    OBVIOUS
  <2>2. KernelInv(V)'
    BY <1>4, <2>1
  <2> QED
    BY <1>6, <2>1, <2>2, ParkedBy
<1>8. \A u \in Threads : pc'[u] = IF u = t THEN "get" ELSE pc[u]
  BY <1>3 DEF CortexInv, KernelInv, KernelTypeOK
<1>9. RegsInv'
  BY <1>2, <1>3, <1>7, <1>8, SameRegs
<1>10. HighestIsCurrent' /\ HandlersInv'
  BY <1>2, <1>3, <1>8 DEF CortexInv, HighestIsCurrent, HandlersInv
<1> QED
  BY <1>6, <1>7, <1>9, <1>10 DEF CortexInv

(* The critical section of a call that wakes a thread.                     *)
LEMMA WakeStep ==
    ASSUME CortexInv, NEW c \in Contexts, Wake(c)
    PROVE  CortexInv'
<1>1. PICK W : W = Range(suspQ)
  OBVIOUS
<1>2. PICK t \in W : t = Head(suspQ)
  BY <1>1, TailProperties DEF CortexInv, ListInv, Wake
<1>3. /\ suspQ # <<>> /\ suspQ' = Tail(suspQ)
      /\ readyQ' = tcbEnqueuePriority(readyQ, t)
      /\ pc' = [u \in Threads |-> IF u = c THEN "resched" ELSE pc[u]]
      /\ UNCHANGED <<curr, started, intr, suspended, terminated, wakeStatus, timoCb,
                     handlers, runningTcb, nextTcb, pendSV, regs, saved>>
  BY <1>2 DEF Wake
<1>4. c \in Threads => c = curr /\ started /\ pc[c] = "app"
  BY Caller DEF Wake
<1>5. started /\ handlers = <<>> => c = curr /\ c \in Threads
  BY NoHandler DEF CortexInv, Wake, MayCallPort, MayCall, atomCurrentContext, KernelInv, SchedInv
<1>6. KernelInv(W \ {t})'
  <2>1. started /\ suspended[curr] => pc[curr] \notin KernelLabels
    BY DEF CortexInv, KernelInv, ContextInv
  <2>2. started => curr \in Threads
    BY DEF CortexInv, KernelInv, SchedInv
  <2>3. /\ \A u \in Threads : pc'[u] = "none" <=> pc[u] = "none"
        /\ DOMAIN pc' = Threads
    BY <1>3, <1>4
  <2>4. started /\ suspended[curr] => pc'[curr] = pc[curr]
    BY <1>3, <1>4, <2>1, <2>2 DEF KernelLabels
  <2> QED
    BY <1>1, <1>3, <2>3, <2>4, UnparkPreserves DEF CortexInv, KernelInv, KernelTypeOK
<1>7. ListInv' /\ Range(suspQ)' = W \ {t}
  <2>1. /\ Tail(suspQ) \in Seq(AppThreads) /\ Tail(suspQ) \in Seq(Threads)
        /\ Range(suspQ) = Range(Tail(suspQ)) \cup {t}
        /\ NoDuplicates(Tail(suspQ)) /\ t \notin Range(Tail(suspQ))
        /\ PriorityOrdered(Tail(suspQ))
    BY <1>2, <1>3, TailProperties, TailOrdered DEF CortexInv, ListInv, IsTcbQueue
  <2> QED
    BY <1>1, <1>3, <2>1 DEF ListInv, IsTcbQueue
<1>8. KernelInv(Range(suspQ))'
  <2>1. PICK V : V = W \ {t}
    OBVIOUS
  <2>2. KernelInv(V)'
    BY <1>6, <2>1
  <2> QED
    BY <1>7, <2>1, <2>2, ParkedBy
<1>9. RegsInv'
  BY <1>3, <1>4, <1>8, SameRegs
<1>10. HighestIsCurrent'
  <2>1. CASE started /\ handlers = <<>>
    <3>1. pc'[curr'] = "resched"
      BY <1>3, <1>5, <2>1
    <3> QED
      BY <3>1 DEF HighestIsCurrent
  <2> QED
    BY <1>3, <2>1 DEF HighestIsCurrent
<1>11. HandlersInv'
  BY <1>3 DEF CortexInv, HandlersInv
<1> QED
  BY <1>7, <1>8, <1>9, <1>10, <1>11 DEF CortexInv

(* After atomSched, next_tcb is the current thread and PendSV is pending   *)
(* unless the registers are its own already.                               *)
LEMMA SwitchRequested ==
    ASSUME CortexInv, started, KernelInv(Range(suspQ))', archContextSwitch,
           UNCHANGED <<started, terminated, runningTcb, regs, saved>>,
           \A t \in Threads : pc'[t] = "none" <=> pc[t] = "none"
    PROVE  RegsInv'
<1>1. LiveThreads' = LiveThreads
  BY DEF CortexInv, RegsInv, LiveThreads, Live
<1>2. runningTcb # Null
  BY ThreadsAssumption DEF CortexInv, RegsInv, LiveThreads
<1>3. /\ nextTcb' = curr'
      /\ regs' # curr' => pendSV'
      /\ pendSV' \in BOOLEAN
  BY <1>2 DEF CortexInv, RegsInv, archContextSwitch
<1> QED
  BY <1>1, <1>3 DEF CortexInv, RegsInv

(* A thread calls atomSched on its way out of the kernel.                  *)
LEMMA ThreadSchedStep ==
    ASSUME CortexInv, NEW t \in AppThreads, ThreadSched(t)
    PROVE  CortexInv'
<1>1. PICK W : W = Range(suspQ)
  OBVIOUS
<1>2. PICK from \in {"resched", "get"} : CallSched(t, from, "app")
  BY DEF ThreadSched, Resched
<1>3. /\ started /\ handlers = <<>> /\ t \in Threads
      /\ archContextSwitch
      /\ atomSched(FALSE) /\ pc[t] = from /\ pc' = [pc EXCEPT ![t] = "app"]
      /\ UNCHANGED <<started, intr, terminated, handlers, runningTcb, regs, saved, suspQ>>
  BY <1>2 DEF ThreadSched, ThreadMode, CallSched, AppThreads
<1>4. KernelInv(W)'
  BY <1>1, <1>2, <1>3, CallSchedPreserves DEF CortexInv
<1>5. KernelInv(Range(suspQ))'
  BY <1>1, <1>3, <1>4, ParkedBy
<1>6. \A u \in Threads : pc'[u] = "none" <=> pc[u] = "none"
  BY <1>3 DEF CortexInv, KernelInv, KernelTypeOK
<1>7. RegsInv'
  BY <1>3, <1>5, <1>6, SwitchRequested
<1>8. HighestIsCurrent'
  <2>1. KernelInv(W)
    BY <1>1 DEF CortexInv
  <2>2. \A u \in Range(readyQ') : Prio[curr'] <= Prio[u]
    BY <1>3, <2>1, SchedEffect DEF KernelInv, KernelTypeOK
  <2> QED
    BY <2>2 DEF HighestIsCurrent, ReadyThreads
<1>9. ListInv' /\ HandlersInv'
  BY <1>3 DEF CortexInv, ListInv, HandlersInv
<1> QED
  BY <1>5, <1>7, <1>8, <1>9 DEF CortexInv

-----------------------------------------------------------------------------

(* What is served with the handlers hs active.                             *)
LEMMA IntrOfType ==
    ASSUME NEW hs
    PROVE  IntrOf(hs) \in {"none", "irq", "tick"}
  BY DEF IntrOf

(* A handler is entered, whichever it preempts.                            *)
LEMMA EnterStep ==
    ASSUME CortexInv, NEW source \in Sources, Enter(source)
    PROVE  CortexInv'
<1>1. PICK W : W = Range(suspQ)
  OBVIOUS
<1> DEFINE h == [source |-> source, leaving |-> FALSE]
<1>2. /\ started /\ handlers' = <<h>> \o handlers /\ intr' = IntrOf(handlers')
      /\ UNCHANGED <<readyQ, curr, started, suspended, terminated, wakeStatus, timoCb, pc,
                     runningTcb, nextTcb, pendSV, regs, saved, suspQ>>
  BY DEF Enter
<1>3. h \in Handler
  BY DEF Handler
<1> HIDE DEF h
<1>4. handlers' \in Seq(Handler) /\ handlers' # <<>>
  BY <1>2, <1>3 DEF CortexInv, HandlersInv
<1>5. KernelInv(W)'
  BY <1>1, <1>2, IntrOfType, SameKernel DEF CortexInv
<1>6. KernelInv(Range(suspQ))'
  BY <1>1, <1>2, <1>5, ParkedBy
<1>7. RegsInv'
  BY <1>2, <1>6, SameRegs
<1>8. ListInv' /\ HandlersInv' /\ HighestIsCurrent'
  BY <1>2, <1>4 DEF CortexInv, ListInv, HandlersInv, HighestIsCurrent
<1> QED
  BY <1>6, <1>7, <1>8 DEF CortexInv

(* A handler has decremented atomIntCnt.                                   *)
LEMMA LeaveStep ==
    ASSUME CortexInv, Leave
    PROVE  CortexInv'
<1>1. PICK W : W = Range(suspQ)
  OBVIOUS
<1>2. /\ handlers # <<>> /\ handlers' = [handlers EXCEPT ![1].leaving = TRUE]
      /\ UNCHANGED <<readyQ, curr, started, intr, suspended, terminated, wakeStatus, timoCb, pc,
                     runningTcb, nextTcb, pendSV, regs, saved, suspQ>>
  BY DEF Leave, kernelVars
<1>3. /\ handlers' \in Seq(Handler) /\ handlers' # <<>>
      /\ Head(handlers').source = Head(handlers).source
  <2>1. /\ handlers \in Seq(Handler) /\ Len(handlers) \in Nat /\ Len(handlers) > 0
        /\ handlers[1] \in Handler
    BY <1>2 DEF CortexInv, HandlersInv
  <2>2. PICK h \in Handler : h = [handlers[1] EXCEPT !.leaving = TRUE]
    BY <2>1 DEF Handler
  <2>3. h.source = handlers[1].source
    BY <2>1, <2>2 DEF Handler
  <2>4. handlers' = [handlers EXCEPT ![1] = h]
    BY <1>2, <2>2
  <2>5. PICK hs \in Seq(Handler) : hs = handlers
    BY <2>1
  <2>6. 1 \in 1..Len(hs) /\ [hs EXCEPT ![1] = h] \in Seq(Handler)
    BY <2>1, <2>2, <2>5, ExceptSeq
  <2>7. handlers' \in Seq(Handler) /\ Len(handlers') = Len(handlers) /\ handlers'[1] = h
    BY <2>1, <2>4, <2>5, <2>6, ExceptSeq
  <2> QED
    BY <2>1, <2>3, <2>7
<1>4. intr = IntrOf(handlers')
  BY <1>2, <1>3 DEF CortexInv, HandlersInv, IntrOf
<1>5. KernelInv(W)'
  BY <1>1, <1>2, <1>4, IntrOfType, SameKernel DEF CortexInv, KernelInv, ContextInv
<1>6. KernelInv(Range(suspQ))'
  BY <1>1, <1>2, <1>5, ParkedBy
<1>7. RegsInv'
  BY <1>2, <1>6, SameRegs
<1>8. ListInv' /\ HandlersInv' /\ HighestIsCurrent'
  BY <1>2, <1>3, <1>4 DEF CortexInv, ListInv, HandlersInv, HighestIsCurrent
<1> QED
  BY <1>6, <1>7, <1>8 DEF CortexInv

(* The exit of a handler calls atomSched, also when another one goes on.   *)
LEMMA LeaveSchedStep ==
    ASSUME CortexInv, LeaveSched
    PROVE  CortexInv'
<1>1. PICK W : W = Range(suspQ)
  OBVIOUS
<1>2. KernelInv(W) /\ started
  BY <1>1 DEF CortexInv, HandlersInv, LeaveSched
<1>3. /\ handlers # <<>> /\ handlers' = Tail(handlers) /\ intr' = IntrOf(handlers')
      /\ archContextSwitch
      /\ UNCHANGED <<started, terminated, wakeStatus, timoCb, pc, runningTcb, regs, saved, suspQ>>
  BY DEF LeaveSched
<1>4. PICK tick \in BOOLEAN : atomSched(tick)
  BY DEF LeaveSched
<1>5. SchedInv(W)' /\ suspended' \in [Threads -> BOOLEAN] /\ curr' \in Threads
  BY <1>2, <1>3, <1>4, SchedPreserves DEF KernelInv, KernelTypeOK
<1>6. /\ pc[curr] # "none" => pc[curr'] # "none"
      /\ ~ suspended'[curr']
      /\ \A t \in Range(readyQ') : Prio[curr'] <= Prio[t]
  BY <1>2, <1>4, SchedEffect DEF KernelInv, KernelTypeOK
<1>7. KernelInv(W)'
  <2>1. KernelTypeOK'
    BY <1>2, <1>3, <1>5, IntrOfType DEF KernelInv, KernelTypeOK, SchedInv, Contexts
  <2>2. ContextInv'
    BY <1>2, <1>3, <1>6 DEF KernelInv, ContextInv
  <2> QED
    BY <1>5, <2>1, <2>2 DEF KernelInv
<1>8. KernelInv(Range(suspQ))'
  BY <1>1, <1>3, <1>7, ParkedBy
<1>9. RegsInv'
  BY <1>2, <1>3, <1>8, SwitchRequested
<1>10. handlers' \in Seq(Handler)
  BY <1>3 DEF CortexInv, HandlersInv
<1>11. ListInv' /\ HandlersInv' /\ HighestIsCurrent'
  BY <1>2, <1>3, <1>6, <1>10
     DEF CortexInv, ListInv, HandlersInv, HighestIsCurrent, ReadyThreads
<1> QED
  BY <1>8, <1>9, <1>11 DEF CortexInv

(* PendSV stores the registers where they belong and loads those of the    *)
(* current thread.                                                         *)
LEMMA PendSVStep ==
    ASSUME CortexInv, pend_sv_handler
    PROVE  CortexInv'
<1>1. /\ pendSV /\ pendSV' = FALSE
      /\ UNCHANGED <<readyQ, curr, started, intr, suspended, terminated, wakeStatus, timoCb, pc,
                     handlers, nextTcb, suspQ>>
  BY DEF pend_sv_handler, kernelVars
<1>2. LiveThreads' = LiveThreads /\ RunningThreads' = RunningThreads /\ ReadyThreads' = ReadyThreads
  BY <1>1 DEF LiveThreads, Live, RunningThreads, ReadyThreads
<1>3. KernelInv(Range(suspQ))'
  BY <1>1, <1>2 DEF CortexInv, KernelInv, KernelTypeOK, SchedInv, Placement, ContextInv
<1>4. ListInv' /\ HandlersInv' /\ HighestIsCurrent'
  BY <1>1, <1>2 DEF CortexInv, ListInv, HandlersInv, HighestIsCurrent
<1>5. CASE runningTcb = nextTcb
  <2>1. UNCHANGED <<runningTcb, regs, saved>>
    BY <1>5 DEF pend_sv_handler
  <2> QED
    BY <1>1, <1>2, <1>3, <1>4, <1>5, <2>1 DEF CortexInv, RegsInv
<1>6. CASE runningTcb # nextTcb
  <2>1. /\ started /\ runningTcb \in LiveThreads /\ nextTcb = curr /\ regs = runningTcb
        /\ curr \in LiveThreads
    BY <1>6 DEF CortexInv, RegsInv, KernelInv, SchedInv, ContextInv, LiveThreads, Live
  <2>2. /\ saved' = [saved EXCEPT ![runningTcb] = regs, ![nextTcb] = Null]
        /\ regs' = saved[nextTcb] /\ runningTcb' = nextTcb
    BY <1>6 DEF pend_sv_handler
  <2>3. runningTcb \in Threads /\ nextTcb \in Threads
    BY <2>1 DEF LiveThreads
  <2>4. /\ saved' \in [Threads -> Contexts]
        /\ \A t \in Threads : saved'[t] = IF t = nextTcb THEN Null
                                       ELSE IF t = runningTcb THEN runningTcb ELSE saved[t]
    BY <1>6, <2>1, <2>2, <2>3 DEF CortexInv, RegsInv, Contexts
  <2>5. regs' = curr
    BY <1>6, <2>1, <2>2 DEF CortexInv, RegsInv
  <2>6. \A t \in LiveThreads : saved'[t] = IF t = nextTcb THEN Null ELSE t
    BY <2>4 DEF CortexInv, RegsInv, LiveThreads
  <2>7. RegsInv'
    BY <1>1, <1>2, <2>1, <2>2, <2>4, <2>5, <2>6 DEF CortexInv, RegsInv
  <2> QED
    BY <1>3, <1>4, <2>7 DEF CortexInv
<1> QED
  BY <1>5, <1>6

-----------------------------------------------------------------------------

LEMMA CortexInitInv == CortexInit => CortexInv
<1> SUFFICES ASSUME CortexInit PROVE CortexInv
  OBVIOUS
<1>1. KernelInit /\ suspQ = <<>> /\ Range(<<>>) = {}
  BY DEF CortexInit, Range
<1>2. KernelInv({})
  BY <1>1, KernelInitInv
<1>3. KernelInv(Range(suspQ))
  BY <1>1, <1>2
<1>4. ListInv /\ HandlersInv /\ HighestIsCurrent
  BY <1>1 DEF CortexInit, KernelInit, ListInv, IsTcbQueue, NoDuplicates, PriorityOrdered,
              HandlersInv, IntrOf, HighestIsCurrent
<1>5. RegsInv
  BY <1>1, ThreadsAssumption, IdleAssumption
     DEF CortexInit, KernelInit, RegsInv, LiveThreads, Live, Contexts
<1> QED
  BY <1>3, <1>4, <1>5 DEF CortexInv

LEMMA CortexStepInv == CortexInv /\ [CortexNext]_vars => CortexInv'
<1> SUFFICES ASSUME CortexInv, [CortexNext]_vars PROVE CortexInv'
  OBVIOUS
<1>1. CASE StartFirst
  BY <1>1, StartStep
<1>2. ASSUME NEW c \in Contexts, Wake(c) PROVE CortexInv'
  BY <1>2, WakeStep
<1>3. ASSUME NEW c \in Contexts, NEW t \in AppThreads, Create(c, t) PROVE CortexInv'
  BY <1>3, CreateStep
<1>4. ASSUME NEW t \in AppThreads, Block(t) PROVE CortexInv'
  BY <1>4, BlockStep
<1>5. ASSUME NEW t \in AppThreads, ThreadSched(t) PROVE CortexInv'
  BY <1>5, ThreadSchedStep
<1>6. ASSUME NEW source \in Sources, Enter(source) PROVE CortexInv'
  BY <1>6, EnterStep
<1>7. CASE Leave
  BY <1>7, LeaveStep
<1>8. CASE LeaveSched
  BY <1>8, LeaveSchedStep
<1>9. CASE pend_sv_handler
  BY <1>9, PendSVStep
<1>10. CASE UNCHANGED vars
  BY <1>10
     DEF vars, kernelVars, portVars, CortexInv, KernelInv, KernelTypeOK, SchedInv, Placement,
         ContextInv, RunningThreads, ReadyThreads, LiveThreads, Live, ListInv, HandlersInv,
         RegsInv, HighestIsCurrent
<1> QED
  BY <1>1, <1>2, <1>3, <1>4, <1>5, <1>6, <1>7, <1>8, <1>9, <1>10 DEF CortexNext

(* The invariant holds in every reachable state.                           *)
THEOREM CortexInvariant == CortexSpec => []CortexInv
  BY CortexInitInv, CortexStepInv, PTL DEF CortexSpec

(* Handlers that nest and call atomSched one inside the other leave every  *)
(* live thread in exactly one place.                                       *)
THEOREM NestedPlacementHolds == CortexSpec => []NestedPlacement
<1>1. CortexInv => NestedPlacement
  BY DEF CortexInv, KernelInv, SchedInv, ListInv, NestedPlacement
<1> QED
  BY <1>1, CortexInvariant, PTL

(* The registers follow the last decision of atomSched, and every thread   *)
(* finds its own context when it goes on.                                  *)
THEOREM ContextsSoundHolds == CortexSpec => []ContextsSound
<1>1. CortexInv => ContextsSound
  <2> SUFFICES ASSUME CortexInv PROVE ContextsSound
    OBVIOUS
  <2>1. {runningTcb, nextTcb, regs} \subseteq Contexts
    BY DEF CortexInv, RegsInv, KernelInv, SchedInv, LiveThreads, Contexts
  <2>2. CortexTypeOK
    BY <2>1 DEF CortexInv, KernelInv, ListInv, HandlersInv, RegsInv, CortexTypeOK
  <2> QED
    BY <2>2 DEF CortexInv, RegsInv, ContextsSound
<1> QED
  BY <1>1, CortexInvariant, PTL

(* The thread on the CPU, when it executes its own code, has the highest   *)
(* priority of those that are ready.                                       *)
THEOREM HighestPriorityOnCpuHolds == CortexSpec => []HighestPriorityOnCpu
<1>1. CortexInv => HighestPriorityOnCpu
  BY DEF CortexInv, RegsInv, HighestIsCurrent, HighestPriorityOnCpu, ThreadMode
<1> QED
  BY <1>1, CortexInvariant, PTL
=============================================================================
