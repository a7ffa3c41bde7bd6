-------------------------- MODULE AtomSuspendProofs -------------------------
(***************************************************************************)
(* Theorems about AtomTimer and lemmas about the blocking calls of         *)
(* AtomSuspend.  The inductive invariant is stated for a set W of threads  *)
(* that wait on objects of the kernel, as SchedInv is for the parked ones, *)
(* so that the proofs about semaphores, mutexes and queues share it.       *)
(***************************************************************************)
EXTENDS AtomSuspend, AtomKernelProofs

(* The threads that are neither running nor ready: the delayed ones, and   *)
(* those that wait on objects.                                             *)
Parked(W) == DelayedThreads \cup W
ParkedLabels == {"delay", "delayed", "get", "got"}

(* The timer lists.  While the walk goes on the two lists are disjoint;    *)
(* afterwards only a timer of the application can be registered again      *)
(* before its callback has been made.  Outside the tick handler nothing is *)
(* due.                                                                    *)
TimerListInv ==
    /\ TimerLibTypeOK
    /\ NoDuplicates(timerQ) /\ NoDuplicates(due) /\ NoDuplicates(walk)
    /\ Range(walk) \subseteq Range(timerQ)
    /\ \A tm \in Range(timerQ) : cbTicks[tm] > 0
    /\ intr # "tick" => walk = <<>> /\ due = <<>>
    /\ walk # <<>> => Range(timerQ) \cap Range(due) = {}
    /\ Range(timerQ) \cap Range(due) \cap AppThreads = {}

(* The timers on the stacks of threads: a pending one is that of a delay   *)
(* or of a wait that goes on, and a wait with a timeout has one pending.   *)
StackTimerInv(W) ==
    /\ \A t \in PendingTimers \cap AppThreads :
          /\ timoCb[t]
          /\ IF cbFunc[t] = "delay" THEN pc[t] \in {"delay", "delayed"} ELSE t \in W
    /\ \A t \in W :
          /\ pc[t] \in {"get", "got"}
          /\ timoCb[t] => t \in PendingTimers /\ cbFunc[t] # "delay"

(* The current thread is suspended only between a critical section that    *)
(* suspended it and its call of atomSched.                                 *)
CallInv ==
    /\ started /\ suspended[curr] => pc[curr] \in {"delay", "get"}
    /\ \A t \in Threads : terminated[t] => pc[t] = "exit"

SuspendInv(W) ==
    /\ KernelInv(Parked(W))
    /\ TimerListInv
    /\ StackTimerInv(W)
    /\ CallInv

-----------------------------------------------------------------------------

(* What atomTimerRegister does to the list.                                *)
LEMMA PrependedProperties ==
    ASSUME NEW S, NEW q \in Seq(S), NEW e \in S
    PROVE  /\ <<e>> \o q \in Seq(S)
           /\ Range(<<e>> \o q) = Range(q) \cup {e}
           /\ NoDuplicates(q) /\ e \notin Range(q) => NoDuplicates(<<e>> \o q)
<1> DEFINE r == <<e>> \o q
<1>1. /\ r \in Seq(S) /\ Len(r) = Len(q) + 1 /\ Len(q) \in Nat
      /\ \A i \in 1..Len(r) : r[i] = IF i = 1 THEN e ELSE q[i-1]
  OBVIOUS
<1> HIDE DEF r
<1>2. Range(r) = Range(q) \cup {e}
  <2>1. ASSUME NEW x \in Range(r) PROVE x \in Range(q) \cup {e}
    <3>1. PICK i \in 1..Len(r) : r[i] = x
      BY <1>1, <2>1, InRange
    <3>2. i # 1 => i - 1 \in 1..Len(q) /\ q[i-1] = x
      BY <1>1, <3>1
    <3> QED
      BY <1>1, <3>1, <3>2, InRange
  <2>2. e \in Range(r)
    <3>1. 1 \in 1..Len(r) /\ r[1] = e
      BY <1>1
    <3> QED
      BY <1>1, <3>1, InRange
  <2>3. ASSUME NEW x \in Range(q) PROVE x \in Range(r)
    <3>1. PICK i \in 1..Len(q) : q[i] = x
      BY <2>3, InRange
    <3>2. i + 1 \in 1..Len(r) /\ r[i+1] = x
      BY <1>1, <3>1
    <3> QED
      BY <1>1, <3>2, InRange
  <2> QED
    BY <2>1, <2>2, <2>3
<1>3. ASSUME NoDuplicates(q), e \notin Range(q) PROVE NoDuplicates(r)
  <2>1. \A i \in 1..Len(q) : q[i] # e
    BY <1>3, InRange
  <2> SUFFICES ASSUME NEW i \in 1..Len(r), NEW j \in 1..Len(r), r[i] = r[j] PROVE i = j
    BY DEF NoDuplicates
  <2>2. i # 1 => i - 1 \in 1..Len(q) /\ r[i] = q[i - 1]
    BY <1>1
  <2>3. j # 1 => j - 1 \in 1..Len(q) /\ r[j] = q[j - 1]
    BY <1>1
  <2>4. \A k, l \in 1..Len(q) : q[k] = q[l] => k = l
    BY <1>3 DEF NoDuplicates
  <2> QED
    BY <1>1, <2>1, <2>2, <2>3, <2>4
<1> QED
  BY <1>1, <1>2, <1>3 DEF r

(* What the tick handler does to the list of the callbacks it has to make. *)
LEMMA AppendedProperties ==
    ASSUME NEW S, NEW q \in Seq(S), NEW e \in S
    PROVE  /\ Append(q, e) \in Seq(S)
           /\ Range(Append(q, e)) = Range(q) \cup {e}
           /\ NoDuplicates(q) /\ e \notin Range(q) => NoDuplicates(Append(q, e))
<1> DEFINE r == Append(q, e)
<1>1. /\ r \in Seq(S) /\ Len(r) = Len(q) + 1 /\ Len(q) \in Nat
      /\ \A i \in 1..Len(r) : r[i] = IF i = Len(q) + 1 THEN e ELSE q[i]
  OBVIOUS
<1> HIDE DEF r
<1>2. Range(r) = Range(q) \cup {e}
  <2>1. ASSUME NEW x \in Range(r) PROVE x \in Range(q) \cup {e}
    <3>1. PICK i \in 1..Len(r) : r[i] = x
      BY <1>1, <2>1, InRange
    <3>2. i # Len(q) + 1 => i \in 1..Len(q) /\ q[i] = x
      BY <1>1, <3>1
    <3> QED
      BY <1>1, <3>1, <3>2, InRange
  <2>2. e \in Range(r)
    <3>1. Len(q) + 1 \in 1..Len(r) /\ r[Len(q) + 1] = e
      BY <1>1
    <3> QED
      BY <1>1, <3>1, InRange
  <2>3. ASSUME NEW x \in Range(q) PROVE x \in Range(r)
    <3>1. PICK i \in 1..Len(q) : q[i] = x
      BY <2>3, InRange
    <3>2. i \in 1..Len(r) /\ r[i] = x
      BY <1>1, <3>1
    <3> QED
      BY <1>1, <3>2, InRange
  <2> QED
    BY <2>1, <2>2, <2>3
<1>3. ASSUME NoDuplicates(q), e \notin Range(q) PROVE NoDuplicates(r)
  <2>1. \A i \in 1..Len(q) : q[i] # e
    BY <1>3, InRange
  <2> SUFFICES ASSUME NEW i \in 1..Len(r), NEW j \in 1..Len(r), r[i] = r[j] PROVE i = j
    BY DEF NoDuplicates
  <2>2. i # Len(q) + 1 => i \in 1..Len(q) /\ r[i] = q[i]
    BY <1>1
  <2>3. j # Len(q) + 1 => j \in 1..Len(q) /\ r[j] = q[j]
    BY <1>1
  <2>4. \A k, l \in 1..Len(q) : q[k] = q[l] => k = l
    BY <1>3 DEF NoDuplicates
  <2> QED
    BY <1>1, <2>1, <2>2, <2>3, <2>4
<1> QED
  BY <1>1, <1>2, <1>3 DEF r

-----------------------------------------------------------------------------

(* The parked threads may be named by what they are after a step.          *)
LEMMA ParkedAfter ==
    ASSUME NEW W, NEW V, KernelInv(V)', Parked(W)' = V
    PROVE  KernelInv(Parked(W))'
  BY DEF KernelInv, SchedInv, Placement

(* A thread with a pending timer is parked, a parked one is inside a       *)
(* blocking call, alive, and not at a point from which it makes a call.    *)
LEMMA ParkedFacts ==
    ASSUME NEW W, SuspendInv(W)
    PROVE  /\ PendingTimers \cap AppThreads \subseteq Parked(W)
           /\ Parked(W) \subseteq AppThreads
           /\ \A t \in Parked(W) :
                 /\ t \in Threads /\ t # Idle
                 /\ suspended[t] /\ ~ terminated[t]
                 /\ pc[t] \in ParkedLabels
                 /\ t = curr => pc[t] \in {"delay", "get"}
<1>1. PendingTimers \cap AppThreads \subseteq Parked(W)
  BY DEF SuspendInv, StackTimerInv, Parked, DelayedThreads
<1>2. Parked(W) \subseteq AppThreads /\ \A t \in Parked(W) : suspended[t]
  BY DEF SuspendInv, KernelInv, SchedInv
<1>3. \A t \in Parked(W) : pc[t] \in ParkedLabels
  BY DEF SuspendInv, StackTimerInv, Parked, DelayedThreads, ParkedLabels
<1>4. \A t \in Parked(W) : t \in Threads /\ t # Idle
  BY <1>2 DEF AppThreads
<1>5. \A t \in Parked(W) : ~ terminated[t]
  BY <1>2, <1>4 DEF SuspendInv, KernelInv, SchedInv
<1>6. \A t \in Parked(W) : t = curr => started
  BY <1>4, ThreadsAssumption DEF SuspendInv, KernelInv, ContextInv
<1> QED
  BY <1>1, <1>2, <1>3, <1>4, <1>5, <1>6 DEF SuspendInv, CallInv

(* A thread that runs code of its own, or has come back from atomSched, is *)
(* the current one, alive, and not parked.                                 *)
LEMMA RunningFacts ==
    ASSUME NEW W, SuspendInv(W), NEW t \in Threads, atomCurrentContext = t,
           pc[t] \notin {"delay", "get"}
    PROVE  /\ started /\ intr = "none" /\ t = curr
           /\ ~ suspended[t] /\ t \notin Parked(W)
           /\ t \in AppThreads => t \notin PendingTimers
           /\ pc[t] # "exit" => ~ terminated[t]
<1>1. started /\ intr = "none" /\ t = curr
  BY ThreadsAssumption DEF atomCurrentContext, SuspendInv, KernelInv, ContextInv
<1>2. ~ suspended[t]
  BY <1>1 DEF SuspendInv, CallInv
<1>3. t \notin Parked(W)
  BY <1>2, ParkedFacts
<1> QED
  BY <1>1, <1>2, <1>3, ParkedFacts DEF SuspendInv, CallInv

(* The scheduler leaves the running thread unsuspended.                    *)
LEMMA SchedCallInv ==
    ASSUME NEW W, SuspendInv(W), started, NEW tick \in BOOLEAN, atomSched(tick),
           UNCHANGED <<started, terminated>>,
           \A t \in Threads : terminated[t] => pc'[t] = "exit"
    PROVE  CallInv'
<1>1. ~ suspended'[curr']
  BY SchedEffect DEF SuspendInv, KernelInv, KernelTypeOK
<1> QED
  BY <1>1 DEF CallInv

(* A step that leaves the timers alone, and everything that ties a parked  *)
(* thread to its timer.                                                    *)
LEMMA SameTimers ==
    ASSUME NEW W, SuspendInv(W), KernelInv(Parked(W))', CallInv',
           UNCHANGED timerVars,
           intr' = "tick" \/ (walk = <<>> /\ due = <<>>),
           \A t \in Parked(W) :
              /\ timoCb'[t] = timoCb[t]
              /\ \/ pc'[t] = pc[t]
                 \/ pc[t] = "delay" /\ pc'[t] = "delayed"
                 \/ pc[t] = "get" /\ pc'[t] = "got"
    PROVE  SuspendInv(W)'
<1>1. UNCHANGED <<timerQ, cbTicks, cbFunc, walk, due, systemTicks>>
  BY DEF timerVars
<1>2. TimerListInv'
  BY <1>1 DEF SuspendInv, TimerListInv, TimerLibTypeOK
<1>3. PendingTimers' = PendingTimers /\ W \subseteq Parked(W)
  BY <1>1 DEF PendingTimers, Parked
<1>4. StackTimerInv(W)'
  BY <1>1, <1>3, ParkedFacts DEF SuspendInv, StackTimerInv
<1> QED
  BY <1>2, <1>4 DEF SuspendInv

(* The call of atomSched on the way out of a call.                         *)
LEMMA CallSchedSuspend ==
    ASSUME NEW W, SuspendInv(W), NEW t \in AppThreads, NEW from, NEW to,
           to # "none", <<from, to>> \in {<<"resched", "app">>, <<"exit", "exit">>,
                                          <<"delay", "delayed">>, <<"get", "got">>},
           CallSched(t, from, to), UNCHANGED timerVars
    PROVE  SuspendInv(W)'
<1>1. PICK V : V = Parked(W)
  OBVIOUS
<1>2. /\ t \in Threads /\ started /\ curr = t /\ intr = "none"
      /\ pc[t] = from /\ pc' = [pc EXCEPT ![t] = to] /\ DOMAIN pc = Threads
      /\ atomSched(FALSE)
      /\ UNCHANGED <<started, intr, terminated, wakeStatus, timoCb>>
  BY ThreadsAssumption DEF AppThreads, SuspendInv, KernelInv, ContextInv, KernelTypeOK, CallSched,
                           atomCurrentContext
<1>3. KernelInv(V)'
  BY <1>1, <1>2, CallSchedPreserves DEF SuspendInv
<1>4. walk = <<>> /\ due = <<>>
  BY <1>2 DEF SuspendInv, TimerListInv
<1>5. DelayedThreads' = DelayedThreads
  BY DEF timerVars, DelayedThreads, PendingTimers
<1>6. KernelInv(Parked(W))'
  BY <1>1, <1>3, <1>5, ParkedAfter DEF Parked
<1>7. \A u \in Threads : pc'[u] = IF u = t THEN to ELSE pc[u]
  BY <1>2
<1>8. CallInv'
  <2>1. from # "exit" => ~ terminated[t]
    BY <1>2 DEF SuspendInv, CallInv
  <2>2. \A u \in Threads : terminated[u] => pc'[u] = "exit"
    BY <1>2, <1>7, <2>1 DEF SuspendInv, CallInv
  <2> QED
    BY <1>2, <2>2, SchedCallInv
<1>9. \A u \in Parked(W) :
          \/ pc'[u] = pc[u]
          \/ pc[u] = "delay" /\ pc'[u] = "delayed"
          \/ pc[u] = "get" /\ pc'[u] = "got"
  BY <1>2, <1>7, ParkedFacts DEF ParkedLabels
<1> QED
  BY <1>2, <1>4, <1>6, <1>8, <1>9, SameTimers

(* The steps of the scheduler.                                             *)
LEMMA KernelStepSuspend ==
    ASSUME NEW W, SuspendInv(W), KernelStep
    PROVE  SuspendInv(W)'
<1>1. PICK V : V = Parked(W)
  OBVIOUS
<1>2. /\ UNCHANGED timerVars /\ KernelInv(V) /\ DelayedThreads' = DelayedThreads
      /\ intr # "tick" => walk = <<>> /\ due = <<>>
  BY <1>1 DEF KernelStep, SuspendInv, TimerListInv, timerVars, DelayedThreads, PendingTimers
<1>3. KernelInv(V)' => KernelInv(Parked(W))'
  BY <1>1, <1>2, ParkedAfter DEF Parked
<1>4. CASE atomOSStart
  <2>1. /\ UNCHANGED <<intr, suspended, terminated, timoCb, pc>> /\ intr = "none"
        /\ \A t \in Threads : ~ suspended[t]
    BY <1>4 DEF atomOSStart, SuspendInv, KernelInv, ContextInv
  <2>2. KernelInv(V)'
    BY <1>2, <1>4, OSStartPreserves
  <2>3. curr' \in Threads
    BY <1>4, <2>2 DEF atomOSStart, KernelInv, SchedInv
  <2>4. CallInv'
    BY <2>1, <2>3 DEF SuspendInv, CallInv
  <2> QED
    BY <1>2, <1>3, <2>1, <2>2, <2>4, SameTimers
<1>5. ASSUME NEW c \in Contexts, NEW t \in AppThreads, MayCallTimer(c), atomThreadCreate(c, t)
      PROVE  SuspendInv(W)'
  <2>1. c = atomCurrentContext /\ (c \in Threads => pc[c] = "app")
    BY <1>5, ThreadsAssumption DEF MayCallTimer, MayCall, InAppCallback, atomCurrentContext
  <2>2. KernelInv(V)'
    BY <1>2, <1>5, <2>1, CreatePreserves
  <2>3. /\ t \in Threads
        /\ pc[t] = "none" \/ (terminated[t] /\ curr # t)
        /\ \A u \in Threads : suspended'[u] = IF u = t THEN FALSE ELSE suspended[u]
        /\ \A u \in Threads : terminated'[u] = IF u = t THEN FALSE ELSE terminated[u]
        /\ \A u \in Threads : timoCb'[u] = IF u = t THEN FALSE ELSE timoCb[u]
        /\ \A u \in Threads : pc'[u] = IF u = t THEN "app" ELSE IF u = c THEN "resched" ELSE pc[u]
        /\ UNCHANGED <<curr, started, intr, wakeStatus>>
    BY <1>5 DEF atomThreadCreate, AppThreads, SuspendInv, KernelInv, KernelTypeOK
  <2>4. started => curr \in Threads
    BY DEF SuspendInv, KernelInv, SchedInv
  <2>5. c \in Threads => ~ terminated[c]
    BY <2>1, RunningFacts
  <2>6. CallInv'
    BY <2>1, <2>3, <2>4, <2>5 DEF SuspendInv, CallInv
  <2>7. \A u \in Parked(W) : pc'[u] = pc[u] /\ timoCb'[u] = timoCb[u]
    <3> SUFFICES ASSUME NEW u \in Parked(W)
                 PROVE  pc'[u] = pc[u] /\ timoCb'[u] = timoCb[u]
      OBVIOUS
    <3>1. u \in Threads /\ ~ terminated[u] /\ pc[u] \in ParkedLabels
      BY ParkedFacts
    <3>2. u # t /\ u # c
      BY <2>1, <2>3, <3>1 DEF ParkedLabels
    <3> QED
      BY <2>3, <3>1, <3>2
  <2> QED
    BY <1>2, <1>3, <2>2, <2>3, <2>6, <2>7, SameTimers
<1>6. ASSUME NEW t \in AppThreads, Resched(t) PROVE SuspendInv(W)'
  BY <1>2, <1>6, CallSchedSuspend DEF Resched
<1>7. ASSUME NEW t \in AppThreads, ThreadExitSched(t) PROVE SuspendInv(W)'
  BY <1>2, <1>7, CallSchedSuspend DEF ThreadExitSched
<1>8. ASSUME NEW t \in AppThreads, ThreadExit(t) PROVE SuspendInv(W)'
  <2>1. /\ t \in Threads /\ atomCurrentContext = t /\ pc[t] = "app"
        /\ \A u \in Threads : terminated'[u] = IF u = t THEN TRUE ELSE terminated[u]
        /\ \A u \in Threads : pc'[u] = IF u = t THEN "exit" ELSE pc[u]
        /\ UNCHANGED <<curr, started, intr, suspended, timoCb>>
    BY <1>8, ThreadsAssumption
       DEF ThreadExit, AppThreads, MayCall, SuspendInv, KernelInv, KernelTypeOK
  <2>2. ~ suspended[t] /\ t = curr /\ t \notin Parked(W)
    BY <2>1, RunningFacts
  <2>3. KernelInv(V)'
    BY <1>2, <1>8, ThreadExitPreserves
  <2>4. CallInv'
    BY <2>1, <2>2 DEF SuspendInv, CallInv
  <2>5. \A u \in Parked(W) : pc'[u] = pc[u]
    BY <2>1, <2>2, ParkedFacts
  <2> QED
    BY <1>2, <1>3, <2>1, <2>3, <2>4, <2>5, RunningFacts, SameTimers
<1>9. CASE IrqEnter
  <2>1. /\ KernelInv(V)' /\ intr = "none"
        /\ UNCHANGED <<readyQ, curr, started, suspended, terminated, wakeStatus, timoCb, pc>>
    BY <1>2, <1>9, IntEnterPreserves DEF IrqEnter, atomIntEnter
  <2>2. CallInv'
    BY <2>1 DEF SuspendInv, CallInv
  <2> QED
    BY <1>2, <1>3, <2>1, <2>2, SameTimers
<1>10. CASE IrqExit
  <2>1. /\ KernelInv(V)' /\ intr = "irq" /\ started /\ atomSched(FALSE)
        /\ UNCHANGED <<started, terminated, wakeStatus, timoCb, pc>>
    BY <1>2, <1>10, IntExitPreserves DEF IrqExit, atomIntExit, KernelInv, ContextInv
  <2>2. CallInv'
    BY <2>1, SchedCallInv DEF SuspendInv, CallInv
  <2> QED
    BY <1>2, <1>3, <2>1, <2>2, SameTimers
<1> QED
  BY <1>4, <1>5, <1>6, <1>7, <1>8, <1>9, <1>10 DEF KernelStep

-----------------------------------------------------------------------------

(* A step that changes neither the scheduler nor who waits with which      *)
(* timer: the timer list may lose or gain timers of the application.       *)
LEMMA SameStackTimers ==
    ASSUME NEW W, SuspendInv(W), TimerListInv',
           UNCHANGED <<kernelVars, cbFunc>>,
           \A t \in AppThreads : t \in PendingTimers' <=> t \in PendingTimers
    PROVE  SuspendInv(W)' /\ Parked(W)' = Parked(W)
<1>1. PICK V : V = Parked(W)
  OBVIOUS
<1>2. Parked(W)' = Parked(W)
  BY DEF Parked, DelayedThreads
<1>3. UNCHANGED <<readyQ, curr, started, intr, suspended, terminated, wakeStatus, timoCb, pc>>
  BY DEF kernelVars
<1>4. KernelInv(V)'
  BY <1>1, <1>3, SameKernel DEF SuspendInv, KernelInv, KernelTypeOK, ContextInv
<1>5. KernelInv(Parked(W))'
  BY <1>1, <1>2, <1>4, ParkedAfter
<1>6. W \subseteq AppThreads
  BY ParkedFacts DEF Parked
<1>7. StackTimerInv(W)'
  BY <1>3, <1>6 DEF SuspendInv, StackTimerInv
<1>8. CallInv'
  BY <1>3 DEF SuspendInv, CallInv
<1> QED
  BY <1>2, <1>5, <1>7, <1>8 DEF SuspendInv

(* No timer of a thread is an application timer.                           *)
LEMMA AppTimersAreNoThreads ==
    ASSUME NEW tm \in AppTimers
    PROVE  tm \notin AppThreads /\ tm \in Timers
  BY AppTimersAssumption DEF AppThreads, Timers

(* A timer tm that is on neither list is registered.                       *)
LEMMA RegisterLists ==
    ASSUME TimerListInv, NEW tm \in Timers, NEW ticks \in Nat \ {0},
           tm \notin Range(timerQ), tm \in AppThreads => tm \notin Range(due),
           intr = "tick" => walk = <<>>,
           Register(tm, ticks), UNCHANGED <<intr, walk, due, systemTicks>>,
           DOMAIN cbFunc' = AppThreads
    PROVE  /\ TimerListInv'
           /\ Range(timerQ') = Range(timerQ) \cup {tm}
<1>1. /\ timerQ' \in Seq(Timers) /\ Range(timerQ') = Range(timerQ) \cup {tm}
      /\ NoDuplicates(timerQ')
  BY PrependedProperties DEF Register, TimerListInv, TimerLibTypeOK
<1>2. /\ cbTicks' \in [Timers -> Nat]
      /\ \A u \in Timers : cbTicks'[u] = IF u = tm THEN ticks ELSE cbTicks[u]
  BY DEF Register, TimerListInv, TimerLibTypeOK
<1>3. Range(timerQ') \subseteq Timers
  BY <1>1, InRange
<1>4. walk = <<>> /\ Range(walk) = {}
  BY DEF TimerListInv, Range
<1>5. TimerLibTypeOK'
  BY <1>1, <1>2 DEF TimerListInv, TimerLibTypeOK
<1> QED
  BY <1>1, <1>2, <1>3, <1>4, <1>5 DEF TimerListInv

(* A timer that the list holds is cancelled, while nothing is walked.      *)
LEMMA CancelLists ==
    ASSUME TimerListInv, NEW tm, CancelTimer(tm),
           intr = "tick" => walk = <<>>,
           cbTicks' \in [Timers -> Nat], DOMAIN cbFunc' = AppThreads,
           \A u \in Range(timerQ) : cbTicks'[u] = cbTicks[u],
           UNCHANGED <<intr, walk, due, systemTicks>>
    PROVE  TimerListInv' /\ Range(timerQ') = Range(timerQ) \ {tm}
<1>1. /\ timerQ' \in Seq(Timers) /\ Range(timerQ') = Range(timerQ) \ {tm}
      /\ NoDuplicates(timerQ')
  BY RemoveFirstProperties DEF CancelTimer, TimerListInv, TimerLibTypeOK
<1>2. walk = <<>> /\ Range(walk) = {}
  BY DEF TimerListInv, Range
<1> QED
  BY <1>1, <1>2 DEF TimerListInv, TimerLibTypeOK

(* A thread delays itself.                                                 *)
LEMMA DelaySuspend ==
    ASSUME NEW W, SuspendInv(W), NEW t \in AppThreads, NEW ticks \in Nat \ {0},
           MayCall(t), atomTimerDelay(t, ticks)
    PROVE  SuspendInv(W)'
<1>1. PICK V : V = Parked(W)
  OBVIOUS
<1>2. /\ t \in Threads /\ atomCurrentContext = t /\ pc[t] = "app"
  BY ThreadsAssumption DEF AppThreads, MayCall
<1>3. /\ started /\ intr = "none" /\ t = curr /\ ~ suspended[t] /\ t \notin V
      /\ t \notin PendingTimers /\ ~ terminated[t]
  BY <1>1, <1>2, RunningFacts
<1>4. /\ suspended' = [suspended EXCEPT ![t] = TRUE]
      /\ timoCb' = [timoCb EXCEPT ![t] = TRUE]
      /\ cbFunc' = [cbFunc EXCEPT ![t] = "delay"]
      /\ Register(t, ticks)
      /\ pc' = [pc EXCEPT ![t] = "delay"]
      /\ UNCHANGED <<readyQ, curr, started, intr, terminated, wakeStatus,
                     walk, due, systemTicks>>
  BY DEF atomTimerDelay
<1>5. /\ \A u \in Threads : timoCb'[u] = IF u = t THEN TRUE ELSE timoCb[u]
      /\ timoCb' \in [Threads -> BOOLEAN]
      /\ \A u \in Threads : pc'[u] = IF u = t THEN "delay" ELSE pc[u]
      /\ \A u \in AppThreads : cbFunc'[u] = IF u = t THEN "delay" ELSE cbFunc[u]
      /\ DOMAIN cbFunc' = AppThreads
  BY <1>2, <1>4 DEF SuspendInv, KernelInv, KernelTypeOK, TimerListInv, TimerLibTypeOK
<1>6. KernelInv(V \cup {t})'
  BY <1>1, <1>2, <1>3, <1>4, <1>5, ParkPreserves
     DEF SuspendInv, KernelInv, KernelTypeOK, KernelLabels
<1>7. TimerListInv' /\ Range(timerQ') = Range(timerQ) \cup {t}
  BY <1>3, <1>4, <1>5, RegisterLists DEF SuspendInv, PendingTimers, Timers
<1>8. PendingTimers' = PendingTimers \cup {t}
  BY <1>4, <1>7 DEF PendingTimers
<1>9. Parked(W)' = V \cup {t}
  BY <1>1, <1>5, <1>8 DEF Parked, DelayedThreads
<1>10. KernelInv(Parked(W))'
  <2>1. PICK U : U = V \cup {t}
    OBVIOUS
  <2> QED
    BY <2>1, <1>6, <1>9, ParkedAfter
<1>11. StackTimerInv(W)'
  <2>1. \A u \in W : u \in AppThreads /\ u \in Threads /\ u # t
    BY <1>1, <1>3, ParkedFacts DEF Parked
  <2>2. \A u \in W : pc'[u] = pc[u] /\ timoCb'[u] = timoCb[u] /\ cbFunc'[u] = cbFunc[u]
    BY <1>5, <2>1
  <2>3. ASSUME NEW u \in PendingTimers' \cap AppThreads
        PROVE  /\ timoCb'[u]
               /\ IF cbFunc'[u] = "delay" THEN pc'[u] \in {"delay", "delayed"} ELSE u \in W
    BY <1>5, <1>8, <2>3 DEF SuspendInv, StackTimerInv, AppThreads
  <2> QED
    BY <1>8, <2>2, <2>3 DEF SuspendInv, StackTimerInv
<1>12. CallInv'
  BY <1>3, <1>4, <1>5 DEF SuspendInv, CallInv
<1> QED
  BY <1>7, <1>10, <1>11, <1>12 DEF SuspendInv

(* A thread leaves a blocking call, at label from, and its stack frame.    *)
LEMMA LeavePreserves ==
    ASSUME NEW W, SuspendInv(W), NEW t \in AppThreads, NEW from \in {"delayed", "got"},
           atomCurrentContext = t, pc[t] = from, pc' = [pc EXCEPT ![t] = "app"],
           DropStackTimer(t),
           UNCHANGED <<readyQ, curr, started, intr, suspended, terminated,
                       wakeStatus, timoCb, timerQ, walk, due, systemTicks>>
    PROVE  SuspendInv(W)'
<1>1. PICK V : V = Parked(W)
  OBVIOUS
<1>2. /\ t \in Threads /\ started /\ intr = "none" /\ t = curr /\ ~ suspended[t]
      /\ t \notin V /\ t \notin PendingTimers /\ ~ terminated[t]
  BY <1>1, RunningFacts DEF AppThreads
<1>3. /\ \A u \in Threads : pc'[u] = IF u = t THEN "app" ELSE pc[u]
      /\ DOMAIN pc' = Threads
      /\ \A u \in AppThreads : cbFunc'[u] = IF u = t THEN "delay" ELSE cbFunc[u]
      /\ DOMAIN cbFunc' = AppThreads
      /\ \A u \in Timers : cbTicks'[u] = IF u = t THEN 0 ELSE cbTicks[u]
      /\ cbTicks' \in [Timers -> Nat]
  BY <1>2 DEF DropStackTimer, SuspendInv, KernelInv, KernelTypeOK, TimerListInv, TimerLibTypeOK,
              Timers
<1>4. KernelInv(V)'
  BY <1>1, <1>2, <1>3, LabelsPreserve DEF SuspendInv
<1>5. PendingTimers' = PendingTimers
  BY DEF PendingTimers
<1>6. Parked(W)' = V
  <2>1. \A u \in AppThreads : u \in PendingTimers => cbFunc'[u] = cbFunc[u]
    BY <1>2, <1>3
  <2> QED
    BY <1>1, <1>5, <2>1 DEF Parked, DelayedThreads
<1>7. KernelInv(Parked(W))'
  BY <1>4, <1>6, ParkedAfter
<1>8. TimerListInv'
  <2>1. \A tm \in Range(timerQ) : tm # t /\ tm \in Timers
    BY <1>2, InRange DEF PendingTimers, SuspendInv, TimerListInv, TimerLibTypeOK
  <2> QED
    BY <1>3, <2>1 DEF SuspendInv, TimerListInv, TimerLibTypeOK
<1>9. StackTimerInv(W)'
  <2>1. \A u \in W : u \in AppThreads /\ u \in Threads /\ u # t
    BY <1>1, <1>2, ParkedFacts DEF Parked
  <2>2. \A u \in PendingTimers \cap AppThreads : u \in Threads /\ u # t
    BY <1>2 DEF AppThreads
  <2> QED
    BY <1>3, <1>5, <2>1, <2>2 DEF SuspendInv, StackTimerInv
<1>10. CallInv'
  BY <1>2, <1>3 DEF SuspendInv, CallInv
<1> QED
  BY <1>7, <1>8, <1>9, <1>10 DEF SuspendInv

LEMMA DelayReturnSuspend ==
    ASSUME NEW W, SuspendInv(W), NEW t \in AppThreads, DelayReturn(t)
    PROVE  SuspendInv(W)'
  BY LeavePreserves DEF DelayReturn

(* The timers of the application, and the clock.                           *)
LEMMA AppTimerSuspend ==
    ASSUME NEW W, SuspendInv(W), NEW c \in Contexts, MayCallTimer(c), NEW tm \in AppTimers,
           (\E ticks \in Ticks : AppTimerRegister(tm, ticks)) \/ AppTimerCancel(tm)
    PROVE  SuspendInv(W)'
<1>1. intr = "tick" => walk = <<>>
  <2>1. CASE c = Null
    BY <2>1 DEF MayCallTimer, MayCall, InAppCallback
  <2>2. CASE c # Null
    BY <2>2 DEF MayCallTimer, MayCall, InAppCallback, atomCurrentContext
  <2> QED
    BY <2>1, <2>2
<1>2. tm \in Timers /\ tm \notin AppThreads
  BY AppTimersAreNoThreads
<1>3. ASSUME NEW ticks \in Ticks, AppTimerRegister(tm, ticks) PROVE SuspendInv(W)'
  <2>1. /\ tm \notin Range(timerQ) /\ Register(tm, ticks)
        /\ UNCHANGED <<kernelVars, cbFunc, walk, due, systemTicks>> /\ UNCHANGED intr
        /\ ticks \in Nat \ {0}
    BY <1>3, TicksAssumption DEF AppTimerRegister, kernelVars
  <2>2. DOMAIN cbFunc' = AppThreads
    BY <2>1 DEF SuspendInv, TimerListInv, TimerLibTypeOK
  <2>3. TimerListInv' /\ Range(timerQ') = Range(timerQ) \cup {tm}
    BY <1>1, <1>2, <2>1, <2>2, RegisterLists DEF SuspendInv
  <2> QED
    BY <1>2, <2>1, <2>3, SameStackTimers DEF PendingTimers
<1>4. CASE AppTimerCancel(tm)
  <2>1. /\ CancelTimer(tm) /\ UNCHANGED intr
        /\ UNCHANGED <<kernelVars, cbTicks, cbFunc, walk, due, systemTicks>>
    BY <1>4 DEF AppTimerCancel, kernelVars
  <2>2. TimerListInv' /\ Range(timerQ') = Range(timerQ) \ {tm}
    <3>1. cbTicks' \in [Timers -> Nat] /\ DOMAIN cbFunc' = AppThreads
      BY <2>1 DEF SuspendInv, TimerListInv, TimerLibTypeOK
    <3> QED
      BY <1>1, <2>1, <3>1, CancelLists DEF SuspendInv
  <2> QED
    BY <1>2, <2>1, <2>2, SameStackTimers DEF PendingTimers
<1> QED
  BY <1>3, <1>4

LEMMA TimeSetSuspend ==
    ASSUME NEW W, SuspendInv(W), NEW now \in NewTimes, atomTimeSet(now)
    PROVE  SuspendInv(W)'
<1>1. /\ UNCHANGED <<kernelVars, timerQ, cbTicks, cbFunc, walk, due>> /\ UNCHANGED intr
      /\ systemTicks' \in 0..(TickMod - 1)
  BY NewTimesAssumption DEF atomTimeSet, kernelVars
<1>2. TimerListInv'
  BY <1>1 DEF SuspendInv, TimerListInv, TimerLibTypeOK
<1> QED
  BY <1>1, <1>2, SameStackTimers DEF PendingTimers

-----------------------------------------------------------------------------

(* The tick handler starts on a copy of the list.                          *)
LEMMA TickSuspend ==
    ASSUME NEW W, SuspendInv(W), atomTimerTick
    PROVE  SuspendInv(W)'
<1>1. PICK V : V = Parked(W)
  OBVIOUS
<1>2. /\ TickEnter /\ intr = "none" /\ intr' = "tick"
      /\ UNCHANGED <<readyQ, curr, started, suspended, terminated, wakeStatus, timoCb, pc>>
      /\ walk' = timerQ
      /\ UNCHANGED <<timerQ, cbTicks, cbFunc, due>>
      /\ systemTicks' = (systemTicks + 1) % TickMod
  BY DEF atomTimerTick, TickEnter, atomIntEnter
<1>3. KernelInv(V)'
  BY <1>1, <1>2, IntEnterPreserves DEF SuspendInv, TickEnter
<1>4. PendingTimers' = PendingTimers /\ Parked(W)' = V
  BY <1>1, <1>2 DEF PendingTimers, Parked, DelayedThreads
<1>5. KernelInv(Parked(W))'
  BY <1>3, <1>4, ParkedAfter
<1>6. TimerListInv'
  <2>1. systemTicks' \in 0..(TickMod - 1)
    BY <1>2, TickModAssumption DEF SuspendInv, TimerListInv, TimerLibTypeOK
  <2>2. due = <<>> /\ Range(due) = {}
    BY <1>2 DEF SuspendInv, TimerListInv, Range
  <2> QED
    BY <1>2, <2>1, <2>2 DEF SuspendInv, TimerListInv, TimerLibTypeOK
<1>7. StackTimerInv(W)' /\ CallInv'
  BY <1>2, <1>4 DEF SuspendInv, StackTimerInv, CallInv
<1> QED
  BY <1>5, <1>6, <1>7 DEF SuspendInv

(* One timer of the walk: what expires is due and leaves the list.         *)
LEMMA WalkSuspend ==
    ASSUME NEW W, SuspendInv(W), TimerWalk
    PROVE  SuspendInv(W)'
<1> DEFINE tm == Head(walk)
<1>1. /\ intr = "tick" /\ walk # <<>> /\ walk' = Tail(walk)
      /\ cbTicks' = [cbTicks EXCEPT ![tm] = cbTicks[tm] - 1]
      /\ IF cbTicks[tm] = 1
           THEN timerQ' = RemoveFirst(timerQ, tm) /\ due' = Append(due, tm)
           ELSE UNCHANGED <<timerQ, due>>
      /\ UNCHANGED <<kernelVars, cbFunc, systemTicks>>
  BY DEF TimerWalk
<1>2. UNCHANGED intr
  BY <1>1 DEF kernelVars
<1>3. /\ tm \in Timers /\ tm \in Range(walk)
      /\ walk' \in Seq(Timers) /\ NoDuplicates(walk')
      /\ Range(walk) = Range(walk') \cup {tm} /\ tm \notin Range(walk')
  BY <1>1, TailProperties DEF SuspendInv, TimerListInv, TimerLibTypeOK
<1>4. /\ tm \in Range(timerQ) /\ cbTicks[tm] \in Nat /\ cbTicks[tm] > 0
      /\ Range(timerQ) \cap Range(due) = {}
  BY <1>1, <1>3 DEF SuspendInv, TimerListInv, TimerLibTypeOK
<1> HIDE DEF tm
<1>5. /\ cbTicks' \in [Timers -> Nat]
      /\ \A u \in Timers : u # tm => cbTicks'[u] = cbTicks[u]
      /\ cbTicks'[tm] = cbTicks[tm] - 1
  BY <1>1, <1>3, <1>4 DEF SuspendInv, TimerListInv, TimerLibTypeOK
<1>6. \A u \in Range(timerQ) : u \in Timers /\ cbTicks[u] > 0
  <2>1. timerQ \in Seq(Timers) /\ \A u \in Range(timerQ) : cbTicks[u] > 0
    BY DEF SuspendInv, TimerListInv, TimerLibTypeOK
  <2> QED
    BY <2>1, InRange
<1>7. CASE cbTicks[tm] = 1
  <2>1. /\ timerQ' \in Seq(Timers) /\ NoDuplicates(timerQ')
        /\ Range(timerQ') = Range(timerQ) \ {tm}
    BY <1>1, <1>7, RemoveFirstProperties DEF SuspendInv, TimerListInv, TimerLibTypeOK
  <2>2. /\ due' \in Seq(Timers) /\ NoDuplicates(due') /\ Range(due') = Range(due) \cup {tm}
    <3>1. due \in Seq(Timers) /\ NoDuplicates(due) /\ tm \notin Range(due)
      BY <1>4 DEF SuspendInv, TimerListInv, TimerLibTypeOK
    <3>2. due' = Append(due, tm)
      BY <1>1, <1>7
    <3> QED
      BY <1>3, <3>1, <3>2, AppendedProperties
  <2>3. TimerListInv'
    <3>1. \A u \in Range(timerQ') : cbTicks'[u] > 0
      BY <1>5, <1>6, <2>1
    <3>2. Range(walk') \subseteq Range(timerQ') /\ Range(timerQ') \cap Range(due') = {}
      BY <1>3, <1>4, <2>1, <2>2 DEF SuspendInv, TimerListInv
    <3> QED
      BY <1>1, <1>2, <1>3, <1>5, <2>1, <2>2, <3>1, <3>2
         DEF SuspendInv, TimerListInv, TimerLibTypeOK
  <2>4. PendingTimers' = PendingTimers
    BY <1>4, <2>1, <2>2 DEF PendingTimers
  <2> QED
    BY <1>1, <2>3, <2>4, SameStackTimers
<1>8. CASE cbTicks[tm] # 1
  <2>1. UNCHANGED <<timerQ, due>>
    BY <1>1, <1>8
  <2>2. \A u \in Range(timerQ) : cbTicks'[u] > 0
    BY <1>4, <1>5, <1>6, <1>8
  <2>3. TimerListInv'
    BY <1>1, <1>2, <1>3, <1>4, <1>5, <2>1, <2>2 DEF SuspendInv, TimerListInv, TimerLibTypeOK
  <2> QED
    BY <1>1, <2>1, <2>3, SameStackTimers DEF PendingTimers
<1> QED
  BY <1>7, <1>8

(* The first callback has been made.                                       *)
LEMMA CallbackLists ==
    ASSUME TimerListInv, walk = <<>>, due # <<>>, due' = Tail(due),
           UNCHANGED <<intr, timerQ, cbTicks, cbFunc, walk, systemTicks>>
    PROVE  /\ TimerListInv'
           /\ Head(due) \in Timers /\ Head(due) \in Range(due)
           /\ Range(due) = Range(due') \cup {Head(due)} /\ Head(due) \notin Range(due')
<1>1. /\ Head(due) \in Timers /\ Head(due) \in Range(due)
      /\ due' \in Seq(Timers) /\ NoDuplicates(due')
      /\ Range(due) = Range(due') \cup {Head(due)} /\ Head(due) \notin Range(due')
  BY TailProperties DEF TimerListInv, TimerLibTypeOK
<1>2. intr = "tick"
  BY DEF TimerListInv
<1> QED
  BY <1>1, <1>2 DEF TimerListInv, TimerLibTypeOK

(* A thread with the callback func due next is one.                        *)
LEMMA CallbackDueFacts ==
    ASSUME NEW W, SuspendInv(W), NEW t \in AppThreads, NEW func, CallbackDue(t, func)
    PROVE  /\ t \in Threads /\ t \in PendingTimers /\ t = Head(due) /\ t \in Range(due)
           /\ t \notin Range(timerQ) /\ intr = "tick" /\ timoCb[t] /\ cbFunc[t] = func
           /\ walk = <<>> /\ due # <<>>
<1>1. t = Head(due) /\ due # <<>> /\ intr = "tick" /\ walk = <<>> /\ cbFunc[t] = func
  BY DEF CallbackDue
<1>2. t \in Range(due)
  BY <1>1, TailProperties DEF SuspendInv, TimerListInv, TimerLibTypeOK
<1>3. t \notin Range(timerQ)
  BY <1>2 DEF SuspendInv, TimerListInv
<1> QED
  BY <1>1, <1>2, <1>3 DEF SuspendInv, StackTimerInv, PendingTimers, AppThreads

(* The callback of a delay wakes its thread.                               *)
LEMMA DelayCallbackSuspend ==
    ASSUME NEW W, SuspendInv(W), NEW t \in AppThreads, atomTimerDelayCallback(t)
    PROVE  SuspendInv(W)'
<1>1. PICK V : V = Parked(W)
  OBVIOUS
<1>2. /\ t \in Threads /\ t \in PendingTimers /\ t = Head(due) /\ t \in Range(due)
      /\ t \notin Range(timerQ) /\ intr = "tick" /\ cbFunc[t] = "delay"
      /\ walk = <<>> /\ due # <<>>
  BY CallbackDueFacts DEF atomTimerDelayCallback
<1>3. /\ readyQ' = tcbEnqueuePriority(readyQ, t) /\ due' = Tail(due)
      /\ UNCHANGED <<curr, started, intr, suspended, terminated, wakeStatus, timoCb, pc,
                     timerQ, cbTicks, cbFunc, walk, systemTicks>>
  BY DEF atomTimerDelayCallback
<1>4. t \in V /\ t \in DelayedThreads /\ t \notin W
  BY <1>1, <1>2 DEF Parked, DelayedThreads, SuspendInv, StackTimerInv
<1>5. KernelInv(V \ {t})'
  BY <1>1, <1>3, <1>4, UnparkPreserves DEF SuspendInv, KernelInv, KernelTypeOK
<1>6. /\ TimerListInv' /\ Range(due) = Range(due') \cup {t} /\ t \notin Range(due')
  BY <1>2, <1>3, CallbackLists DEF SuspendInv
<1>7. PendingTimers' = PendingTimers \ {t}
  BY <1>2, <1>3, <1>6 DEF PendingTimers
<1>8. Parked(W)' = V \ {t}
  BY <1>1, <1>3, <1>4, <1>7 DEF Parked, DelayedThreads
<1>9. KernelInv(Parked(W))'
  <2>1. PICK U : U = V \ {t}
    OBVIOUS
  <2> QED
    BY <2>1, <1>5, <1>8, ParkedAfter
<1>10. StackTimerInv(W)'
  BY <1>3, <1>4, <1>7 DEF SuspendInv, StackTimerInv
<1>11. CallInv'
  BY <1>3 DEF SuspendInv, CallInv
<1> QED
  BY <1>6, <1>9, <1>10, <1>11 DEF SuspendInv

(* A callback of the application returns.                                  *)
LEMMA AppCallbackSuspend ==
    ASSUME NEW W, SuspendInv(W), AppCallbackReturn
    PROVE  SuspendInv(W)'
<1>1. /\ walk = <<>> /\ due # <<>> /\ Head(due) \in AppTimers /\ due' = Tail(due)
      /\ UNCHANGED <<kernelVars, timerQ, cbTicks, cbFunc, walk, systemTicks>>
      /\ UNCHANGED intr
  BY DEF AppCallbackReturn, InAppCallback, kernelVars
<1>2. TimerListInv' /\ Range(due) = Range(due') \cup {Head(due)}
  BY <1>1, CallbackLists DEF SuspendInv
<1>3. \A t \in AppThreads : t \in PendingTimers' <=> t \in PendingTimers
  BY <1>1, <1>2, AppTimersAreNoThreads DEF PendingTimers
<1> QED
  BY <1>1, <1>2, <1>3, SameStackTimers

(* The tick handler has made its callbacks and leaves.                     *)
LEMMA TickExitSuspend ==
    ASSUME NEW W, SuspendInv(W), TimerTickExit
    PROVE  SuspendInv(W)'
<1>1. PICK V : V = Parked(W)
  OBVIOUS
<1>2. /\ walk = <<>> /\ due = <<>> /\ atomIntExit("tick", TRUE) /\ intr = "tick"
      /\ atomSched(TRUE) /\ started /\ UNCHANGED timerVars
      /\ UNCHANGED <<started, terminated, wakeStatus, timoCb, pc>>
  BY DEF TimerTickExit, TickExit, atomIntExit, SuspendInv, KernelInv, ContextInv
<1>3. KernelInv(V)'
  BY <1>1, <1>2, IntExitPreserves DEF SuspendInv
<1>4. KernelInv(Parked(W))'
  BY <1>1, <1>2, <1>3, ParkedAfter DEF Parked, DelayedThreads, PendingTimers, timerVars
<1>5. CallInv'
  BY <1>2, SchedCallInv DEF SuspendInv, CallInv
<1> QED
  BY <1>2, <1>4, <1>5, SameTimers

(* Every step of the scheduler and of the timers.                          *)
LEMMA TimerNextSuspend ==
    ASSUME NEW W, SuspendInv(W), TimerNext
    PROVE  SuspendInv(W)'
<1>1. CASE TimerCall
  <2>1. ASSUME NEW t \in AppThreads, NEW ticks \in Ticks, MayCall(t), atomTimerDelay(t, ticks)
        PROVE  SuspendInv(W)'
    BY <2>1, DelaySuspend, TicksAssumption
  <2>2. ASSUME NEW t \in AppThreads, DelaySched(t) PROVE SuspendInv(W)'
    BY <2>2, CallSchedSuspend DEF DelaySched
  <2>3. ASSUME NEW t \in AppThreads, DelayReturn(t) PROVE SuspendInv(W)'
    BY <2>3, DelayReturnSuspend
  <2> QED
    BY <1>1, <2>1, <2>2, <2>3, AppTimerSuspend, TimeSetSuspend DEF TimerCall
<1> QED
  BY <1>1, KernelStepSuspend, TickSuspend, WalkSuspend, DelayCallbackSuspend,
     AppCallbackSuspend, TickExitSuspend DEF TimerNext, TickHandler

(* A thread moves between labels of the scheduler and the timers only.     *)
LabelsMove ==
    \A t \in Threads : pc'[t] = pc[t] \/ (pc[t] \in TimerLabels /\ pc'[t] \in TimerLabels)

(* They leave the threads that wait on objects alone, and every label of   *)
(* the blocking calls.                                                     *)
LEMMA TimerNextFrame ==
    ASSUME NEW W, SuspendInv(W), TimerNext
    PROVE  /\ wakeStatus' = wakeStatus
           /\ \A t \in W : pc'[t] = pc[t] /\ timoCb'[t] = timoCb[t] /\ cbFunc'[t] = cbFunc[t]
           /\ LabelsMove
           /\ \A t \in AppThreads : cbFunc'[t] \in {cbFunc[t], "delay"}
<1>1. wakeStatus' = wakeStatus
  BY DEF TimerNext, KernelStep, TimerCall, TickHandler, atomOSStart, atomThreadCreate, Resched,
         ThreadExit, ThreadExitSched, CallSched, IrqEnter, IrqExit, atomIntEnter, atomIntExit,
         atomTimerDelay, DelaySched, DelayReturn, AppTimerRegister, AppTimerCancel, atomTimeSet,
         atomTimerTick, TickEnter, TimerWalk, atomTimerDelayCallback, AppCallbackReturn,
         TimerTickExit, TickExit, kernelVars
<1>2. DOMAIN pc = Threads /\ timoCb \in [Threads -> BOOLEAN] /\ DOMAIN cbFunc = AppThreads
  BY DEF SuspendInv, KernelInv, KernelTypeOK, TimerListInv, TimerLibTypeOK
<1>3. \A t \in W : t \in Threads /\ t \in AppThreads /\ suspended[t] /\ ~ terminated[t]
                   /\ pc[t] \in {"get", "got"} /\ (t = curr => pc[t] \in {"delay", "get"})
  BY ParkedFacts DEF Parked, SuspendInv, StackTimerInv
<1>4. CASE UNCHANGED <<pc, timoCb, cbFunc>>
  BY <1>1, <1>4 DEF LabelsMove
<1>5. ASSUME NEW t \in AppThreads, NEW from \in TimerLabels, NEW to \in TimerLabels,
             atomCurrentContext = t, pc[t] = from, pc' = [pc EXCEPT ![t] = to],
             cbFunc' = cbFunc \/ cbFunc' = [cbFunc EXCEPT ![t] = "delay"],
             timoCb' = timoCb \/ timoCb' = [timoCb EXCEPT ![t] = TRUE]
      PROVE  /\ \A u \in W : pc'[u] = pc[u] /\ timoCb'[u] = timoCb[u] /\ cbFunc'[u] = cbFunc[u]
             /\ LabelsMove
             /\ \A u \in AppThreads : cbFunc'[u] \in {cbFunc[u], "delay"}
  <2>1. t \in Threads /\ t \notin W
    BY <1>3, <1>5 DEF AppThreads, TimerLabels, KernelLabels
  <2>2. \A u \in Threads : pc'[u] = IF u = t THEN to ELSE pc[u]
    BY <1>2, <1>5
  <2>3. \A u \in AppThreads : cbFunc'[u] = cbFunc[u] \/ (u = t /\ cbFunc'[u] = "delay")
    BY <1>2, <1>5
  <2>4. \A u \in Threads : u # t => timoCb'[u] = timoCb[u]
    BY <1>2, <1>5
  <2>5. LabelsMove
    BY <1>5, <2>2 DEF LabelsMove
  <2> QED
    BY <1>3, <2>1, <2>2, <2>3, <2>4, <2>5
<1>6. ASSUME NEW c \in Contexts, NEW t \in AppThreads, MayCallTimer(c), atomThreadCreate(c, t),
             cbFunc' = cbFunc
      PROVE  /\ \A u \in W : pc'[u] = pc[u] /\ timoCb'[u] = timoCb[u] /\ cbFunc'[u] = cbFunc[u]
             /\ LabelsMove
             /\ \A u \in AppThreads : cbFunc'[u] \in {cbFunc[u], "delay"}
  <2>1. c \in Threads => pc[c] = "app"
    BY <1>6, ThreadsAssumption DEF MayCallTimer, MayCall
  <2>2. /\ t \in Threads /\ t \notin W
        /\ pc[t] \in TimerLabels
    BY <1>3, <1>6
       DEF atomThreadCreate, AppThreads, SuspendInv, CallInv, TimerLabels, KernelLabels
  <2>3. /\ \A u \in Threads : pc'[u] = IF u = t THEN "app" ELSE IF u = c THEN "resched" ELSE pc[u]
        /\ \A u \in Threads : u # t => timoCb'[u] = timoCb[u]
    BY <1>2, <1>6 DEF atomThreadCreate
  <2>4. LabelsMove
    BY <2>1, <2>2, <2>3 DEF LabelsMove, TimerLabels, KernelLabels
  <2>5. \A u \in W : u # t /\ u # c
    BY <1>3, <2>1, <2>2
  <2> QED
    BY <1>3, <1>6, <2>3, <2>4, <2>5
<1>7. CASE KernelStep
  <2>1. cbFunc' = cbFunc
    BY <1>7 DEF KernelStep, timerVars
  <2>2. ASSUME NEW t \in AppThreads, Resched(t) \/ ThreadExitSched(t) \/ ThreadExit(t)
        PROVE  \E from, to \in TimerLabels :
                  atomCurrentContext = t /\ pc[t] = from /\ pc' = [pc EXCEPT ![t] = to]
                  /\ timoCb' = timoCb
    BY <2>2, ThreadsAssumption
       DEF Resched, ThreadExitSched, ThreadExit, CallSched, MayCall, AppThreads, TimerLabels,
           KernelLabels
  <2> QED
    BY <1>1, <1>4, <1>5, <1>6, <1>7, <2>1, <2>2
       DEF KernelStep, atomOSStart, IrqEnter, IrqExit, atomIntEnter, atomIntExit
<1>8. CASE TimerCall
  <2>1. ASSUME NEW t \in AppThreads, NEW ticks \in Ticks, MayCall(t), atomTimerDelay(t, ticks)
        PROVE  /\ atomCurrentContext = t /\ pc[t] = "app" /\ pc' = [pc EXCEPT ![t] = "delay"]
               /\ cbFunc' = [cbFunc EXCEPT ![t] = "delay"]
               /\ timoCb' = [timoCb EXCEPT ![t] = TRUE]
    BY <2>1, ThreadsAssumption DEF MayCall, atomTimerDelay, AppThreads
  <2>2. ASSUME NEW t \in AppThreads, DelaySched(t)
        PROVE  /\ atomCurrentContext = t /\ pc[t] = "delay" /\ pc' = [pc EXCEPT ![t] = "delayed"]
               /\ cbFunc' = cbFunc /\ timoCb' = timoCb
    BY <2>2 DEF DelaySched, CallSched, timerVars
  <2>3. ASSUME NEW t \in AppThreads, DelayReturn(t)
        PROVE  /\ atomCurrentContext = t /\ pc[t] = "delayed" /\ pc' = [pc EXCEPT ![t] = "app"]
               /\ cbFunc' = [cbFunc EXCEPT ![t] = "delay"] /\ timoCb' = timoCb
    BY <2>3 DEF DelayReturn, DropStackTimer
  <2>4. {"app", "delay", "delayed"} \subseteq TimerLabels
    BY DEF TimerLabels, KernelLabels
  <2>5. CASE \E t \in AppThreads, ticks \in Ticks : MayCall(t) /\ atomTimerDelay(t, ticks)
    BY <1>1, <1>5, <2>1, <2>4, <2>5
  <2>6. CASE \E t \in AppThreads : DelaySched(t) \/ DelayReturn(t)
    BY <1>1, <1>5, <2>2, <2>3, <2>4, <2>6
  <2>7. CASE \/ \E c \in Contexts, tm \in AppTimers :
                   (\E ticks \in Ticks : AppTimerRegister(tm, ticks)) \/ AppTimerCancel(tm)
             \/ \E now \in NewTimes : atomTimeSet(now)
    BY <1>4, <2>7 DEF AppTimerRegister, AppTimerCancel, atomTimeSet, kernelVars
  <2> QED
    BY <1>8, <2>5, <2>6, <2>7 DEF TimerCall
<1>9. CASE atomTimerTick \/ TickHandler
  BY <1>4, <1>9
     DEF atomTimerTick, TickEnter, atomIntEnter, TickHandler, TimerWalk, atomTimerDelayCallback,
         AppCallbackReturn, TimerTickExit, TickExit, atomIntExit, timerVars, kernelVars
<1> QED
  BY <1>7, <1>8, <1>9 DEF TimerNext

(* pc and cbFunc stay functions: what their values are is a matter of the  *)
(* module.                                                                 *)
IsFunction(f, S) == f = [x \in S |-> f[x]]

LEMMA FunctionSet ==
    ASSUME NEW f, NEW S, NEW T, IsFunction(f, S), \A x \in S : f[x] \in T
    PROVE  f \in [S -> T]
  BY DEF IsFunction

LEMMA ExceptIsFunction ==
    ASSUME NEW f, NEW S, DOMAIN f = S, NEW a, NEW b
    PROVE  IsFunction([f EXCEPT ![a] = b], S)
  BY DEF IsFunction

LEMMA TimerNextFunctions ==
    ASSUME NEW W, SuspendInv(W), TimerNext, IsFunction(pc, Threads), IsFunction(cbFunc, AppThreads)
    PROVE  IsFunction(pc', Threads) /\ IsFunction(cbFunc', AppThreads)
<1>1. DOMAIN pc = Threads /\ DOMAIN cbFunc = AppThreads
  BY DEF SuspendInv, KernelInv, KernelTypeOK, TimerListInv, TimerLibTypeOK
<1>2. \/ pc' = pc
      \/ \E t, to : pc' = [pc EXCEPT ![t] = to]
      \/ \E c, t : atomThreadCreate(c, t)
  BY DEF TimerNext, KernelStep, TimerCall, TickHandler, atomOSStart, Resched,
         ThreadExit, ThreadExitSched, CallSched, IrqEnter, IrqExit, atomIntEnter, atomIntExit,
         atomTimerDelay, DelaySched, DelayReturn, AppTimerRegister, AppTimerCancel, atomTimeSet,
         atomTimerTick, TickEnter, TimerWalk, atomTimerDelayCallback, AppCallbackReturn,
         TimerTickExit, TickExit, kernelVars
<1>3. \/ cbFunc' = cbFunc
      \/ \E t, to : cbFunc' = [cbFunc EXCEPT ![t] = to]
  BY DEF TimerNext, KernelStep, TimerCall, TickHandler, atomTimerDelay, DelaySched, DelayReturn,
         DropStackTimer, AppTimerRegister, AppTimerCancel, atomTimeSet, atomTimerTick, TimerWalk,
         atomTimerDelayCallback, AppCallbackReturn, TimerTickExit, timerVars
<1>4. IsFunction(pc', Threads)
  BY <1>1, <1>2, ExceptIsFunction DEF atomThreadCreate, IsFunction
<1>5. IsFunction(cbFunc', AppThreads)
  BY <1>1, <1>3, ExceptIsFunction
<1> QED
  BY <1>4, <1>5

-----------------------------------------------------------------------------

(* The calling thread waits on obj, with or without a timeout.             *)
LEMMA SuspendPreserves ==
    ASSUME NEW W, SuspendInv(W), NEW t \in AppThreads, NEW obj, obj # "delay",
           NEW timeout \in Nat, MayCall(t), Suspend(t, obj, timeout)
    PROVE  /\ SuspendInv(W \cup {t})' /\ t \notin Parked(W) /\ t = curr
           /\ cbFunc' \in {cbFunc, [cbFunc EXCEPT ![t] = obj]}
           /\ timoCb'[t] => cbFunc'[t] = obj
<1>1. PICK V : V = Parked(W)
  OBVIOUS
<1>2. /\ t \in Threads /\ atomCurrentContext = t /\ pc[t] = "app"
  BY ThreadsAssumption DEF AppThreads, MayCall
<1>3. /\ started /\ intr = "none" /\ t = curr /\ ~ suspended[t] /\ t \notin V
      /\ t \notin PendingTimers /\ ~ terminated[t]
  BY <1>1, <1>2, RunningFacts
<1>4. /\ suspended' = [suspended EXCEPT ![t] = TRUE]
      /\ timoCb' = [timoCb EXCEPT ![t] = (timeout # 0)]
      /\ pc' = [pc EXCEPT ![t] = "get"]
      /\ UNCHANGED <<readyQ, curr, started, intr, terminated, wakeStatus,
                     walk, due, systemTicks>>
  BY DEF Suspend
<1>5. /\ \A u \in Threads : timoCb'[u] = IF u = t THEN timeout # 0 ELSE timoCb[u]
      /\ timoCb' \in [Threads -> BOOLEAN]
      /\ \A u \in Threads : pc'[u] = IF u = t THEN "get" ELSE pc[u]
      /\ DOMAIN cbFunc = AppThreads
  BY <1>2, <1>4 DEF SuspendInv, KernelInv, KernelTypeOK, TimerListInv, TimerLibTypeOK
<1>6. KernelInv(V \cup {t})'
  BY <1>1, <1>2, <1>3, <1>4, <1>5, ParkPreserves
     DEF SuspendInv, KernelInv, KernelTypeOK, KernelLabels
<1>7. /\ TimerListInv'
      /\ Range(timerQ') = IF timeout # 0 THEN Range(timerQ) \cup {t} ELSE Range(timerQ)
      /\ DOMAIN cbFunc' = AppThreads
      /\ cbFunc' \in {cbFunc, [cbFunc EXCEPT ![t] = obj]}
      /\ \A u \in AppThreads : u # t => cbFunc'[u] = cbFunc[u]
      /\ timeout # 0 => cbFunc'[t] = obj
  <2>1. CASE timeout = 0
    <3>1. UNCHANGED <<timerQ, cbTicks, cbFunc>>
      BY <2>1 DEF Suspend
    <3> QED
      BY <1>4, <1>5, <2>1, <3>1 DEF SuspendInv, TimerListInv, TimerLibTypeOK
  <2>2. CASE timeout # 0
    <3>1. Register(t, timeout) /\ cbFunc' = [cbFunc EXCEPT ![t] = obj]
      BY <2>2 DEF Suspend
    <3>2. DOMAIN cbFunc' = AppThreads
      BY <1>5, <3>1
    <3>3. TimerListInv' /\ Range(timerQ') = Range(timerQ) \cup {t}
      BY <1>3, <1>4, <2>2, <3>1, <3>2, RegisterLists DEF SuspendInv, PendingTimers, Timers
    <3> QED
      BY <1>5, <2>2, <3>1, <3>2, <3>3
  <2> QED
    BY <2>1, <2>2
<1>8. PendingTimers' = IF timeout # 0 THEN PendingTimers \cup {t} ELSE PendingTimers
  BY <1>4, <1>7 DEF PendingTimers
<1>9. Parked(W \cup {t})' = V \cup {t}
  <2>1. DelayedThreads' = DelayedThreads
    BY <1>3, <1>7, <1>8 DEF DelayedThreads
  <2> QED
    BY <1>1, <2>1 DEF Parked
<1>10. KernelInv(Parked(W \cup {t}))'
  <2>1. PICK U : U = V \cup {t}
    OBVIOUS
  <2> QED
    BY <2>1, <1>6, <1>9, ParkedAfter
<1>11. StackTimerInv(W \cup {t})'
  <2>1. ASSUME NEW u \in PendingTimers' \cap AppThreads
        PROVE  /\ timoCb'[u]
               /\ IF cbFunc'[u] = "delay" THEN pc'[u] \in {"delay", "delayed"}
                                          ELSE u \in W \cup {t}
    BY <1>3, <1>5, <1>7, <1>8, <2>1 DEF SuspendInv, StackTimerInv, AppThreads
  <2>2. \A u \in W : u \in AppThreads /\ u \in Threads /\ u # t
    BY <1>1, <1>3, ParkedFacts DEF Parked
  <2>3. ASSUME NEW u \in W \cup {t}
        PROVE  /\ pc'[u] \in {"get", "got"}
               /\ timoCb'[u] => u \in PendingTimers' /\ cbFunc'[u] # "delay"
    BY <1>2, <1>5, <1>7, <1>8, <2>2, <2>3 DEF SuspendInv, StackTimerInv
  <2> QED
    BY <2>1, <2>3 DEF StackTimerInv
<1>12. CallInv'
  BY <1>3, <1>4, <1>5 DEF SuspendInv, CallInv
<1> QED
  BY <1>1, <1>2, <1>3, <1>5, <1>7, <1>10, <1>11, <1>12 DEF SuspendInv

(* Outside the tick handler a pending timeout can be cancelled.            *)
LEMMA CancelSucceeds ==
    ASSUME NEW W, SuspendInv(W), NEW t \in W, intr # "tick"
    PROVE  ~ CancelTimeoutFails(t)
<1>1. /\ timerQ \in Seq(Timers) /\ due = <<>> /\ Range(due) = {}
  BY DEF SuspendInv, TimerListInv, TimerLibTypeOK, Range
<1>2. timoCb[t] => t \in Range(timerQ)
  BY <1>1 DEF SuspendInv, StackTimerInv, PendingTimers
<1>3. t \in Range(timerQ) => Contains(timerQ, t)
  BY <1>1, InRange DEF Contains
<1> QED
  BY <1>2, <1>3 DEF CancelTimeoutFails, Cancelable

(* What a context that wakes does besides: it goes to another label, and   *)
(* may drop a timer on its own stack, which is not pending.                *)
WakerFrame(W) ==
    /\ DOMAIN pc' = Threads
    /\ \A u \in Threads : \/ pc'[u] = pc[u]
                          \/ /\ u \notin Parked(W)
                             /\ pc[u] \notin {"delay", "get", "none", "exit"}
                             /\ pc'[u] # "none"
    /\ cbTicks' \in [Timers -> Nat] /\ DOMAIN cbFunc' = AppThreads
    /\ \A u \in PendingTimers : cbTicks'[u] = cbTicks[u]
    /\ \A u \in Parked(W) : cbFunc'[u] = cbFunc[u]
    /\ UNCHANGED <<curr, started, intr, suspended, terminated, walk, due, systemTicks>>

(* A waiting thread is woken by another thread, by main() or by the        *)
(* handler of an interrupt other than the tick, so that no callback is     *)
(* due: its timeout is cancelled.                                          *)
LEMMA WakeKeeps ==
    ASSUME NEW W, SuspendInv(W), NEW t \in W, NEW status \in WakeStatus, intr # "tick",
           WakeUp(t, status), CancelTimeout(t), WakerFrame(W)
    PROVE  /\ SuspendInv(W \ {t})' /\ ReadyThreads' = ReadyThreads \cup {t}
           /\ ~ CancelTimeoutFails(t)
           /\ timoCb' = [timoCb EXCEPT ![t] = FALSE]
<1>f. /\ DOMAIN pc' = Threads
      /\ \A u \in Threads : \/ pc'[u] = pc[u]
                            \/ /\ u \notin Parked(W)
                               /\ pc[u] \notin {"delay", "get", "none", "exit"}
                               /\ pc'[u] # "none"
      /\ cbTicks' \in [Timers -> Nat] /\ DOMAIN cbFunc' = AppThreads
      /\ \A u \in PendingTimers : cbTicks'[u] = cbTicks[u]
      /\ \A u \in Parked(W) : cbFunc'[u] = cbFunc[u]
      /\ UNCHANGED <<curr, started, intr, suspended, terminated, walk, due, systemTicks>>
  BY DEF WakerFrame
<1>1. PICK V : V = Parked(W)
  OBVIOUS
<1>2. /\ t \in V /\ t \in AppThreads /\ t \in Threads /\ pc[t] \in {"get", "got"}
      /\ walk = <<>> /\ due = <<>> /\ Range(due) = {}
  BY <1>f, <1>1, ParkedFacts DEF Parked, SuspendInv, StackTimerInv, TimerListInv, Range
<1>3. timerQ \in Seq(Timers) /\ NoDuplicates(timerQ)
  BY <1>f DEF SuspendInv, TimerListInv, TimerLibTypeOK
<1>4. ~ CancelTimeoutFails(t)
  BY <1>f, CancelSucceeds
<1>5. /\ timoCb' = [timoCb EXCEPT ![t] = FALSE]
      /\ IF timoCb[t] THEN CancelTimer(t) ELSE UNCHANGED timerQ
  BY <1>f, <1>4 DEF CancelTimeout
<1>6. TimerListInv' /\ Range(timerQ') = Range(timerQ) \ {t}
  <2>1. CASE timoCb[t]
    BY <1>f, <1>5, <2>1, CancelLists DEF SuspendInv, PendingTimers
  <2>2. CASE ~ timoCb[t]
    <3>1. t \notin Range(timerQ)
      BY <1>f, <1>2, <2>2 DEF SuspendInv, StackTimerInv, PendingTimers
    <3> QED
      BY <1>f, <1>5, <2>2, <3>1 DEF SuspendInv, TimerListInv, TimerLibTypeOK, PendingTimers
  <2> QED
    BY <1>f, <2>1, <2>2
<1>7. PendingTimers' = PendingTimers \ {t}
  BY <1>f, <1>2, <1>6 DEF PendingTimers
<1>8. /\ \A u \in Threads : timoCb'[u] = IF u = t THEN FALSE ELSE timoCb[u]
      /\ timoCb' \in [Threads -> BOOLEAN]
      /\ wakeStatus' \in [Threads -> WakeStatus]
      /\ readyQ' = tcbEnqueuePriority(readyQ, t)
  BY <1>f, <1>2, <1>5 DEF SuspendInv, KernelInv, KernelTypeOK, WakeUp
<1>9. started /\ suspended[curr] => curr \in Threads /\ pc'[curr] = pc[curr]
  BY <1>f DEF SuspendInv, CallInv, KernelInv, SchedInv
<1>10. KernelInv(V \ {t})' /\ ReadyThreads' = ReadyThreads \cup {t}
  BY <1>f, <1>1, <1>2, <1>8, <1>9, UnparkPreserves DEF SuspendInv
<1>11. t \notin DelayedThreads
  BY <1>f, <1>2 DEF SuspendInv, StackTimerInv, DelayedThreads
<1>12. Parked(W \ {t})' = V \ {t}
  <2>1. \A u \in PendingTimers \cap AppThreads : cbFunc'[u] = cbFunc[u]
    BY <1>f, ParkedFacts
  <2> QED
    BY <1>f, <1>1, <1>7, <1>11, <2>1 DEF Parked, DelayedThreads
<1>13. KernelInv(Parked(W \ {t}))'
  <2>1. PICK U : U = V \ {t}
    OBVIOUS
  <2> QED
    BY <1>f, <2>1, <1>10, <1>12, ParkedAfter
<1>14. \A u \in V : u \in Threads /\ u \in AppThreads /\ pc'[u] = pc[u]
  BY <1>f, <1>1, ParkedFacts
<1>15. StackTimerInv(W \ {t})'
  <2>1. \A u \in PendingTimers' \cap AppThreads : u \in V /\ u # t
    BY <1>f, <1>1, <1>7, ParkedFacts
  <2>2. W \subseteq V
    BY <1>f, <1>1 DEF Parked
  <2>3. StackTimerInv(W)
    BY <1>f DEF SuspendInv
  <2>4. ASSUME NEW u \in PendingTimers' \cap AppThreads
        PROVE  /\ timoCb'[u]
               /\ IF cbFunc'[u] = "delay" THEN pc'[u] \in {"delay", "delayed"} ELSE u \in W \ {t}
    <3>1. u \in V /\ u # t /\ u \in PendingTimers \cap AppThreads
      BY <1>7, <2>1
    <3>2. timoCb'[u] = timoCb[u] /\ cbFunc'[u] = cbFunc[u] /\ pc'[u] = pc[u]
      BY <1>f, <1>1, <1>8, <1>14, <3>1
    <3> QED
      BY <2>3, <3>1, <3>2 DEF StackTimerInv
  <2>5. ASSUME NEW u \in W \ {t}
        PROVE  /\ pc'[u] \in {"get", "got"}
               /\ timoCb'[u] => u \in PendingTimers' /\ cbFunc'[u] # "delay"
    <3>1. u \in V /\ u # t
      BY <2>2
    <3>2. timoCb'[u] = timoCb[u] /\ cbFunc'[u] = cbFunc[u] /\ pc'[u] = pc[u]
      BY <1>f, <1>1, <1>8, <1>14, <3>1
    <3> QED
      BY <1>7, <2>3, <3>1, <3>2 DEF StackTimerInv
  <2> QED
    BY <2>4, <2>5 DEF StackTimerInv
<1>16. CallInv'
  BY <1>f, <1>9 DEF SuspendInv, CallInv
<1> QED
  BY <1>f, <1>4, <1>5, <1>6, <1>10, <1>13, <1>15, <1>16 DEF SuspendInv

(* A waker, or a thread that goes on, when nobody is woken.                *)
LEMMA FrameSuspend ==
    ASSUME NEW W, SuspendInv(W), WakerFrame(W),
           UNCHANGED <<readyQ, wakeStatus, timoCb, timerQ>>
    PROVE  SuspendInv(W)'
<1>1. PICK V : V = Parked(W)
  OBVIOUS
<1>2. started /\ suspended[curr] => curr \in Threads /\ pc'[curr] = pc[curr]
  BY DEF WakerFrame, SuspendInv, CallInv, KernelInv, SchedInv
<1>3. KernelInv(V)'
  <2>1. \A u \in Threads : pc'[u] = "none" <=> pc[u] = "none"
    BY DEF WakerFrame
  <2> QED
    BY <1>1, <1>2, <2>1, LabelsPreserve DEF SuspendInv, WakerFrame
<1>4. PendingTimers' = PendingTimers /\ Range(timerQ) \subseteq PendingTimers
  BY DEF WakerFrame, PendingTimers
<1>5. \A u \in PendingTimers \cap AppThreads : u \in V /\ cbFunc'[u] = cbFunc[u]
  BY <1>1, ParkedFacts DEF WakerFrame
<1>6. Parked(W)' = V
  BY <1>1, <1>4, <1>5 DEF Parked, DelayedThreads
<1>7. KernelInv(Parked(W))'
  BY <1>3, <1>6, ParkedAfter
<1>8. TimerListInv'
  BY <1>4 DEF WakerFrame, SuspendInv, TimerListInv, TimerLibTypeOK
<1>9. \A u \in V : u \in Threads /\ pc'[u] = pc[u]
  BY <1>1, ParkedFacts DEF WakerFrame
<1>10. StackTimerInv(W)'
  <2>1. \A u \in W : u \in V /\ cbFunc'[u] = cbFunc[u]
    BY <1>1 DEF Parked, WakerFrame
  <2> QED
    BY <1>4, <1>5, <1>9, <2>1 DEF SuspendInv, StackTimerInv
<1>11. CallInv'
  BY <1>2 DEF WakerFrame, SuspendInv, CallInv
<1> QED
  BY <1>7, <1>8, <1>10, <1>11 DEF SuspendInv

(* A waker that leaves its stack as it is.                                 *)
LEMMA LabelsFrame ==
    ASSUME NEW W, SuspendInv(W),
           DOMAIN pc' = Threads,
           \A u \in Threads : \/ pc'[u] = pc[u]
                              \/ /\ pc[u] \notin ParkedLabels \cup {"none", "exit"}
                                 /\ pc'[u] # "none",
           UNCHANGED <<curr, started, intr, suspended, terminated,
                       cbTicks, cbFunc, walk, due, systemTicks>>
    PROVE  WakerFrame(W)
<1>1. \A u \in Threads : \/ pc'[u] = pc[u]
                         \/ /\ u \notin Parked(W)
                            /\ pc[u] \notin {"delay", "get", "none", "exit"}
                            /\ pc'[u] # "none"
  BY ParkedFacts DEF ParkedLabels
<1>2. cbTicks' \in [Timers -> Nat] /\ DOMAIN cbFunc' = AppThreads
  BY DEF SuspendInv, TimerListInv, TimerLibTypeOK
<1> QED
  BY <1>1, <1>2 DEF WakerFrame

(* A thread that leaves its blocking call.                                 *)
LEMMA LeaveFrame ==
    ASSUME NEW W, SuspendInv(W), NEW t \in AppThreads, LeaveCall(t)
    PROVE  WakerFrame(W)
<1>1. /\ t \in Threads /\ pc[t] = "got" /\ pc' = [pc EXCEPT ![t] = "app"]
      /\ t \notin Parked(W) /\ t \notin PendingTimers
      /\ cbTicks' = [cbTicks EXCEPT ![t] = 0] /\ cbFunc' = [cbFunc EXCEPT ![t] = "delay"]
      /\ UNCHANGED <<curr, started, intr, suspended, terminated, walk, due, systemTicks>>
  BY RunningFacts DEF LeaveCall, DropStackTimer, AppThreads
<1>2. /\ DOMAIN pc' = Threads
      /\ \A u \in Threads : u # t => pc'[u] = pc[u]
      /\ pc'[t] = "app"
  BY <1>1 DEF SuspendInv, KernelInv, KernelTypeOK
<1>3. cbTicks' \in [Timers -> Nat] /\ \A u \in Timers : u # t => cbTicks'[u] = cbTicks[u]
  BY <1>1 DEF SuspendInv, TimerListInv, TimerLibTypeOK
<1>4. DOMAIN cbFunc' = AppThreads /\ \A u \in AppThreads : u # t => cbFunc'[u] = cbFunc[u]
  BY <1>1 DEF SuspendInv, TimerListInv, TimerLibTypeOK
<1>5. PendingTimers \subseteq Timers
  <2>1. timerQ \in Seq(Timers) /\ due \in Seq(Timers)
    BY DEF SuspendInv, TimerListInv, TimerLibTypeOK
  <2>2. Range(timerQ) \subseteq Timers /\ Range(due) \subseteq Timers
    BY <2>1, InRange
  <2> QED
    BY <2>2 DEF PendingTimers
<1>6. Parked(W) \subseteq AppThreads
  BY ParkedFacts
<1> QED
  BY <1>1, <1>2, <1>3, <1>4, <1>5, <1>6 DEF WakerFrame

LEMMA WakePreserves ==
    ASSUME NEW W, SuspendInv(W), NEW t \in W, NEW status \in WakeStatus, intr # "tick",
           WakeUp(t, status), CancelTimeout(t),
           DOMAIN pc' = Threads,
           \A u \in Threads : \/ pc'[u] = pc[u]
                              \/ /\ pc[u] \notin ParkedLabels \cup {"none", "exit"}
                                 /\ pc'[u] # "none",
           UNCHANGED <<curr, started, intr, suspended, terminated,
                       cbTicks, cbFunc, walk, due, systemTicks>>
    PROVE  /\ SuspendInv(W \ {t})' /\ ReadyThreads' = ReadyThreads \cup {t}
           /\ ~ CancelTimeoutFails(t)
           /\ timoCb' = [timoCb EXCEPT ![t] = FALSE]
  BY LabelsFrame, WakeKeeps

(* The timeout callback wakes a thread that waits on that object.          *)
LEMMA TimeoutPreserves ==
    ASSUME NEW W, SuspendInv(W), NEW t \in AppThreads, NEW obj, obj # "delay",
           Timeout(t, obj)
    PROVE  /\ t \in W /\ SuspendInv(W \ {t})' /\ ReadyThreads' = ReadyThreads \cup {t}
           /\ intr = "tick"
<1>1. PICK V : V = Parked(W)
  OBVIOUS
<1>2. /\ t \in Threads /\ t \in PendingTimers /\ t = Head(due) /\ t \in Range(due)
      /\ t \notin Range(timerQ) /\ intr = "tick" /\ cbFunc[t] = obj
      /\ walk = <<>> /\ due # <<>>
  BY CallbackDueFacts DEF Timeout
<1>3. /\ due' = Tail(due) /\ timoCb' = [timoCb EXCEPT ![t] = FALSE]
      /\ readyQ' = tcbEnqueuePriority(readyQ, t)
      /\ wakeStatus' = [wakeStatus EXCEPT ![t] = "ATOM_TIMEOUT"]
      /\ UNCHANGED <<curr, started, intr, suspended, terminated, pc,
                     timerQ, cbTicks, cbFunc, walk, systemTicks>>
  BY DEF Timeout, WakeUp
<1>4. t \in W /\ t \in V /\ t \notin DelayedThreads
  BY <1>1, <1>2 DEF SuspendInv, StackTimerInv, Parked, DelayedThreads
<1>5. /\ \A u \in Threads : timoCb'[u] = IF u = t THEN FALSE ELSE timoCb[u]
      /\ timoCb' \in [Threads -> BOOLEAN]
      /\ wakeStatus' \in [Threads -> WakeStatus]
      /\ DOMAIN pc' = Threads
  BY <1>2, <1>3 DEF SuspendInv, KernelInv, KernelTypeOK, WakeStatus
<1>6. KernelInv(V \ {t})' /\ ReadyThreads' = ReadyThreads \cup {t}
  BY <1>1, <1>3, <1>4, <1>5, UnparkPreserves DEF SuspendInv
<1>7. /\ TimerListInv' /\ Range(due) = Range(due') \cup {t} /\ t \notin Range(due')
  BY <1>2, <1>3, CallbackLists DEF SuspendInv
<1>8. PendingTimers' = PendingTimers \ {t}
  BY <1>2, <1>3, <1>7 DEF PendingTimers
<1>9. Parked(W \ {t})' = V \ {t}
  BY <1>1, <1>3, <1>4, <1>8 DEF Parked, DelayedThreads
<1>10. KernelInv(Parked(W \ {t}))'
  <2>1. PICK U : U = V \ {t}
    OBVIOUS
  <2> QED
    BY <2>1, <1>6, <1>9, ParkedAfter
<1>11. StackTimerInv(W \ {t})'
  <2>1. W \subseteq Threads /\ AppThreads \subseteq Threads
    BY ParkedFacts DEF Parked, AppThreads
  <2> QED
    BY <1>3, <1>5, <1>8, <2>1 DEF SuspendInv, StackTimerInv
<1>12. CallInv'
  BY <1>3 DEF SuspendInv, CallInv
<1> QED
  BY <1>2, <1>4, <1>6, <1>7, <1>10, <1>11, <1>12 DEF SuspendInv

-----------------------------------------------------------------------------

(* The suspend queues f of the objects S: no thread is on two of them.     *)
SuspQueues(f, S) ==
    /\ f \in [S -> Seq(AppThreads)]
    /\ \A s \in S : IsTcbQueue(f[s])
    /\ \A s, r \in S : s # r => Range(f[s]) \cap Range(f[r]) = {}

WaitersIn(f, S) == UNION { Range(f[s]) : s \in S }

(* g is [f EXCEPT ![s] = q].                                               *)
UpdatedAt(f, S, s, q, g) ==
    IsFunction(g, S) /\ g[s] = q /\ \A r \in S : r # s => g[r] = f[r]

LEMMA ExceptUpdates ==
    ASSUME NEW f, NEW S, DOMAIN f = S, NEW s \in S, NEW q
    PROVE  UpdatedAt(f, S, s, q, [f EXCEPT ![s] = q])
  BY DEF UpdatedAt, IsFunction

(* One queue becomes q, whose threads are those it had and threads that    *)
(* have been on no queue.                                                  *)
LEMMA QueueChanged ==
    ASSUME NEW S, NEW f, SuspQueues(f, S), NEW s \in S, NEW q \in Seq(Threads), IsTcbQueue(q),
           Range(q) \subseteq AppThreads,
           Range(q) \cap WaitersIn(f, S) \subseteq Range(f[s]),
           NEW g, UpdatedAt(f, S, s, q, g)
    PROVE  /\ SuspQueues(g, S)
           /\ \A r \in S : g[r] = IF r = s THEN q ELSE f[r]
           /\ WaitersIn(g, S) = (WaitersIn(f, S) \ Range(f[s])) \cup Range(q)
<1>1. q \in Seq(AppThreads)
  BY SeqOfRange, SeqMonotonic
<1>2. g \in [S -> Seq(AppThreads)] /\ \A r \in S : g[r] = IF r = s THEN q ELSE f[r]
  <2>1. \A r \in S : g[r] = IF r = s THEN q ELSE f[r]
    BY DEF UpdatedAt
  <2>2. \A r \in S : g[r] \in Seq(AppThreads)
    BY <1>1, <2>1 DEF SuspQueues
  <2> QED
    BY <2>1, <2>2, FunctionSet DEF UpdatedAt
<1>3. \A r \in S : Range(f[r]) \subseteq WaitersIn(f, S)
  BY DEF WaitersIn
<1>4. \A r, p \in S : r # p => Range(f[r]) \cap Range(f[p]) = {}
  BY DEF SuspQueues
<1>5. \A r, p \in S : r # p => Range(g[r]) \cap Range(g[p]) = {}
  BY <1>2, <1>3, <1>4
<1>6. \A r \in S : IsTcbQueue(g[r])
  BY <1>2 DEF SuspQueues
<1>7. WaitersIn(g, S) = (WaitersIn(f, S) \ Range(f[s])) \cup Range(q)
  <2>1. ASSUME NEW t \in WaitersIn(g, S) PROVE t \in (WaitersIn(f, S) \ Range(f[s])) \cup Range(q)
    <3>1. PICK r \in S : t \in Range(g[r])
      BY <2>1 DEF WaitersIn
    <3> QED
      BY <1>2, <1>3, <1>4, <3>1
  <2>2. ASSUME NEW t \in WaitersIn(f, S) \ Range(f[s]) PROVE t \in WaitersIn(g, S)
    <3>1. PICK r \in S : t \in Range(f[r])
      BY <2>2 DEF WaitersIn
    <3>2. t \in Range(g[r])
      BY <1>2, <2>2, <3>1
    <3> QED
      BY <3>2 DEF WaitersIn
  <2>3. ASSUME NEW t \in Range(q) PROVE t \in WaitersIn(g, S)
    <3>1. t \in Range(g[s])
      BY <1>2, <2>3
    <3> QED
      BY <3>1 DEF WaitersIn
  <2> QED
    BY <2>1, <2>2, <2>3
<1> QED
  BY <1>2, <1>5, <1>6, <1>7 DEF SuspQueues

(* A thread joins the queue of s.                                          *)
LEMMA JoinQueue ==
    ASSUME NEW S, NEW f, SuspQueues(f, S), NEW s \in S, NEW t \in AppThreads,
           t \notin WaitersIn(f, S),
           NEW g, UpdatedAt(f, S, s, tcbEnqueuePriority(f[s], t), g)
    PROVE  /\ SuspQueues(g, S)
           /\ g[s] = tcbEnqueuePriority(f[s], t) /\ g[s] # <<>>
           /\ \A r \in S : r # s => g[r] = f[r]
           /\ Range(g[s]) = Range(f[s]) \cup {t}
           /\ WaitersIn(g, S) = WaitersIn(f, S) \cup {t}
<1> DEFINE q == tcbEnqueuePriority(f[s], t)
<1>1. t \in Threads /\ Range(f[s]) \subseteq WaitersIn(f, S) /\ f[s] \in Seq(AppThreads)
      /\ IsTcbQueue(f[s])
  BY DEF AppThreads, WaitersIn, SuspQueues
<1>2. q \in Seq(Threads) /\ IsTcbQueue(q) /\ q # <<>> /\ Range(q) = Range(f[s]) \cup {t}
  BY <1>1, EnqueueProperties DEF IsTcbQueue
<1>3. /\ Range(q) \subseteq AppThreads
      /\ Range(q) \cap WaitersIn(f, S) \subseteq Range(f[s])
  <2>1. Range(f[s]) \subseteq AppThreads
    BY <1>1, InRange
  <2> QED
    BY <1>2, <2>1
<1> HIDE DEF q
<1>4. /\ SuspQueues(g, S)
      /\ \A r \in S : g[r] = IF r = s THEN q ELSE f[r]
      /\ WaitersIn(g, S) = (WaitersIn(f, S) \ Range(f[s])) \cup Range(q)
  <2>1. UpdatedAt(f, S, s, q, g)
    BY DEF q
  <2> QED
    BY <1>2, <1>3, <2>1, QueueChanged
<1>5. /\ g[s] # <<>> /\ Range(g[s]) = Range(f[s]) \cup {t}
      /\ WaitersIn(g, S) = WaitersIn(f, S) \cup {t}
  BY <1>1, <1>2, <1>4
<1> QED
  BY <1>4, <1>5 DEF q

(* A thread leaves the queue of s, which becomes q.                        *)
LeftBy(f, S, s, t, g) ==
    /\ SuspQueues(g, S)
    /\ \A r \in S : r # s => g[r] = f[r]
    /\ Range(g[s]) = Range(f[s]) \ {t}
    /\ WaitersIn(g, S) = WaitersIn(f, S) \ {t}

LEMMA QueueLeft ==
    ASSUME NEW S, NEW f, SuspQueues(f, S), NEW s \in S, NEW t \in Range(f[s]), NEW q \in Seq(Threads),
           IsTcbQueue(q), Range(q) = Range(f[s]) \ {t},
           NEW g, UpdatedAt(f, S, s, q, g)
    PROVE  LeftBy(f, S, s, t, g)
<1>1. Range(f[s]) \subseteq WaitersIn(f, S) /\ f[s] \in Seq(AppThreads)
  BY DEF WaitersIn, SuspQueues
<1>2. /\ Range(q) \subseteq AppThreads
      /\ Range(q) \cap WaitersIn(f, S) \subseteq Range(f[s])
  <2>1. Range(f[s]) \subseteq AppThreads
    BY <1>1, InRange
  <2> QED
    BY <2>1
<1>3. /\ SuspQueues(g, S)
      /\ \A r \in S : g[r] = IF r = s THEN q ELSE f[r]
      /\ WaitersIn(g, S) = (WaitersIn(f, S) \ Range(f[s])) \cup Range(q)
  BY <1>2, QueueChanged
<1>4. WaitersIn(g, S) = WaitersIn(f, S) \ {t}
  BY <1>1, <1>3
<1>5. Range(g[s]) = Range(f[s]) \ {t}
  BY <1>3
<1> QED
  BY <1>3, <1>4, <1>5 DEF LeftBy

(* Its head is dequeued.                                                   *)
LEMMA LeaveHead ==
    ASSUME NEW S, NEW f, SuspQueues(f, S), NEW s \in S, f[s] # <<>>,
           NEW g, UpdatedAt(f, S, s, tcbDequeueHead(f[s]).queue, g)
    PROVE  LET t == tcbDequeueHead(f[s]).tcb
           IN  /\ t = Head(f[s]) /\ g[s] = Tail(f[s])
               /\ t \in Range(f[s]) /\ t \in WaitersIn(f, S) /\ t \in AppThreads
               /\ LeftBy(f, S, s, t, g)
<1> DEFINE t == Head(f[s])
           q == Tail(f[s])
<1>1. f[s] \in Seq(AppThreads) /\ f[s] \in Seq(Threads) /\ NoDuplicates(f[s]) /\ PriorityOrdered(f[s])
  BY DEF SuspQueues, IsTcbQueue
<1>2. /\ t \in AppThreads /\ t \in Range(f[s]) /\ q \in Seq(Threads) /\ IsTcbQueue(q)
      /\ Range(q) = Range(f[s]) \ {t}
  BY <1>1, TailProperties, TailOrdered DEF IsTcbQueue
<1>3. tcbDequeueHead(f[s]) = [tcb |-> t, queue |-> q]
  BY DEF tcbDequeueHead
<1> HIDE DEF t, q
<1>4. LeftBy(f, S, s, t, g)
  BY <1>2, <1>3, QueueLeft
<1>5. t \in WaitersIn(f, S)
  BY <1>2 DEF WaitersIn
<1>6. g[s] = q
  BY <1>3 DEF UpdatedAt
<1> QED
  BY <1>2, <1>3, <1>4, <1>5, <1>6 DEF t, q

(* A thread is taken off it, wherever it stands.                           *)
LEMMA LeaveEntry ==
    ASSUME NEW S, NEW f, SuspQueues(f, S), NEW s \in S, NEW t \in Range(f[s]),
           NEW g, UpdatedAt(f, S, s, tcbDequeueEntry(f[s], t).queue, g)
    PROVE  LeftBy(f, S, s, t, g)
<1> DEFINE q == RemoveFirst(f[s], t)
<1>1. f[s] \in Seq(AppThreads) /\ f[s] \in Seq(Threads) /\ NoDuplicates(f[s]) /\ PriorityOrdered(f[s])
  BY DEF SuspQueues, IsTcbQueue
<1>2. q \in Seq(Threads) /\ IsTcbQueue(q) /\ Range(q) = Range(f[s]) \ {t}
  BY <1>1, RemoveFirstProperties, RemoveFirstOrdered DEF IsTcbQueue
<1>3. tcbDequeueEntry(f[s], t).queue = q
  BY DEF tcbDequeueEntry
<1> HIDE DEF q
<1> QED
  BY <1>2, <1>3, QueueLeft

-----------------------------------------------------------------------------

(* a stands in front of b.                                                 *)
Before(q, a, b) == \E i, j \in 1..Len(q) : i < j /\ q[i] = a /\ q[j] = b

LEMMA TiesAre ==
    ASSUME NEW q \in Seq(Threads)
    PROVE  /\ \A a, b : <<a, b>> \in TiesInOrder(q) <=> Before(q, a, b) /\ Prio[a] = Prio[b]
           /\ \A pair \in TiesInOrder(q) : \E a, b \in Range(q) : pair = <<a, b>>
<1>1. /\ \A i \in 1..Len(q) : q[i] \in Range(q)
      /\ \A x : x \in Range(q) <=> \E i \in 1..Len(q) : q[i] = x
  BY InRange
<1>2. ASSUME NEW a, NEW b, <<a, b>> \in TiesInOrder(q)
      PROVE  Before(q, a, b) /\ Prio[a] = Prio[b]
  <2>1. PICK i, j \in 1..Len(q) : i < j /\ <<a, b>> = <<q[i], q[j]>> /\ Prio[q[i]] = Prio[q[j]]
    BY <1>2 DEF TiesInOrder
  <2>2. a = q[i] /\ b = q[j]
    BY <2>1
  <2> QED
    BY <2>1, <2>2 DEF Before
<1>3. ASSUME NEW a, NEW b, Before(q, a, b), Prio[a] = Prio[b]
      PROVE  <<a, b>> \in TiesInOrder(q)
  <2>1. PICK i, j \in 1..Len(q) : i < j /\ q[i] = a /\ q[j] = b
    BY <1>3 DEF Before
  <2>2. <<a, b>> \in Range(q) \X Range(q)
    BY <1>1, <2>1
  <2> QED
    BY <1>3, <2>1, <2>2 DEF TiesInOrder
<1>4. ASSUME NEW pair \in TiesInOrder(q)
      PROVE  \E a, b \in Range(q) : pair = <<a, b>>
  BY <1>1 DEF TiesInOrder
<1> QED
  BY <1>2, <1>3, <1>4

(* What is inserted or removed elsewhere does not change who is in front   *)
(* of whom.                                                                *)
LEMMA OrderKept ==
    ASSUME NEW q \in Seq(Threads), NEW r \in Seq(Threads), NoDuplicates(r),
           NEW m \in [1..Len(q) -> 1..Len(r)],
           \A i, j \in 1..Len(q) : i < j => m[i] < m[j],
           \A i \in 1..Len(q) : r[m[i]] = q[i],
           NEW a \in Range(q), NEW b \in Range(q)
    PROVE  Before(q, a, b) <=> Before(r, a, b)
<1>1. ASSUME Before(q, a, b) PROVE Before(r, a, b)
  <2>1. PICK i, j \in 1..Len(q) : i < j /\ q[i] = a /\ q[j] = b
    BY <1>1 DEF Before
  <2>2. m[i] \in 1..Len(r) /\ m[j] \in 1..Len(r) /\ m[i] < m[j] /\ r[m[i]] = a /\ r[m[j]] = b
    BY <2>1
  <2> QED
    BY <2>2 DEF Before
<1>2. ASSUME Before(r, a, b) PROVE Before(q, a, b)
  <2>1. PICK k, l \in 1..Len(r) : k < l /\ r[k] = a /\ r[l] = b
    BY <1>2 DEF Before
  <2>2. PICK i, j \in 1..Len(q) : q[i] = a /\ q[j] = b
    BY InRange
  <2>3. m[i] = k /\ m[j] = l
    BY <2>1, <2>2 DEF NoDuplicates
  <2>4. Len(q) \in Nat /\ ~ (j < i) /\ i # j
    BY <2>1, <2>3, InRange
  <2> QED
    BY <2>2, <2>4 DEF Before
<1> QED
  BY <1>1, <1>2

(* A thread is enqueued behind those of its priority.                      *)
LEMMA TiesAfterJoin ==
    ASSUME NEW q \in Seq(Threads), NoDuplicates(q), PriorityOrdered(q),
           NEW t \in Threads, t \notin Range(q)
    PROVE  TiesInOrder(tcbEnqueuePriority(q, t)) =
               TiesInOrder(q) \cup ({ u \in Range(q) : Prio[u] = Prio[t] } \X {t})
<1> DEFINE r == tcbEnqueuePriority(q, t)
<1>1. /\ r \in Seq(Threads) /\ NoDuplicates(r) /\ Range(r) = Range(q) \cup {t}
  BY EnqueueProperties
<1>2. Len(q) \in Nat
  BY InRange
<1>3. PICK k \in 1..(Len(q)+1) :
         /\ Len(r) = Len(q) + 1
         /\ \A i \in 1..(Len(q)+1) :
               r[i] = IF i < k THEN q[i] ELSE IF i = k THEN t ELSE q[i-1]
         /\ \A i \in 1..Len(q) : k <= i => Prio[q[i]] > Prio[t]
  BY EnqueuePlace
<1> HIDE DEF r
<1>4. \A a, b \in Range(q) : Before(q, a, b) <=> Before(r, a, b)
  <2> DEFINE m == [i \in 1..Len(q) |-> IF i < k THEN i ELSE i + 1]
  <2>1. /\ m \in [1..Len(q) -> 1..Len(r)]
        /\ \A i, j \in 1..Len(q) : i < j => m[i] < m[j]
        /\ \A i \in 1..Len(q) : r[m[i]] = q[i]
    BY <1>2, <1>3
  <2> QED
    BY <1>1, <2>1, OrderKept
<1>5. \A b \in Range(q) : Prio[b] = Prio[t] => Before(r, b, t)
  <2> SUFFICES ASSUME NEW b \in Range(q), Prio[b] = Prio[t] PROVE Before(r, b, t)
    OBVIOUS
  <2>1. PICK i \in 1..Len(q) : q[i] = b
    BY InRange
  <2>2. Prio[b] \in Int /\ ~ (k <= i)
    BY <1>3, <2>1, PrioAssumption, InRange
  <2>3. i \in 1..Len(r) /\ k \in 1..Len(r) /\ i < k /\ r[i] = b /\ r[k] = t
    BY <1>2, <1>3, <2>1, <2>2
  <2> QED
    BY <2>3 DEF Before
<1>6. \A b : Prio[b] = Prio[t] => ~ Before(r, t, b)
  <2> SUFFICES ASSUME NEW b, Prio[b] = Prio[t], Before(r, t, b) PROVE FALSE
    OBVIOUS
  <2>1. PICK i, j \in 1..Len(r) : i < j /\ r[i] = t /\ r[j] = b
    BY DEF Before
  <2>2. i = k
    BY <1>1, <1>2, <1>3, <2>1 DEF NoDuplicates
  <2>3. j - 1 \in 1..Len(q) /\ k <= j - 1 /\ b = q[j - 1]
    BY <1>2, <1>3, <2>1, <2>2
  <2>4. Prio[b] \in Int
    BY <2>3, PrioAssumption, InRange
  <2> QED
    BY <1>3, <2>3, <2>4
<1>7. ASSUME NEW pair \in TiesInOrder(r)
      PROVE  pair \in TiesInOrder(q) \cup ({ u \in Range(q) : Prio[u] = Prio[t] } \X {t})
  <2>1. PICK a, b \in Range(r) : pair = <<a, b>>
    BY <1>1, <1>7, TiesAre
  <2>2. Before(r, a, b) /\ Prio[a] = Prio[b]
    BY <1>1, <1>7, <2>1, TiesAre
  <2>3. a \in Range(q)
    BY <1>1, <1>6, <2>2
  <2>4. CASE b = t
    BY <2>1, <2>2, <2>3, <2>4
  <2>5. CASE b # t
    BY <1>1, <1>4, <2>1, <2>2, <2>3, <2>5, TiesAre
  <2> QED
    BY <2>4, <2>5
<1>8. ASSUME NEW pair \in TiesInOrder(q) PROVE pair \in TiesInOrder(r)
  <2>1. PICK a, b \in Range(q) : pair = <<a, b>>
    BY <1>8, TiesAre
  <2> QED
    BY <1>1, <1>4, <1>8, <2>1, TiesAre
<1>9. ASSUME NEW pair \in { u \in Range(q) : Prio[u] = Prio[t] } \X {t}
      PROVE  pair \in TiesInOrder(r)
  <2>1. PICK a \in Range(q) : pair = <<a, t>> /\ Prio[a] = Prio[t]
    BY <1>9
  <2> QED
    BY <1>1, <1>5, <2>1, TiesAre
<1> QED
  BY <1>7, <1>8, <1>9 DEF r

(* One that leaves takes its pairs with it, wherever it stands.            *)
RemovedAt(q, k, r) ==
    /\ Len(r) = Len(q) - 1
    /\ \A i \in 1..(Len(q)-1) : r[i] = IF i < k THEN q[i] ELSE q[i+1]

LEMMA TiesAfterLeave ==
    ASSUME NEW q \in Seq(Threads), NoDuplicates(q), Range(q) \subseteq AppThreads,
           NEW k \in 1..Len(q), NEW r \in Seq(Threads), RemovedAt(q, k, r),
           NEW t, t = q[k]
    PROVE  TiesInOrder(r) = TiesInOrder(q) \ (({t} \X AppThreads) \cup (AppThreads \X {t}))
<1>1. /\ t = q[k] /\ Len(r) = Len(q) - 1
      /\ \A i \in 1..(Len(q)-1) : r[i] = IF i < k THEN q[i] ELSE q[i+1]
  BY DEF RemovedAt
<1>2. Len(q) \in Nat /\ t \in Range(q)
  BY <1>1, InRange
<1>3. \A a : a \in Range(r) <=> a \in Range(q) /\ a # t
  <2>1. ASSUME NEW a \in Range(r) PROVE a \in Range(q) /\ a # t
    <3>1. PICK i \in 1..Len(r) : r[i] = a
      BY <2>1, InRange
    <3>2. PICK j \in 1..Len(q) : j # k /\ q[j] = a
      BY <1>1, <1>2, <3>1
    <3> QED
      BY <1>1, <3>2, InRange DEF NoDuplicates
  <2>2. ASSUME NEW a \in Range(q), a # t PROVE a \in Range(r)
    <3>1. PICK i \in 1..Len(q) : q[i] = a
      BY <2>2, InRange
    <3>2. i # k
      BY <1>1, <2>2, <3>1
    <3>3. \E j \in 1..Len(r) : r[j] = a
      <4>1. CASE i < k
        BY <1>1, <1>2, <3>1, <4>1
      <4>2. CASE i > k
        <5>1. i - 1 \in 1..Len(r) /\ r[i-1] = a
          BY <1>1, <1>2, <3>1, <4>2
        <5> QED
          BY <5>1
      <4> QED
        BY <3>2, <4>1, <4>2
    <3> QED
      BY <3>3, InRange
  <2> QED
    BY <2>1, <2>2
<1>4. \A a, b \in Range(r) : Before(r, a, b) <=> Before(q, a, b)
  <2> DEFINE m == [i \in 1..Len(r) |-> IF i < k THEN i ELSE i + 1]
  <2>1. /\ m \in [1..Len(r) -> 1..Len(q)]
        /\ \A i, j \in 1..Len(r) : i < j => m[i] < m[j]
        /\ \A i \in 1..Len(r) : q[m[i]] = r[i]
    BY <1>1, <1>2
  <2> QED
    BY <2>1, OrderKept
<1>5. ASSUME NEW pair \in TiesInOrder(r)
      PROVE  pair \in TiesInOrder(q) \ (({t} \X AppThreads) \cup (AppThreads \X {t}))
  <2>1. PICK a, b \in Range(r) : pair = <<a, b>>
    BY <1>5, TiesAre
  <2>2. pair \in TiesInOrder(q)
    BY <1>4, <1>5, <2>1, TiesAre
  <2>3. a # t /\ b # t
    BY <1>3, <2>1
  <2> QED
    BY <2>1, <2>2, <2>3
<1>6. ASSUME NEW pair \in TiesInOrder(q), pair \notin ({t} \X AppThreads) \cup (AppThreads \X {t})
      PROVE  pair \in TiesInOrder(r)
  <2>1. PICK a, b \in Range(q) : pair = <<a, b>>
    BY <1>6, TiesAre
  <2>2. a # t /\ b # t
    BY <1>6, <2>1
  <2>3. a \in Range(r) /\ b \in Range(r)
    BY <1>3, <2>1, <2>2
  <2> QED
    BY <1>4, <1>6, <2>1, <2>3, TiesAre
<1> QED
  BY <1>1, <1>5, <1>6

(* The head of a queue has waited longest among those of the highest       *)
(* priority.                                                               *)
LEMMA HeadIsFirst ==
    ASSUME NEW q \in Seq(Threads), NoDuplicates(q), PriorityOrdered(q), q # <<>>
    PROVE  /\ Head(q) \in Range(q)
           /\ \A u \in Range(q) \ {Head(q)} :
                 Prio[Head(q)] < Prio[u] \/ <<Head(q), u>> \in TiesInOrder(q)
<1>1. Len(q) \in Nat /\ Len(q) > 0 /\ Head(q) = q[1] /\ Head(q) \in Range(q)
  BY TailProperties
<1> SUFFICES ASSUME NEW u \in Range(q) \ {Head(q)}
             PROVE  Prio[Head(q)] < Prio[u] \/ <<Head(q), u>> \in TiesInOrder(q)
  BY <1>1
<1>2. PICK j \in 1..Len(q) : q[j] = u
  BY InRange
<1>3. 1 \in 1..Len(q) /\ 1 < j
  BY <1>1, <1>2
<1>4. Prio[q[1]] <= Prio[u] /\ Before(q, q[1], u)
  BY <1>2, <1>3 DEF PriorityOrdered, Before
<1>5. Prio[q[1]] \in Int /\ Prio[u] \in Int
  BY <1>2, <1>3, PrioAssumption, InRange
<1>6. Prio[q[1]] = Prio[u] => <<q[1], u>> \in TiesInOrder(q)
  BY <1>4, TiesAre
<1> QED
  BY <1>1, <1>4, <1>5, <1>6

-----------------------------------------------------------------------------

(* What the abstract specifications see of the queues: who waits, and the  *)
(* pairs of equals in order.                                               *)
WaitingView(f, S) == [s \in S |-> Range(f[s])]
TiesView(f, S) == [s \in S |-> TiesInOrder(f[s])]

LEMMA JoinView ==
    ASSUME NEW S, NEW f, SuspQueues(f, S), NEW s \in S, NEW t \in AppThreads,
           t \notin WaitersIn(f, S),
           NEW g, UpdatedAt(f, S, s, tcbEnqueuePriority(f[s], t), g)
    PROVE  /\ WaitingView(g, S) = [WaitingView(f, S) EXCEPT ![s] = @ \cup {t}]
           /\ TiesView(g, S) = [TiesView(f, S) EXCEPT ![s] =
                  @ \cup ({ u \in WaitingView(f, S)[s] : Prio[u] = Prio[t] } \X {t})]
<1>1. /\ g[s] = tcbEnqueuePriority(f[s], t) /\ Range(g[s]) = Range(f[s]) \cup {t}
      /\ \A r \in S : r # s => g[r] = f[r]
  BY JoinQueue
<1>2. TiesInOrder(g[s]) =
          TiesInOrder(f[s]) \cup ({ u \in Range(f[s]) : Prio[u] = Prio[t] } \X {t})
  <2>1. /\ f[s] \in Seq(Threads) /\ NoDuplicates(f[s]) /\ PriorityOrdered(f[s])
        /\ t \in Threads /\ t \notin Range(f[s])
    BY DEF SuspQueues, IsTcbQueue, WaitersIn, AppThreads
  <2> QED
    BY <1>1, <2>1, TiesAfterJoin
<1> QED
  BY <1>1, <1>2 DEF WaitingView, TiesView

(* A thread t leaves the queue of s; t is the first in line there.         *)
LeavesView(f, S, s, t, g) ==
    /\ WaitingView(g, S) = [WaitingView(f, S) EXCEPT ![s] = @ \ {t}]
    /\ TiesView(g, S) = [TiesView(f, S) EXCEPT ![s] =
           @ \ (({t} \X AppThreads) \cup (AppThreads \X {t}))]

FirstInView(f, S, s, t) ==
    /\ t \in WaitingView(f, S)[s]
    /\ \A u \in WaitingView(f, S)[s] \ {t} :
          Prio[t] < Prio[u] \/ <<t, u>> \in TiesView(f, S)[s]

LEMMA LeaveView ==
    ASSUME NEW S, NEW f, SuspQueues(f, S), NEW s \in S,
           NEW k \in 1..Len(f[s]), NEW t, t = f[s][k],
           NEW g, LeftBy(f, S, s, t, g), RemovedAt(f[s], k, g[s])
    PROVE  LeavesView(f, S, s, t, g)
<1>1. /\ f[s] \in Seq(Threads) /\ NoDuplicates(f[s]) /\ f[s] \in Seq(AppThreads)
  BY DEF SuspQueues, IsTcbQueue
<1>2. Range(f[s]) \subseteq AppThreads
  BY <1>1, InRange
<1>3. TiesInOrder(g[s]) =
          TiesInOrder(f[s]) \ (({t} \X AppThreads) \cup (AppThreads \X {t}))
  <2>1. g[s] \in Seq(Threads)
    BY DEF LeftBy, SuspQueues, IsTcbQueue
  <2> QED
    BY <1>1, <1>2, <2>1, TiesAfterLeave
<1>4. Range(g[s]) = Range(f[s]) \ {t} /\ \A r \in S : r # s => g[r] = f[r]
  BY DEF LeftBy
<1>5. WaitingView(g, S) = [WaitingView(f, S) EXCEPT ![s] = @ \ {t}]
  BY <1>4 DEF WaitingView
<1>6. TiesView(g, S) = [TiesView(f, S) EXCEPT ![s] =
          @ \ (({t} \X AppThreads) \cup (AppThreads \X {t}))]
  BY <1>3, <1>4 DEF TiesView
<1> QED
  BY <1>5, <1>6 DEF LeavesView

LEMMA HeadView ==
    ASSUME NEW S, NEW f, SuspQueues(f, S), NEW s \in S, f[s] # <<>>,
           NEW g, UpdatedAt(f, S, s, tcbDequeueHead(f[s]).queue, g),
           NEW t, t = tcbDequeueHead(f[s]).tcb
    PROVE  LeavesView(f, S, s, t, g) /\ FirstInView(f, S, s, t)
<1>1. t = Head(f[s]) /\ g[s] = Tail(f[s]) /\ LeftBy(f, S, s, t, g)
  <2>1. t = Head(f[s]) /\ g[s] = Tail(f[s])
    BY DEF tcbDequeueHead, UpdatedAt
  <2>2. LeftBy(f, S, s, t, g)
    BY LeaveHead
  <2> QED
    BY <2>1, <2>2
<1>2. f[s] \in Seq(Threads) /\ NoDuplicates(f[s]) /\ PriorityOrdered(f[s])
  BY DEF SuspQueues, IsTcbQueue
<1>3. 1 \in 1..Len(f[s]) /\ t = f[s][1] /\ RemovedAt(f[s], 1, g[s])
  BY <1>1, <1>2 DEF RemovedAt
<1>4. LeavesView(f, S, s, t, g)
  BY <1>1, <1>3, LeaveView
<1>5. /\ t \in Range(f[s])
      /\ \A u \in Range(f[s]) \ {t} : Prio[t] < Prio[u] \/ <<t, u>> \in TiesInOrder(f[s])
  BY <1>1, <1>2, HeadIsFirst
<1> QED
  BY <1>4, <1>5 DEF FirstInView, WaitingView, TiesView

LEMMA EntryView ==
    ASSUME NEW S, NEW f, SuspQueues(f, S), NEW s \in S, NEW t \in Range(f[s]),
           NEW g, UpdatedAt(f, S, s, tcbDequeueEntry(f[s], t).queue, g)
    PROVE  LeavesView(f, S, s, t, g)
<1>1. f[s] \in Seq(Threads) /\ LeftBy(f, S, s, t, g) /\ g[s] = RemoveFirst(f[s], t)
  BY LeaveEntry DEF SuspQueues, IsTcbQueue, UpdatedAt, tcbDequeueEntry
<1>2. Contains(f[s], t)
  BY <1>1, InRange DEF Contains
<1>3. PICK k \in 1..Len(f[s]) : f[s][k] = t /\ g[s] = RemoveAt(f[s], k)
  BY <1>1, <1>2, RemoveFirstIsRemoveAt
<1>4. RemovedAt(f[s], k, g[s])
  BY <1>1, <1>3, RemoveAtProperties DEF RemovedAt
<1> QED
  BY <1>1, <1>3, <1>4, LeaveView

-----------------------------------------------------------------------------

(* A thread calls atomSched after it has been put on a queue, and leaves   *)
(* the call when it runs again.                                            *)
LEMMA SuspendSchedPreserves ==
    ASSUME NEW W, SuspendInv(W), NEW t \in AppThreads, SuspendSched(t)
    PROVE  SuspendInv(W)'
  BY CallSchedSuspend DEF SuspendSched

LEMMA LeaveCallPreserves ==
    ASSUME NEW W, SuspendInv(W), NEW t \in AppThreads, LeaveCall(t),
           UNCHANGED <<readyQ, wakeStatus, timoCb, timerQ>>
    PROVE  SuspendInv(W)'
  BY LeavePreserves DEF LeaveCall

(* A step that only moves threads outside of blocking calls between labels.*)
LEMMA LabelsSuspend ==
    ASSUME NEW W, SuspendInv(W),
           DOMAIN pc' = Threads,
           \A u \in Threads : \/ pc'[u] = pc[u]
                              \/ /\ pc[u] \notin ParkedLabels \cup {"none", "exit"}
                                 /\ pc'[u] # "none",
           UNCHANGED <<readyQ, curr, started, intr, suspended, terminated,
                       wakeStatus, timoCb, timerVars>>
    PROVE  SuspendInv(W)'
<1>1. PICK V : V = Parked(W)
  OBVIOUS
<1>2. started /\ suspended[curr] => curr \in Threads /\ pc'[curr] = pc[curr]
  BY DEF SuspendInv, CallInv, KernelInv, SchedInv, ParkedLabels
<1>3. KernelInv(V)'
  BY <1>1, <1>2, LabelsPreserve DEF SuspendInv
<1>4. Parked(W)' = V
  BY <1>1 DEF Parked, DelayedThreads, PendingTimers, timerVars
<1>5. KernelInv(Parked(W))'
  BY <1>3, <1>4, ParkedAfter
<1>6. CallInv'
  BY <1>2 DEF SuspendInv, CallInv
<1>7. intr' = "tick" \/ (walk = <<>> /\ due = <<>>)
  BY DEF SuspendInv, TimerListInv
<1>8. \A u \in Parked(W) : pc'[u] = pc[u] /\ timoCb'[u] = timoCb[u]
  BY ParkedFacts
<1> QED
  BY <1>5, <1>6, <1>7, <1>8, SameTimers

(* Stuttering.                                                             *)
LEMMA SuspendStutter ==
    ASSUME NEW W, SuspendInv(W), UNCHANGED <<kernelVars, timerVars>>
    PROVE  SuspendInv(W)'
<1>1. TimerListInv' /\ UNCHANGED <<kernelVars, cbFunc>> /\ PendingTimers' = PendingTimers
  BY DEF kernelVars, timerVars, SuspendInv, TimerListInv, TimerLibTypeOK, PendingTimers
<1> QED
  BY <1>1, SameStackTimers

-----------------------------------------------------------------------------

(* No ready thread has a higher priority than the current one.             *)
CurrIsHighest == \A t \in ReadyThreads : Prio[curr] <= Prio[t]

(* The current thread does not execute code of its own.                    *)
NotInThread ==
    \/ ~ started
    \/ intr # "none"
    \/ curr \notin RunningThreads
    \/ pc[curr] \in {"resched", "exit"}

(* A thread that calls atomSched leaves no ready thread of a higher        *)
(* priority behind.                                                        *)
LEMMA CallSchedHighest ==
    ASSUME NEW W, SuspendInv(W), NEW t \in AppThreads, NEW from, NEW to, CallSched(t, from, to)
    PROVE  CurrIsHighest'
<1>1. started /\ atomSched(FALSE) /\ UNCHANGED started
  BY ThreadsAssumption
     DEF AppThreads, CallSched, atomCurrentContext, SuspendInv, KernelInv, ContextInv
<1> QED
  BY <1>1, SchedEffect DEF SuspendInv, KernelInv, KernelTypeOK, CurrIsHighest, ReadyThreads

(* After a step of the scheduler or the timers the current thread is the   *)
(* highest, or it does not execute code of its own, or nothing has         *)
(* happened but its return from atomTimerDelay.                            *)
LEMMA TimerNextHighest ==
    ASSUME NEW W, SuspendInv(W), TimerNext
    PROVE  \/ CurrIsHighest'
           \/ NotInThread'
           \/ /\ UNCHANGED <<readyQ, curr, started, intr, suspended>>
              /\ pc'[curr] = pc[curr] \/ (pc[curr] = "delayed" /\ pc'[curr] = "app")
<1> DEFINE Unmoved == /\ UNCHANGED <<readyQ, curr, started, intr, suspended>>
                      /\ pc'[curr] = pc[curr] \/ (pc[curr] = "delayed" /\ pc'[curr] = "app")
<1>1. /\ DOMAIN pc = Threads /\ suspended \in [Threads -> BOOLEAN]
      /\ intr # "none" => started
  BY DEF SuspendInv, KernelInv, KernelTypeOK, ContextInv
<1>2. ASSUME started, UNCHANGED started, NEW tick \in BOOLEAN, atomSched(tick)
      PROVE  CurrIsHighest'
  BY <1>1, <1>2, SchedEffect DEF SuspendInv, KernelInv, CurrIsHighest, ReadyThreads
<1>3. ASSUME NEW t \in AppThreads, NEW from, NEW to, CallSched(t, from, to)
      PROVE  CurrIsHighest'
  BY <1>3, CallSchedHighest
<1>4. ASSUME NEW c \in Contexts, NEW t \in AppThreads, MayCallTimer(c), atomThreadCreate(c, t)
      PROVE  NotInThread'
  <2>1. UNCHANGED <<curr, started, intr>>
    BY <1>4 DEF atomThreadCreate
  <2>2. CASE c = Null
    BY <1>4, <2>1, <2>2, ThreadsAssumption
       DEF MayCallTimer, MayCall, InAppCallback, atomCurrentContext, SuspendInv, KernelInv,
           SchedInv, NotInThread
  <2>3. CASE c # Null
    <3>1. c = curr /\ c \in Threads /\ pc[c] = "app" /\ intr = "none"
      BY <1>4, <2>3 DEF MayCallTimer, MayCall, atomCurrentContext, Contexts
    <3>2. t # c
      BY <1>4, <3>1 DEF atomThreadCreate, SuspendInv, CallInv
    <3> QED
      BY <1>4, <2>1, <3>1, <3>2 DEF atomThreadCreate, NotInThread
  <2> QED
    BY <2>2, <2>3
<1>5. CASE KernelStep
  <2>1. ASSUME NEW t \in AppThreads, Resched(t) \/ ThreadExitSched(t) PROVE CurrIsHighest'
    BY <1>3, <2>1 DEF Resched, ThreadExitSched
  <2>2. ASSUME NEW t \in AppThreads, ThreadExit(t) PROVE NotInThread'
    <3>1. t = curr /\ curr' = curr /\ pc'[curr] = "exit"
      BY <1>1, <2>2, ThreadsAssumption DEF AppThreads, ThreadExit, MayCall, atomCurrentContext
    <3> QED
      BY <3>1 DEF NotInThread
  <2>3. CASE atomOSStart
    BY <2>3, OSStartHighest DEF SuspendInv, CurrIsHighest
  <2>4. CASE IrqEnter
    BY <2>4 DEF IrqEnter, atomIntEnter, NotInThread
  <2>5. CASE IrqExit
    BY <1>1, <1>2, <2>5 DEF IrqExit, atomIntExit
  <2> QED
    BY <1>4, <1>5, <2>1, <2>2, <2>3, <2>4, <2>5 DEF KernelStep
<1>6. CASE TimerCall
  <2>1. ASSUME NEW t \in AppThreads, NEW ticks \in Ticks, MayCall(t), atomTimerDelay(t, ticks)
        PROVE  NotInThread'
    <3>1. t \in Threads /\ t = curr /\ curr' = curr /\ suspended'[t]
      BY <1>1, <2>1, ThreadsAssumption DEF AppThreads, MayCall, atomCurrentContext, atomTimerDelay
    <3> QED
      BY <3>1 DEF NotInThread, RunningThreads
  <2>2. ASSUME NEW t \in AppThreads, DelaySched(t) PROVE CurrIsHighest'
    BY <1>3, <2>2 DEF DelaySched
  <2>3. ASSUME NEW t \in AppThreads, DelayReturn(t) PROVE Unmoved
    BY <1>1, <2>3, ThreadsAssumption DEF AppThreads, DelayReturn, atomCurrentContext
  <2>4. CASE \/ \E c \in Contexts, tm \in AppTimers :
                   (\E ticks \in Ticks : AppTimerRegister(tm, ticks)) \/ AppTimerCancel(tm)
             \/ \E now \in NewTimes : atomTimeSet(now)
    BY <2>4 DEF AppTimerRegister, AppTimerCancel, atomTimeSet, kernelVars
  <2> QED
    BY <1>6, <2>1, <2>2, <2>3, <2>4 DEF TimerCall
<1>7. CASE atomTimerTick
  BY <1>7 DEF atomTimerTick, TickEnter, atomIntEnter, NotInThread
<1>8. CASE TickHandler
  <2>1. CASE TimerTickExit
    BY <1>1, <1>2, <2>1 DEF TimerTickExit, TickExit, atomIntExit
  <2>2. CASE TimerWalk \/ AppCallbackReturn
    BY <2>2 DEF TimerWalk, AppCallbackReturn, kernelVars
  <2>3. ASSUME NEW t \in AppThreads, atomTimerDelayCallback(t) PROVE NotInThread'
    BY <2>3 DEF atomTimerDelayCallback, CallbackDue, NotInThread
  <2> QED
    BY <1>8, <2>1, <2>2, <2>3 DEF TickHandler
<1> QED
  BY <1>5, <1>6, <1>7, <1>8 DEF TimerNext

-----------------------------------------------------------------------------

(* The inductive invariant of the timer library used by itself: nobody     *)
(* waits on an object.                                                     *)
TimerInv ==
    /\ SuspendInv({})
    /\ cbFunc \in [AppThreads -> {"delay"}]
    /\ pc \in [Threads -> TimerLabels]

(* In the initial state the lists are empty.                               *)
LEMMA TimerInitSuspend == TimerInit => SuspendInv({}) /\ PendingTimers = {}
<1> SUFFICES ASSUME TimerInit PROVE SuspendInv({}) /\ PendingTimers = {}
  OBVIOUS
<1>1. KernelInv({})
  BY KernelInitInv DEF TimerInit
<1>2. Range(timerQ) = {} /\ Range(due) = {} /\ Range(walk) = {}
  BY DEF TimerInit, TimerLibInit, Range
<1>3. PendingTimers = {} /\ Parked({}) = {}
  BY <1>2 DEF PendingTimers, Parked, DelayedThreads
<1>4. NoDuplicates(<<>>)
  BY DEF NoDuplicates
<1>5. TimerListInv
  BY <1>2, <1>4, TickModAssumption DEF TimerInit, TimerLibInit, TimerListInv, TimerLibTypeOK
<1>6. StackTimerInv({}) /\ CallInv
  BY <1>3 DEF TimerInit, KernelInit, StackTimerInv, CallInv
<1> QED
  BY <1>1, <1>3, <1>5, <1>6 DEF SuspendInv

LEMMA TimerInitInv == TimerInit => TimerInv
<1>1. TimerInit => cbFunc \in [AppThreads -> {"delay"}] /\ pc \in [Threads -> TimerLabels]
  BY DEF TimerInit, TimerLibInit, KernelInit, TimerLabels, KernelLabels
<1> QED
  BY <1>1, TimerInitSuspend DEF TimerInv

(* Every step keeps it.                                                    *)
LEMMA TimerStepInv == TimerInv /\ [TimerNext]_vars => TimerInv'
<1> SUFFICES ASSUME TimerInv, [TimerNext]_vars PROVE TimerInv'
  OBVIOUS
<1>1. CASE TimerNext
  <2>1. SuspendInv({})'
    BY <1>1, TimerNextSuspend DEF TimerInv
  <2>2. LabelsMove /\ \A t \in AppThreads : cbFunc'[t] \in {cbFunc[t], "delay"}
    BY <1>1, TimerNextFrame DEF TimerInv
  <2>3. \A t \in AppThreads : cbFunc'[t] \in {"delay"}
    BY <2>2 DEF TimerInv
  <2>4. \A t \in Threads : pc'[t] \in TimerLabels
    BY <2>2 DEF TimerInv, LabelsMove
  <2>5. IsFunction(pc, Threads) /\ IsFunction(cbFunc, AppThreads)
    BY DEF TimerInv, IsFunction
  <2>6. IsFunction(pc', Threads) /\ IsFunction(cbFunc', AppThreads)
    BY <1>1, <2>5, TimerNextFunctions DEF TimerInv
  <2>7. pc' \in [Threads -> TimerLabels]
    BY <2>4, <2>6, FunctionSet
  <2>8. cbFunc' \in [AppThreads -> {"delay"}]
    BY <2>3, <2>6, FunctionSet
  <2> QED
    BY <2>1, <2>7, <2>8 DEF TimerInv
<1>2. CASE UNCHANGED vars
  BY <1>2, SuspendStutter DEF vars, TimerInv, kernelVars, timerVars
<1> QED
  BY <1>1, <1>2

(* The invariant holds in every reachable state.                           *)
THEOREM TimerInvariant == TimerSpec => []TimerInv
  BY TimerInitInv, TimerStepInv, PTL DEF TimerSpec

(* Every live thread is running, ready or in a delay, and in one of these  *)
(* only, whatever the number of threads, timers and ticks: the callback of *)
(* a delay wakes a thread once, also when the tick comes before its call   *)
(* of atomSched.                                                           *)
THEOREM TimerPlacementHolds == TimerSpec => []TimerPlacement
<1>1. TimerInv => TimerPlacement
  <2> SUFFICES ASSUME TimerInv PROVE TimerPlacement
    OBVIOUS
  <2>1. Parked({}) = DelayedThreads
    BY DEF Parked
  <2> QED
    BY <2>1 DEF TimerInv, SuspendInv, KernelInv, SchedInv, TimerListInv, TimerPlacement, TimerTypeOK
<1> QED
  BY <1>1, TimerInvariant, PTL

(* The timer list and the list of the due callbacks hold no timer twice,   *)
(* the walk of the tick handler stays on the timer list, and a timer on a  *)
(* stack is listed only while its thread is inside atomTimerDelay.         *)
THEOREM TimerListsSoundHolds == TimerSpec => []TimerListsSound
<1>1. TimerInv => TimerListsSound
  <2> SUFFICES ASSUME TimerInv PROVE TimerListsSound
    OBVIOUS
  <2>1. ASSUME NEW t \in PendingTimers \cap AppThreads
        PROVE  pc[t] \in {"delay", "delayed"} /\ suspended[t] /\ timoCb[t]
    <3>1. timoCb[t] /\ cbFunc[t] = "delay" /\ pc[t] \in {"delay", "delayed"}
      BY <2>1 DEF TimerInv, SuspendInv, StackTimerInv
    <3>2. suspended[t]
      BY <2>1, ParkedFacts DEF TimerInv
    <3> QED
      BY <3>1, <3>2
  <2> QED
    BY <2>1 DEF TimerInv, SuspendInv, TimerListInv, TimerListsSound
<1> QED
  BY <1>1, TimerInvariant, PTL
=============================================================================
