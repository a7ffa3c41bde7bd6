----------------------------- MODULE AtomKernel -----------------------------
(***************************************************************************)
(* The scheduler of Atomthreads (kernel/atomkernel.c): thread creation and *)
(* termination, atomSched with its preemption and time-slice rules, and    *)
(* the entry and exit of interrupt handlers.  The OS primitives (AtomTimer, *)
(* AtomSem) extend this module.                                            *)
(*                                                                         *)
(* One CPU: a thread takes a step only while it is the current one and no  *)
(* interrupt is being served.  A critical section of the code is one       *)
(* action; an interrupt may come between any two actions of a thread, in   *)
(* particular after a call has left its critical section and before it has *)
(* called atomSched.  pc holds where each thread is between such steps.    *)
(* Interrupts do not nest.                                                 *)
(***************************************************************************)
EXTENDS TcbQueue

CONSTANTS
    Idle,       \* the idle thread, created by atomOSInit
    Irqs,       \* the interrupt sources other than the system tick
    Mortal      \* the threads whose entry point may return

ASSUME IdleAssumption == Idle \in Threads /\ Prio[Idle] = LowestPrio
ASSUME MortalAssumption == Mortal \subseteq Threads \ {Idle}

VARIABLES
    readyQ,         \* tcbReadyQ
    curr,           \* curr_tcb, Null until the OS is started
    started,        \* atomOSStarted
    intr,           \* the interrupt being served: "none" iff atomIntCnt = 0
    suspended,      \* per TCB: suspended
    terminated,     \* per TCB: terminated
    wakeStatus,     \* per TCB: suspend_wake_status
    timoCb,         \* per TCB: suspend_timo_cb # NULL
    pc              \* per thread: where it is (see the label sets below)

kernelVars ==
    <<readyQ, curr, started, intr, suspended, terminated, wakeStatus, timoCb, pc>>

AppThreads == Threads \ {Idle}
Contexts == Threads \cup {Null}
WakeStatus == {"ATOM_OK", "ATOM_TIMEOUT", "ATOM_ERR_DELETED"}

(* "none": never created; "app": in application code; "resched": about to  *)
(* call atomSched and return to the application; "exit": the entry point   *)
(* has returned and terminated is set.                                     *)
KernelLabels == {"none", "app", "resched", "exit"}

-----------------------------------------------------------------------------

(* The context a call is made from: the current thread, or NULL in an      *)
(* interrupt handler and before the OS is started.                         *)
atomCurrentContext == IF intr = "none" THEN curr ELSE Null

(* Context c may make a call of the kernel: a thread that is in its        *)
(* application code, the handler of an interrupt other than the tick, or   *)
(* main() before atomOSStart.                                              *)
MayCall(c) ==
    /\ c = atomCurrentContext
    /\ IF c = Null THEN intr # "tick" ELSE c # Idle /\ pc[c] = "app"

(* A created thread that has not run to completion and been switched out.  *)
Live(t) == pc[t] # "none" /\ (terminated[t] => curr = t)

-----------------------------------------------------------------------------

(* The state after atomOSInit, with nothing but the idle thread. *)
KernelInit ==
    /\ readyQ = tcbEnqueuePriority(<<>>, Idle)
    /\ curr = Null
    /\ started = FALSE
    /\ intr = "none"
    /\ suspended = [t \in Threads |-> FALSE]
    /\ terminated = [t \in Threads |-> FALSE]
    /\ wakeStatus = [t \in Threads |-> "ATOM_OK"]
    /\ timoCb = [t \in Threads |-> FALSE]
    /\ pc = [t \in Threads |-> IF t = Idle THEN "app" ELSE "none"]

atomThreadSwitch(new) ==
    /\ suspended' = [suspended EXCEPT ![new] = FALSE]
    /\ curr' = new

(* Faults: equal priorities are swapped on any call; never, even on ticks. *)
LowestAllowed_Equal(tick) == Prio[curr]
LowestAllowed_Higher(tick) == Prio[curr] - 1

(* The lowest priority that may be scheduled in over a current thread that *)
(* is still ready: its own on a tick, a higher one otherwise; -1 is none.  *)
LowestAllowed(tick) == IF tick THEN Prio[curr] ELSE Prio[curr] - 1

SchedSuspended ==
    LET next == tcbDequeueHead(readyQ)
    IN  /\ suspended[curr] \/ terminated[curr]
        /\ readyQ' = next.queue
        /\ atomThreadSwitch(next.tcb)

(* Fault: the preempted thread is not put back on the ready queue.         *)
SchedReady_DropCurrent(tick) ==
    LET next == tcbDequeuePriority(readyQ, LowestAllowed(tick))
    IN  /\ ~ suspended[curr] /\ ~ terminated[curr]
        /\ IF next.tcb # Null
             THEN /\ readyQ' = next.queue
                  /\ atomThreadSwitch(next.tcb)
             ELSE UNCHANGED <<readyQ, suspended, curr>>

SchedReady(tick) ==
    LET next == tcbDequeuePriority(readyQ, LowestAllowed(tick))
    IN  /\ ~ suspended[curr] /\ ~ terminated[curr]
        /\ IF next.tcb # Null
             THEN /\ readyQ' = tcbEnqueuePriority(next.queue, curr)
                  /\ atomThreadSwitch(next.tcb)
             ELSE UNCHANGED <<readyQ, suspended, curr>>

(* Only reached once the OS is started. *)
atomSched(tick) == SchedSuspended \/ SchedReady(tick)

-----------------------------------------------------------------------------

(* A thread that has left its critical section at label from calls the     *)
(* scheduler; it is at label to when it runs again.                        *)
CallSched(t, from, to) ==
    /\ atomCurrentContext = t
    /\ pc[t] = from
    /\ atomSched(FALSE)
    /\ pc' = [pc EXCEPT ![t] = to]
    /\ UNCHANGED <<started, intr, terminated, wakeStatus, timoCb>>

Resched(t) == CallSched(t, "resched", "app")

(* Fault: the creator does not call atomSched.                             *)
atomThreadCreate_NoSched(c, t) ==
    /\ pc[t] = "none" \/ (terminated[t] /\ curr # t)
    /\ suspended' = [suspended EXCEPT ![t] = FALSE]
    /\ terminated' = [terminated EXCEPT ![t] = FALSE]
    /\ timoCb' = [timoCb EXCEPT ![t] = FALSE]
    /\ readyQ' = tcbEnqueuePriority(readyQ, t)
    /\ pc' = [pc EXCEPT ![t] = "app"]
    /\ UNCHANGED <<curr, started, intr, wakeStatus>>

(* A TCB may be used again once its thread has terminated and another one  *)
(* has been scheduled in.                                                  *)
atomThreadCreate(c, t) ==
    /\ pc[t] = "none" \/ (terminated[t] /\ curr # t)
    /\ suspended' = [suspended EXCEPT ![t] = FALSE]
    /\ terminated' = [terminated EXCEPT ![t] = FALSE]
    /\ timoCb' = [timoCb EXCEPT ![t] = FALSE]
    /\ readyQ' = tcbEnqueuePriority(readyQ, t)
    /\ pc' = [u \in Threads |-> IF u = t THEN "app"
                                ELSE IF u = c THEN "resched" ELSE pc[u]]
    /\ UNCHANGED <<curr, started, intr, wakeStatus>>

(* Faults: the current context goes back to the ready queue, as in         *)
(* atomSched; the idle priority is excluded.                               *)
atomOSStart_Requeue ==
    LET next == tcbDequeuePriority(readyQ, LowestPrio)
    IN  /\ ~ started
        /\ started' = TRUE
        /\ readyQ' = tcbEnqueuePriority(next.queue, curr)
        /\ curr' = next.tcb
        /\ UNCHANGED <<intr, suspended, terminated, wakeStatus, timoCb, pc>>
atomOSStart_NotIdle ==
    LET next == tcbDequeuePriority(readyQ, LowestPrio - 1)
    IN  /\ ~ started
        /\ started' = TRUE
        /\ readyQ' = next.queue
        /\ curr' = next.tcb
        /\ UNCHANGED <<intr, suspended, terminated, wakeStatus, timoCb, pc>>

atomOSStart ==
    LET next == tcbDequeuePriority(readyQ, LowestPrio)
    IN  /\ ~ started
        /\ started' = TRUE
        /\ readyQ' = next.queue
        /\ curr' = next.tcb
        /\ UNCHANGED <<intr, suspended, terminated, wakeStatus, timoCb, pc>>

(* thread_shell of the ports, when the entry point returns. *)
ThreadExit(t) ==
    /\ t \in Mortal
    /\ MayCall(t)
    /\ terminated' = [terminated EXCEPT ![t] = TRUE]
    /\ pc' = [pc EXCEPT ![t] = "exit"]
    /\ UNCHANGED <<readyQ, curr, started, intr, suspended, wakeStatus, timoCb>>

ThreadExitSched(t) == CallSched(t, "exit", "exit")

atomIntEnter(source) ==
    /\ started
    /\ intr = "none"
    /\ intr' = source
    /\ UNCHANGED <<readyQ, curr, started, suspended, terminated, wakeStatus, timoCb, pc>>

IrqEnter == Irqs # {} /\ atomIntEnter("irq")
TickEnter == atomIntEnter("tick")

atomIntExit(source, tick) ==
    /\ intr = source
    /\ intr' = "none"
    /\ atomSched(tick)
    /\ UNCHANGED <<started, terminated, wakeStatus, timoCb, pc>>

IrqExit == atomIntExit("irq", FALSE)
TickExit == atomIntExit("tick", TRUE)

-----------------------------------------------------------------------------

(* The scheduler with no OS primitive but thread creation. *)
KernelNext ==
    \/ atomOSStart
    \/ \E c \in Contexts, t \in AppThreads : MayCall(c) /\ atomThreadCreate(c, t)
    \/ \E t \in AppThreads : Resched(t) \/ ThreadExit(t) \/ ThreadExitSched(t)
    \/ IrqEnter \/ IrqExit
    \/ TickEnter \/ TickExit

KernelSpec == KernelInit /\ [][KernelNext]_kernelVars

(* The hardware keeps a tick pending until it is served, and interrupt     *)
(* handlers are finite.  Nothing is assumed of the threads.                *)
KernelFairness ==
    /\ SF_kernelVars(TickEnter)
    /\ WF_kernelVars(TickExit)
    /\ WF_kernelVars(IrqExit)

FairKernelSpec == KernelSpec /\ KernelFairness

-----------------------------------------------------------------------------

KernelTypeOK ==
    /\ readyQ \in Seq(Threads)
    /\ curr \in Contexts
    /\ started \in BOOLEAN
    /\ intr \in {"none", "irq", "tick"}
    /\ suspended \in [Threads -> BOOLEAN]
    /\ terminated \in [Threads -> BOOLEAN]
    /\ wakeStatus \in [Threads -> WakeStatus]
    /\ timoCb \in [Threads -> BOOLEAN]
    /\ DOMAIN pc = Threads

-----------------------------------------------------------------------------

(* Where a live thread is.  Parked threads wait on a primitive; which they *)
(* are is up to the module that models it.                                 *)
RunningThreads == { t \in Threads : curr = t /\ ~ suspended[t] }
ReadyThreads == Range(readyQ)
LiveThreads == { t \in Threads : Live(t) }

Placement(parked) ==
    /\ NoDuplicates(readyQ)
    /\ RunningThreads \cap ReadyThreads = {}
    /\ RunningThreads \cap parked = {}
    /\ ReadyThreads \cap parked = {}
    /\ LiveThreads = RunningThreads \cup ReadyThreads \cup parked

(* "Once a thread is scheduled in, it is not present on the ready queue or *)
(* any other kernel queue while it is running.  When scheduled out it will *)
(* be either placed back on the ready queue (if still ready), or will be   *)
(* suspended on some OS primitive" (the comment of tcbReadyQ): every live  *)
(* thread is in exactly one place, through creations, terminations,        *)
(* preemptions and interrupts that come before the call of atomSched.      *)
KernelPlacement == Placement({})

(* atomSched dequeues "unconditionally" when the current thread suspends   *)
(* or terminates, and does not check for NULL, because "There will always  *)
(* be at least the idle thread waiting".                                   *)
CurrNeverNull == started => curr \in Threads

(* The ready queue is in priority order, which tcbDequeuePriority relies   *)
(* on when it looks at the list head only.                                 *)
ReadyQueueOrdered == PriorityOrdered(readyQ)

(* Whenever a thread executes its own code, with no interrupt being served *)
(* and no call of atomSched still to make (its label is one of labels), no *)
(* ready thread has a higher priority: no creation or wake-up is left      *)
(* without a reschedule.                                                   *)
HighestPriority(labels) ==
    started /\ intr = "none" /\ curr \in RunningThreads /\ pc[curr] \in labels =>
        \A t \in ReadyThreads : Prio[curr] <= Prio[t]
HighestPriorityRuns == HighestPriority({"app"})

(* "Round-robin is only performed on timer ticks": any other reschedule of *)
(* a thread that is still ready is for one of higher priority.             *)
TimeSliceOnlyOnTick ==
    [][ started /\ curr' # curr /\ intr # "tick"
           => \/ suspended[curr] \/ terminated[curr]
              \/ Prio[curr'] < Prio[curr] ]_kernelVars

(* "Where there are multiple threads of the same priority, the TCB         *)
(* pointers are FIFO-ordered": of two ready threads of the same priority,  *)
(* the one in front became ready first, through preemptions, time slices   *)
(* and switches that take a thread off the queue and put another one back. *)
ReadyFifo ==
    [][ \A k, l \in 1..Len(readyQ') :
          /\ k < l
          /\ Prio[readyQ'[k]] = Prio[readyQ'[l]]
          /\ readyQ'[l] \in ReadyThreads
          => \E i, j \in 1..Len(readyQ) :
                i < j /\ readyQ[i] = readyQ'[k] /\ readyQ[j] = readyQ'[l]
      ]_kernelVars

(* Time slices: a ready thread gets the CPU unless a thread of higher      *)
(* priority is alive, whatever the threads of its own priority do.         *)
HigherLive(t) == \E u \in LiveThreads : Prio[u] < Prio[t]
RoundRobin ==
    \A t \in AppThreads :
        started /\ t \in ReadyThreads /\ ~ HigherLive(t) ~> curr = t \/ HigherLive(t)
=============================================================================
