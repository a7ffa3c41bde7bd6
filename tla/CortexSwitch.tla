---------------------------- MODULE CortexSwitch ----------------------------
(***************************************************************************)
(* The scheduler on the Cortex-M port (ports/cortex-m/atomport.c and       *)
(* atomport-asm.S), where interrupts nest and a context switch is deferred *)
(* to the PendSV exception: atomSched sets curr_tcb at once, the registers *)
(* follow when the last active handler has returned.                       *)
(*                                                                         *)
(* A handler of higher urgency comes between any two steps of another one, *)
(* also between the two halves of its atomIntExit.  PendSV has the lowest  *)
(* urgency of all exceptions: it is taken in thread mode only, and before  *)
(* the thread goes on.  Threads block and wake each other as they do on a  *)
(* semaphore; the entry point of a thread does not return in this port.    *)
(***************************************************************************)
EXTENDS AtomKernel

CONSTANT Urgency    \* per interrupt source: the NVIC priority, larger preempts

Sources == Irqs \cup {"tick"}

ASSUME UrgencyAssumption == Urgency \in [Sources -> Nat]
ASSUME NoReturnAssumption == Mortal = {}

VARIABLES
    handlers,       \* the active handlers, the innermost first
    runningTcb,     \* ctx_switch_info.running_tcb
    nextTcb,        \* ctx_switch_info.next_tcb
    pendSV,         \* whether PendSV is pending
    regs,           \* whose context PSP and the registers of thread mode hold
    saved,          \* per thread: whose context its sp_save_ptr leads to
    suspQ           \* the threads that wait on an object of the kernel

portVars == <<handlers, runningTcb, nextTcb, pendSV, regs, saved, suspQ>>
vars == <<kernelVars, portVars>>

(* A handler after its atomIntEnter; leaving: atomIntExit has decremented  *)
(* atomIntCnt and has still to call atomSched.                             *)
Handler == [source : Sources, leaving : BOOLEAN]
Innermost == Head(handlers)

ThreadMode == started /\ handlers = <<>> /\ ~ pendSV

(* What intr of AtomKernel is with these handlers active. *)
IntrOf(hs) ==
    IF hs = <<>> THEN "none" ELSE IF Head(hs).source = "tick" THEN "tick" ELSE "irq"

MayCallPort(c) ==
    /\ MayCall(c)
    /\ IF started /\ c = Null THEN ~ Innermost.leaving ELSE c # Null => ThreadMode

-----------------------------------------------------------------------------

CortexInit ==
    /\ KernelInit
    /\ handlers = <<>>
    /\ runningTcb = Null /\ nextTcb = Null
    /\ pendSV = FALSE
    /\ regs = Null
    /\ saved = [t \in Threads |-> IF t = Idle THEN Idle ELSE Null]
    /\ suspQ = <<>>

(* Faults: a switch that is pending already is not replaced by a later     *)
(* one; PendSV is requested by handlers only.                              *)
archContextSwitch_Once ==
    IF curr' # curr /\ runningTcb # Null /\ ~ pendSV
      THEN nextTcb' = curr' /\ pendSV' = TRUE
      ELSE UNCHANGED <<nextTcb, pendSV>>
archContextSwitch_InHandlers ==
    IF curr' # curr /\ runningTcb # Null
      THEN nextTcb' = curr' /\ pendSV' = (pendSV \/ handlers # <<>>)
      ELSE UNCHANGED <<nextTcb, pendSV>>

(* Called by atomThreadSwitch when the current thread changes. *)
archContextSwitch ==
    IF curr' # curr /\ runningTcb # Null
      THEN nextTcb' = curr' /\ pendSV' = TRUE
      ELSE UNCHANGED <<nextTcb, pendSV>>

(* atomOSStart with the first thread restored; interrupts are masked until *)
(* then.                                                                   *)
StartFirst ==
    /\ atomOSStart
    /\ runningTcb' = curr' /\ nextTcb' = curr' /\ regs' = saved[curr']
    /\ saved' = [saved EXCEPT ![curr'] = Null]
    /\ UNCHANGED <<handlers, pendSV, suspQ>>

(* atomThreadCreate has the port build a context on the new stack. *)
Create(c, t) ==
    /\ MayCallPort(c)
    /\ atomThreadCreate(c, t)
    /\ saved' = [saved EXCEPT ![t] = t]
    /\ UNCHANGED <<handlers, runningTcb, nextTcb, pendSV, regs, suspQ>>

(* The critical section of a call that blocks, without a timeout. *)
Block(t) ==
    /\ MayCallPort(t)
    /\ suspQ' = tcbEnqueuePriority(suspQ, t)
    /\ suspended' = [suspended EXCEPT ![t] = TRUE]
    /\ pc' = [pc EXCEPT ![t] = "get"]
    /\ UNCHANGED <<readyQ, curr, started, intr, terminated, wakeStatus, timoCb,
                   handlers, runningTcb, nextTcb, pendSV, regs, saved>>

(* The critical section of a call that wakes a thread. *)
Wake(c) ==
    /\ MayCallPort(c)
    /\ suspQ # <<>>
    /\ suspQ' = Tail(suspQ)
    /\ readyQ' = tcbEnqueuePriority(readyQ, Head(suspQ))
    /\ pc' = [t \in Threads |-> IF t = c THEN "resched" ELSE pc[t]]
    /\ UNCHANGED <<curr, started, intr, suspended, terminated, wakeStatus, timoCb,
                   handlers, runningTcb, nextTcb, pendSV, regs, saved>>

(* The call of atomSched that follows. *)
ThreadSched(t) ==
    /\ ThreadMode
    /\ Resched(t) \/ CallSched(t, "get", "app")
    /\ archContextSwitch
    /\ UNCHANGED <<handlers, runningTcb, regs, saved, suspQ>>

-----------------------------------------------------------------------------

Enter(source) ==
    /\ started
    /\ handlers # <<>> => Urgency[source] > Urgency[Innermost.source]
    /\ handlers' = <<[source |-> source, leaving |-> FALSE]>> \o handlers
    /\ intr' = IntrOf(handlers')
    /\ UNCHANGED <<readyQ, curr, started, suspended, terminated, wakeStatus, timoCb, pc,
                   runningTcb, nextTcb, pendSV, regs, saved, suspQ>>

(* atomIntExit decrements the count and calls atomSched, whatever the      *)
(* count has become.                                                       *)
Leave ==
    /\ handlers # <<>>
    /\ ~ Innermost.leaving
    /\ handlers' = [handlers EXCEPT ![1].leaving = TRUE]
    /\ UNCHANGED <<kernelVars, runningTcb, nextTcb, pendSV, regs, saved, suspQ>>

(* Fault: only the tick calls the scheduler.                               *)
LeaveSched_TickOnly ==
    /\ handlers # <<>>
    /\ Innermost.leaving
    /\ handlers' = Tail(handlers)
    /\ intr' = IntrOf(handlers')
    /\ IF Innermost.source = "tick" THEN atomSched(TRUE) ELSE UNCHANGED <<readyQ, suspended, curr>>
    /\ archContextSwitch
    /\ UNCHANGED <<started, terminated, wakeStatus, timoCb, pc,
                   runningTcb, regs, saved, suspQ>>

LeaveSched ==
    /\ handlers # <<>>
    /\ Innermost.leaving
    /\ handlers' = Tail(handlers)
    /\ intr' = IntrOf(handlers')
    /\ atomSched(Innermost.source = "tick")
    /\ archContextSwitch
    /\ UNCHANGED <<started, terminated, wakeStatus, timoCb, pc,
                   runningTcb, regs, saved, suspQ>>

(* The registers go to the stack of running_tcb and come from that of      *)
(* next_tcb; if they are the same, there is nothing to switch.             *)
pend_sv_handler ==
    /\ pendSV /\ handlers = <<>>
    /\ pendSV' = FALSE
    /\ IF runningTcb = nextTcb
         THEN UNCHANGED <<runningTcb, regs, saved>>
         ELSE /\ saved' = [saved EXCEPT ![runningTcb] = regs, ![nextTcb] = Null]
              /\ regs' = saved[nextTcb]
              /\ runningTcb' = nextTcb
    /\ UNCHANGED <<kernelVars, handlers, nextTcb, suspQ>>

-----------------------------------------------------------------------------

CortexNext ==
    \/ StartFirst
    \/ \E c \in Contexts : Wake(c) \/ \E t \in AppThreads : Create(c, t)
    \/ \E t \in AppThreads : Block(t) \/ ThreadSched(t)
    \/ \E source \in Sources : Enter(source)
    \/ Leave
    \/ LeaveSched
    \/ pend_sv_handler

(* Handlers are finite, the tick stays pending until it is served, and     *)
(* interrupts leave some of the CPU to handlers of lower urgency and to    *)
(* PendSV.  Nothing is assumed of the threads.                             *)
Serving(source) == handlers # <<>> /\ Innermost.source = source
CortexFairness ==
    /\ SF_vars(Enter("tick"))
    /\ \A source \in Sources :
          SF_vars(Serving(source) /\ Leave) /\ SF_vars(Serving(source) /\ LeaveSched)
    /\ SF_vars(pend_sv_handler)

CortexSpec == CortexInit /\ [][CortexNext]_vars /\ CortexFairness

-----------------------------------------------------------------------------

CortexTypeOK ==
    /\ KernelTypeOK
    /\ handlers \in Seq(Handler)
    /\ {runningTcb, nextTcb, regs} \subseteq Contexts
    /\ pendSV \in BOOLEAN
    /\ saved \in [Threads -> Contexts]
    /\ suspQ \in Seq(AppThreads)

(* The registers and the kernel agree although one follows the other late: *)
(* the last decision of atomSched is in next_tcb, with PendSV pending as   *)
(* long as the CPU has not followed it; the registers are those of         *)
(* running_tcb, and every other thread has its own context, and none but   *)
(* its own, on its stack.  So a thread that goes on is curr_tcb, which     *)
(* atomCurrentContext tells it, and goes on where it was left.             *)
ContextsSound ==
    /\ CortexTypeOK
    /\ started =>
          /\ nextTcb = curr
          /\ regs = runningTcb
          /\ regs # curr => pendSV
    /\ \A t \in LiveThreads :
          saved[t] = IF t = runningTcb THEN Null ELSE t

(* Nested handlers that call atomSched one inside the other, before,       *)
(* between and after the two steps of a blocking call, leave every thread  *)
(* in exactly one place.                                                   *)
NestedPlacement ==
    /\ Placement(Range(suspQ))
    /\ IsTcbQueue(suspQ)

(* A thread that executes its own code has the highest priority of those   *)
(* that are ready, whichever of the nested handlers woke them.             *)
HighestPriorityOnCpu ==
    ThreadMode /\ pc[regs] = "app" =>
        \A t \in ReadyThreads : Prio[regs] <= Prio[t]

(* A ready thread gets the CPU, not only curr_tcb, if no other thread is   *)
(* of its priority or a higher one, whatever the others and the handlers   *)
(* go on doing.                                                            *)
HasRival(t) == \E u \in LiveThreads \ {t} : Prio[u] <= Prio[t]
HighestGetsCpu ==
    \A t \in AppThreads :
        started /\ t \in ReadyThreads /\ ~ HasRival(t) ~> regs = t \/ HasRival(t)
=============================================================================
