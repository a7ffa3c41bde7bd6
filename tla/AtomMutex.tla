----------------------------- MODULE AtomMutex ------------------------------
(***************************************************************************)
(* The mutexes (kernel/atommutex.c) on top of the scheduler and the        *)
(* timers: recursive locks with an owner, handed over to the first waiting *)
(* thread by the last unlock.                                              *)
(*                                                                         *)
(* As in AtomSem every critical section is one action.  The new owner of a *)
(* mutex counts its lock only when it runs again: from the hand-over to    *)
(* that step the mutex has an owner and a count of zero.                   *)
(***************************************************************************)
EXTENDS AtomSuspend

CONSTANTS
    Mutexes,            \* the mutexes
    MaxCount,           \* the limit of count (255 in the code)
    HandlersPut,        \* whether interrupt handlers call atomMutexPut
    CallbacksDelete     \* whether callbacks of AppTimers delete mutexes

ASSUME MutexesAssumption == "delay" \notin Mutexes /\ Null \notin Mutexes
ASSUME MaxCountAssumption == MaxCount \in Nat \ {0}
ASSUME HandlersAssumption == HandlersPut \in BOOLEAN /\ CallbacksDelete \in BOOLEAN

VARIABLES
    owner,          \* per mutex: owner
    count,          \* per mutex: count
    suspQ,          \* per mutex: suspQ
    getting,        \* per thread: the mutex its blocking atomMutexGet is on
    deleting,       \* per context: the mutex its atomMutexDelete is deleting
    wokenThreads    \* per context: woken_threads of its atomMutexDelete

mutexVars == <<owner, count, suspQ, getting, deleting, wokenThreads>>

(* "mutdel": between two critical sections of atomMutexDelete.             *)
MutexLabels == SuspendLabels \cup {"mutdel"}

-----------------------------------------------------------------------------

MutexLibInit ==
    /\ owner = [m \in Mutexes |-> Null]
    /\ count = [m \in Mutexes |-> 0]
    /\ suspQ = [m \in Mutexes |-> <<>>]
    /\ getting = [t \in AppThreads |-> Null]
    /\ deleting = [c \in Contexts |-> Null]
    /\ wokenThreads = [c \in Contexts |-> FALSE]

(* A context that is inside atomMutexDelete makes no other call. *)
MayCallMutex(c) == MayCallTimer(c) /\ deleting[c] = Null

(* Discipline: no thread is inside atomMutexGet on a mutex that is created *)
(* anew.  It may be owned: that is how a deleted mutex is used again.      *)
atomMutexCreate(m) ==
    /\ \A t \in AppThreads : getting[t] # m
    /\ owner' = [owner EXCEPT ![m] = Null]
    /\ count' = [count EXCEPT ![m] = 0]
    /\ suspQ' = [suspQ EXCEPT ![m] = <<>>]
    /\ UNCHANGED <<kernelVars, timerVars, getting, deleting, wokenThreads>>

-----------------------------------------------------------------------------

(* Fault: a mutex with a count of zero is taken for free.                  *)
MutexGetClaim_CountZero(c, m) ==
    /\ c # Null
    /\ count[m] = 0 \/ owner[m] = c
    /\ count[m] < MaxCount
    /\ count' = [count EXCEPT ![m] = @ + 1]
    /\ owner' = [owner EXCEPT ![m] = c]
    /\ UNCHANGED <<kernelVars, timerVars, suspQ, getting, deleting, wokenThreads>>

(* The mutex is free or owned by the caller.  At the limit nothing changes *)
(* (ATOM_ERR_OVF), nor does it in an interrupt handler (ATOM_ERR_CONTEXT). *)
MutexGetClaim(c, m) ==
    /\ c # Null
    /\ owner[m] \in {Null, c}
    /\ count[m] < MaxCount
    /\ count' = [count EXCEPT ![m] = @ + 1]
    /\ owner' = [owner EXCEPT ![m] = c]
    /\ UNCHANGED <<kernelVars, timerVars, suspQ, getting, deleting, wokenThreads>>

(* Another thread owns the mutex and timeout >= 0; -1 changes nothing.     *)
MutexGetBlock(t, m, timeout) ==
    /\ owner[m] \notin {Null, t}
    /\ suspQ' = [suspQ EXCEPT ![m] = tcbEnqueuePriority(@, t)]
    /\ getting' = [getting EXCEPT ![t] = m]
    /\ Suspend(t, m, timeout)
    /\ UNCHANGED <<owner, count, deleting, wokenThreads>>

MutexGetSched(t) == SuspendSched(t) /\ UNCHANGED mutexVars

(* Fault: a thread that was not given the mutex counts a lock as well.     *)
MutexGetReturn_AnyStatus(t) ==
    /\ SuspendReturn(t)
    /\ count' = [count EXCEPT ![getting[t]] = (@ + 1) % (MaxCount + 1)]
    /\ getting' = [getting EXCEPT ![t] = Null]
    /\ UNCHANGED <<owner, suspQ, deleting, wokenThreads>>

(* The new owner counts its lock, outside the critical section: see        *)
(* OwnerOnly, by which no other context writes the count meanwhile.        *)
MutexGetReturn(t) ==
    /\ SuspendReturn(t)
    /\ count' = IF wakeStatus[t] = "ATOM_OK"
                  THEN [count EXCEPT ![getting[t]] = (@ + 1) % (MaxCount + 1)]
                  ELSE count
    /\ getting' = [getting EXCEPT ![t] = Null]
    /\ UNCHANGED <<owner, suspQ, deleting, wokenThreads>>

-----------------------------------------------------------------------------

(* The count after a put: a byte.  The owner check before it compares with *)
(* the current context, which is Null in an interrupt handler and equals   *)
(* the owner of a mutex nobody holds.                                      *)
CountAfterPut(m) == (count[m] - 1) % (MaxCount + 1)

MutexPutNested(c, m) ==
    /\ owner[m] = c
    /\ CountAfterPut(m) # 0
    /\ count' = [count EXCEPT ![m] = CountAfterPut(m)]
    /\ UNCHANGED <<kernelVars, timerVars, owner, suspQ, getting, deleting, wokenThreads>>

MutexPutRelease(c, m) ==
    /\ owner[m] = c
    /\ CountAfterPut(m) = 0
    /\ suspQ[m] = <<>>
    /\ count' = [count EXCEPT ![m] = 0]
    /\ owner' = [owner EXCEPT ![m] = Null]
    /\ UNCHANGED <<kernelVars, timerVars, suspQ, getting, deleting, wokenThreads>>

(* Fault: the woken thread becomes the owner only when it runs.            *)
MutexPutHandOver_NoOwner(c, m) ==
    LET next == tcbDequeueHead(suspQ[m])
    IN  /\ owner[m] = c
        /\ CountAfterPut(m) = 0
        /\ suspQ[m] # <<>>
        /\ count' = [count EXCEPT ![m] = 0]
        /\ suspQ' = [suspQ EXCEPT ![m] = next.queue]
        /\ owner' = [owner EXCEPT ![m] = Null]
        /\ WakeUp(next.tcb, "ATOM_OK")
        /\ CancelTimeout(next.tcb)
        /\ PcResched(c)
        /\ UNCHANGED <<curr, started, intr, suspended, terminated,
                       cbTicks, cbFunc, walk, due, systemTicks,
                       getting, deleting, wokenThreads>>

(* The last put of the owner hands the mutex to the head of the queue.     *)
MutexPutHandOver(c, m) ==
    LET next == tcbDequeueHead(suspQ[m])
    IN  /\ owner[m] = c
        /\ CountAfterPut(m) = 0
        /\ suspQ[m] # <<>>
        /\ count' = [count EXCEPT ![m] = 0]
        /\ suspQ' = [suspQ EXCEPT ![m] = next.queue]
        /\ owner' = [owner EXCEPT ![m] = next.tcb]
        /\ WakeUp(next.tcb, "ATOM_OK")
        /\ CancelTimeout(next.tcb)
        /\ PcResched(c)
        /\ UNCHANGED <<curr, started, intr, suspended, terminated,
                       cbTicks, cbFunc, walk, due, systemTicks,
                       getting, deleting, wokenThreads>>

atomMutexPut(c, m) ==
    MutexPutNested(c, m) \/ MutexPutRelease(c, m) \/ MutexPutHandOver(c, m)

-----------------------------------------------------------------------------

(* atomMutexDelete: a critical section per waiting thread; owner and count *)
(* stay as they are.                                                       *)
MutexDeleteStart(c, m) ==
    /\ deleting' = [deleting EXCEPT ![c] = m]
    /\ pc' = [t \in Threads |-> IF t = c THEN "mutdel" ELSE pc[t]]
    /\ UNCHANGED <<readyQ, curr, started, intr, suspended, terminated, wakeStatus,
                   timoCb, timerVars, owner, count, suspQ, getting, wokenThreads>>

InMutexDelete(c, m) ==
    /\ c = atomCurrentContext
    /\ deleting[c] = m

(* The end of the loop: reschedule if anything was woken. *)
MutexDeleteLeave(c) ==
    /\ deleting' = [deleting EXCEPT ![c] = Null]
    /\ wokenThreads' = [wokenThreads EXCEPT ![c] = FALSE]
    /\ pc' = [t \in Threads |-> IF t # c THEN pc[t]
                                ELSE IF wokenThreads[c] THEN "resched" ELSE "app"]

MutexDeleteWake(c, m) ==
    LET next == tcbDequeueHead(suspQ[m])
    IN  /\ InMutexDelete(c, m)
        /\ suspQ[m] # <<>>
        /\ suspQ' = [suspQ EXCEPT ![m] = next.queue]
        /\ WakeUp(next.tcb, "ATOM_ERR_DELETED")
        /\ CancelTimeout(next.tcb)
        /\ IF CancelTimeoutFails(next.tcb)
             THEN MutexDeleteLeave(c)
             ELSE /\ wokenThreads' = [wokenThreads EXCEPT ![c] = TRUE]
                  /\ UNCHANGED <<deleting, pc>>
        /\ UNCHANGED <<curr, started, intr, suspended, terminated, cbTicks, cbFunc,
                       walk, due, systemTicks, owner, count, getting>>

MutexDeleteEnd(c, m) ==
    /\ InMutexDelete(c, m)
    /\ suspQ[m] = <<>>
    /\ MutexDeleteLeave(c)
    /\ UNCHANGED <<readyQ, curr, started, intr, suspended, terminated, wakeStatus,
                   timoCb, timerVars, owner, count, suspQ, getting>>

(* Fault: the thread stays on the suspend queue.                           *)
atomMutexTimerCallback_Queued(t, m) ==
    Timeout(t, m) /\ UNCHANGED mutexVars

(* The timeout of a get, run by the tick handler. *)
atomMutexTimerCallback(t, m) ==
    /\ Timeout(t, m)
    /\ suspQ' = [suspQ EXCEPT ![m] = tcbDequeueEntry(@, t).queue]
    /\ UNCHANGED <<owner, count, getting, deleting, wokenThreads>>

-----------------------------------------------------------------------------

MutexCall ==
    \E c \in Contexts, m \in Mutexes :
        /\ MayCallMutex(c)
        /\ \/ atomMutexCreate(m)
           \/ MutexGetClaim(c, m)
           \/ (c = Null => HandlersPut /\ intr # "none") /\ atomMutexPut(c, m)
           \/ (InAppCallback => CallbacksDelete) /\ MutexDeleteStart(c, m)

MutexGetWait ==
    \E t \in AppThreads :
        \/ /\ MayCall(t)
           /\ \E m \in Mutexes, timeout \in Ticks \cup {0} : MutexGetBlock(t, m, timeout)
        \/ MutexGetSched(t)
        \/ MutexGetReturn(t)

MutexDeleteStep(c) == \E m \in Mutexes : MutexDeleteWake(c, m) \/ MutexDeleteEnd(c, m)

MutexTimeout == \E t \in AppThreads, m \in Mutexes : atomMutexTimerCallback(t, m)

(* The steps of the scheduler and of the timers.  An interrupt handler, a  *)
(* callback or main() does not go on while it is inside atomMutexDelete.   *)
OtherStep ==
    /\ TimerNext
    /\ atomCurrentContext = Null => deleting[Null] = Null
    /\ UNCHANGED mutexVars

MutexInit == TimerInit /\ MutexLibInit
MutexNext ==
    \/ MutexCall
    \/ MutexGetWait
    \/ \E c \in Contexts : MutexDeleteStep(c)
    \/ MutexTimeout
    \/ OtherStep

allVars == <<kernelVars, timerVars, mutexVars>>
MutexSpec == MutexInit /\ [][MutexNext]_allVars

-----------------------------------------------------------------------------

MutexTypeOK ==
    /\ KernelTypeOK
    /\ TimerLibTypeOK
    /\ cbFunc \in [AppThreads -> {"delay"} \cup Mutexes]
    /\ pc \in [Threads -> MutexLabels]
    /\ owner \in [Mutexes -> AppThreads \cup {Null}]
    /\ count \in [Mutexes -> 0..MaxCount]
    /\ suspQ \in [Mutexes -> Seq(AppThreads)]
    /\ getting \in [AppThreads -> Mutexes \cup {Null}]
    /\ deleting \in [Contexts -> Mutexes \cup {Null}]
    /\ wokenThreads \in [Contexts -> BOOLEAN]

MutexWaiters(m) == Range(suspQ[m])
AllWaiters == UNION { MutexWaiters(m) : m \in Mutexes }

(* The threads that have been given m and have not counted their lock yet. *)
HandedOver(m) ==
    { t \in AppThreads : /\ getting[t] = m
                         /\ t \notin MutexWaiters(m)
                         /\ wakeStatus[t] = "ATOM_OK" }

(* Every live thread is in exactly one place: running, ready, in a delay   *)
(* or on one suspend queue, whatever puts, deletions and timeouts meet.    *)
MutexPlacement ==
    /\ MutexTypeOK
    /\ DelayedThreads \cap AllWaiters = {}
    /\ \A m, n \in Mutexes : m # n => MutexWaiters(m) \cap MutexWaiters(n) = {}
    /\ Placement(DelayedThreads \cup AllWaiters)
    /\ \A m \in Mutexes : IsTcbQueue(suspQ[m])

(* A listed timeout belongs to a thread that waits for that mutex, and     *)
(* each wait with a timeout has one listed.                                *)
TimeoutsSound ==
    /\ StackTimersSound(MutexWaiters, Mutexes)
    /\ TimeoutsArmed(MutexWaiters, Mutexes)

(* Owner, count, hand-over and queue agree: a mutex has an owner exactly   *)
(* if it has been locked or handed over; it is handed to one thread, which *)
(* is the owner, with a count of zero; nobody waits for a free mutex.      *)
OwnershipSound ==
    \A m \in Mutexes :
        /\ owner[m] # Null <=> count[m] > 0 \/ HandedOver(m) # {}
        /\ \A t \in HandedOver(m) : owner[m] = t /\ count[m] = 0
        /\ owner[m] = Null => suspQ[m] = <<>>

(* "No thread other than the owner can lock or unlock the mutex while it   *)
(* is locked by another thread", and a call from an interrupt handler is   *)
(* "automatically and safely prevented": but for the creation of the       *)
(* mutex, count and owner are changed by the owner, or, if there is none,  *)
(* by a thread.                                                            *)
OwnerOnly ==
    [][ \A m \in Mutexes :
          \/ count'[m] = count[m] /\ owner'[m] = owner[m]
          \/ count'[m] = 0 /\ owner'[m] = Null /\ \A t \in AppThreads : getting[t] # m
          \/ /\ atomCurrentContext # Null
             /\ owner[m] \in {Null, atomCurrentContext}
      ]_allVars
=============================================================================
