------------------------- MODULE AtomMutexRefinement ------------------------
(***************************************************************************)
(* AtomMutex implements Mutex.  The lock of a thread that was handed the   *)
(* mutex is counted later than it is granted: until then the depth is one  *)
(* more than the count.                                                    *)
(***************************************************************************)
EXTENDS AtomMutex

Abstract == INSTANCE Mutex WITH
    Waiters <- AppThreads,
    Objects <- Mutexes,
    Nobody  <- Null,
    holder  <- owner,
    depth   <- [m \in Mutexes |-> IF HandedOver(m) # {} THEN count[m] + 1 ELSE count[m]],
    waiting <- [m \in Mutexes |-> Range(suspQ[m])],
    ahead   <- [m \in Mutexes |-> TiesInOrder(suspQ[m])],
    timed   <- { t \in AllWaiters : timoCb[t] },
    outcome <- [t \in AppThreads |->
                   IF getting[t] # Null /\ t \notin AllWaiters THEN wakeStatus[t] ELSE "none"]

(* Every step of the mutex code, interrupts, callbacks and time slices in  *)
(* between included, is a step of the abstract mutex or changes nothing of *)
(* it: in particular the mutex is never free, and never taken by another   *)
(* thread, between the last put of one owner and the run of the next.      *)
ImplementsMutex == Abstract!Spec
=============================================================================
