-------------------------- MODULE AtomSemRefinement -------------------------
(***************************************************************************)
(* AtomSem implements Semaphore: of the suspend queue the abstract one has *)
(* who is on it and which of two threads of the same priority is ahead; a  *)
(* thread that has left it but not returned from atomSemGet has the status *)
(* it was woken with as its outcome.                                       *)
(***************************************************************************)
EXTENDS AtomSem

OutcomeOf(t) ==
    IF pc[t] \in {"get", "got"} /\ t \notin AllWaiters THEN wakeStatus[t] ELSE "none"

Abstract == INSTANCE Semaphore WITH
    Waiters <- AppThreads,
    Objects <- Sems,
    avail   <- count,
    waiting <- [s \in Sems |-> Range(suspQ[s])],
    ahead   <- [s \in Sems |-> TiesInOrder(suspQ[s])],
    timed   <- { t \in AllWaiters : timoCb[t] },
    outcome <- [t \in AppThreads |-> OutcomeOf(t)]

(* Every step of the semaphore code, interrupts, callbacks and time slices *)
(* in between included, is a step of the abstract semaphore or changes     *)
(* nothing of it: tokens are neither lost nor made, wake-ups go to the     *)
(* highest priority and among equals to the longest wait, and the status   *)
(* atomSemGet returns is the reason the thread left the queue.             *)
ImplementsSemaphore == Abstract!Spec
=============================================================================
