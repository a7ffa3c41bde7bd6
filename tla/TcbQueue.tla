------------------------------ MODULE TcbQueue ------------------------------
(***************************************************************************)
(* The TCB lists of the kernel (the end of kernel/atomkernel.c), as        *)
(* sequences of threads.  The ready queue and the suspend queue of every   *)
(* semaphore, mutex and message queue is such a list.  Module TcbLinks     *)
(* models the next_tcb/prev_tcb links that hold the lists in memory.       *)
(*                                                                         *)
(* A smaller priority number is a higher priority: 0 is the highest, 255   *)
(* is the idle thread's.                                                   *)
(***************************************************************************)
EXTENDS Integers, SequencesExt

CONSTANTS
    Threads,    \* the TCBs, the idle thread's included
    Null,       \* the NULL pointer
    Prio        \* the priority of each thread, a uint8_t

LowestPrio == 255

ASSUME ThreadsAssumption == Null \notin Threads
ASSUME PrioAssumption == Prio \in [Threads -> 0..LowestPrio]

-----------------------------------------------------------------------------

(* Faults: the priority is ignored; the walk stops at equal priorities.    *)
InsertPos_Fifo(q, t) == Len(q) + 1
InsertPos_BeforeEqual(q, t) ==
    LET notHigher == { i \in 1..Len(q) : Prio[q[i]] >= Prio[t] }
    IN  IF notHigher = {} THEN Len(q) + 1 ELSE Min(notHigher)

(* Where tcbEnqueuePriority stops walking the list: in front of the first  *)
(* TCB of lower priority, or at the tail.                                  *)
InsertPos(q, t) ==
    LET lower == { i \in 1..Len(q) : Prio[q[i]] > Prio[t] }
    IN  IF lower = {} THEN Len(q) + 1 ELSE Min(lower)

tcbEnqueuePriority(q, t) == InsertAt(q, InsertPos(q, t), t)

(* The list operations that return a TCB return NULL and leave the list as *)
(* it was when there is nothing to dequeue.                                *)
tcbDequeueHead(q) ==
    IF q = <<>> THEN [tcb |-> Null, queue |-> q]
                ELSE [tcb |-> Head(q), queue |-> Tail(q)]

tcbDequeueEntry(q, t) ==
    [tcb |-> IF Contains(q, t) THEN t ELSE Null, queue |-> RemoveFirst(q, t)]

tcbDequeuePriority(q, lowest) ==
    IF q # <<>> /\ Prio[Head(q)] <= lowest
      THEN [tcb |-> Head(q), queue |-> Tail(q)]
      ELSE [tcb |-> Null, queue |-> q]

-----------------------------------------------------------------------------

(* What the users of a list rely on. *)
NoDuplicates(q) == \A i, j \in 1..Len(q) : q[i] = q[j] => i = j
PriorityOrdered(q) == \A i, j \in 1..Len(q) : i < j => Prio[q[i]] <= Prio[q[j]]
IsTcbQueue(q) == q \in Seq(Threads) /\ NoDuplicates(q) /\ PriorityOrdered(q)
=============================================================================
