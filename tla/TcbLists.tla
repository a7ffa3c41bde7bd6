------------------------------ MODULE TcbLists ------------------------------
(***************************************************************************)
(* What the TCB list functions promise: several lists, each a priority-    *)
(* ordered FIFO of threads, a thread on at most one of them.  Module       *)
(* TcbLinks implements it with the links in the TCBs.                      *)
(***************************************************************************)
EXTENDS TcbQueue

CONSTANT Queues         \* the ready queue and the suspend queues

VARIABLES
    queue,              \* per list: its threads in order
    returned            \* what the last operation returned

listVars == <<queue, returned>>

Listed == UNION { Range(queue[q]) : q \in Queues }

ListsInit ==
    /\ queue = [q \in Queues |-> <<>>]
    /\ returned = Null

(* A thread is enqueued only when it is on no list. *)
Enqueue(q, t) ==
    /\ t \notin Listed
    /\ queue' = [queue EXCEPT ![q] = tcbEnqueuePriority(@, t)]
    /\ returned' = Null

Dequeued(q, result) ==
    /\ queue' = [queue EXCEPT ![q] = result.queue]
    /\ returned' = result.tcb

ListsNext ==
    \E q \in Queues :
        \/ Dequeued(q, tcbDequeueHead(queue[q]))
        \/ \E t \in Threads :
              \/ Enqueue(q, t)
              \/ Dequeued(q, tcbDequeueEntry(queue[q], t))
              \/ Dequeued(q, tcbDequeuePriority(queue[q], Prio[t]))

ListsSpec == ListsInit /\ [][ListsNext]_listVars
=============================================================================
