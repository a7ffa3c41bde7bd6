------------------------------ MODULE TcbLinks ------------------------------
(***************************************************************************)
(* The TCB lists as they are in memory: a head pointer per list and the    *)
(* next_tcb and prev_tcb links in the TCBs, which all lists share.  Each   *)
(* operation runs in a critical section of its caller and is one action.   *)
(***************************************************************************)
EXTENDS TcbQueue, FiniteSetsExt

CONSTANT Queues         \* the ready queue and the suspend queues

ASSUME TcbsAssumption == IsFiniteSet(Threads)

VARIABLES
    head,           \* per list: *tcb_queue_ptr
    next,           \* per TCB: next_tcb
    prev,           \* per TCB: prev_tcb
    ret             \* ret_ptr of the last operation

tcbVars == <<head, next, prev, ret>>

(* The i-th value of next_ptr in a walk from the head of q. *)
Walk(q) ==
    LET ptr[i \in 0..Cardinality(Threads)] ==
            IF i = 0 THEN head[q]
            ELSE IF ptr[i-1] = Null THEN Null ELSE next[ptr[i-1]]
    IN  ptr

(* The links after p->next = n and n->prev = p, where p or n may be NULL.  *)
SetNext(links, p, n) == IF p = Null THEN links ELSE [links EXCEPT ![p] = n]
SetPrev(links, n, p) == IF n = Null THEN links ELSE [links EXCEPT ![n] = p]

TcbInit ==
    /\ head = [q \in Queues |-> Null]
    /\ next = [t \in Threads |-> Null]
    /\ prev = [t \in Threads |-> Null]
    /\ ret = Null

-----------------------------------------------------------------------------

EnqueuePriority(q, t) ==
    LET ptr == Walk(q)
        stop == Min({ i \in DOMAIN ptr : ptr[i] = Null \/ Prio[ptr[i]] > Prio[t] })
        nextPtr == ptr[stop]
        prevPtr == IF stop = 0 THEN Null ELSE ptr[stop - 1]
    IN  /\ head' = IF nextPtr = head[q] THEN [head EXCEPT ![q] = t] ELSE head
        /\ prev' = SetPrev([prev EXCEPT ![t] = prevPtr], nextPtr, t)
        /\ next' = SetNext([next EXCEPT ![t] = nextPtr], prevPtr, t)
        /\ ret' = Null

(* Fault: the new head keeps its link to the dequeued TCB.                 *)
DequeueHead_StaleLink(q) ==
    /\ ret' = head[q]
    /\ IF head[q] = Null
         THEN UNCHANGED <<head, next, prev>>
         ELSE /\ head' = [head EXCEPT ![q] = next[head[q]]]
              /\ next' = [next EXCEPT ![head[q]] = Null]
              /\ UNCHANGED prev

DequeueHead(q) ==
    /\ ret' = head[q]
    /\ IF head[q] = Null
         THEN UNCHANGED <<head, next, prev>>
         ELSE /\ head' = [head EXCEPT ![q] = next[head[q]]]
              /\ next' = [next EXCEPT ![head[q]] = Null]
              /\ prev' = [SetPrev(prev, next[head[q]], Null) EXCEPT ![head[q]] = Null]

DequeueEntry(q, t) ==
    IF \E i \in DOMAIN Walk(q) : Walk(q)[i] = t
      THEN LET ptr == Walk(q)
               at == Min({ i \in DOMAIN ptr : ptr[i] = t })
               prevPtr == IF at = 0 THEN Null ELSE ptr[at - 1]
           IN  /\ ret' = t
               /\ head' = IF t = head[q] THEN [head EXCEPT ![q] = next[t]] ELSE head
               /\ next' = [SetNext(next, prevPtr, next[t]) EXCEPT ![t] = Null]
               /\ prev' = [SetPrev(prev, next[t], prevPtr) EXCEPT ![t] = Null]
      ELSE ret' = Null /\ UNCHANGED <<head, next, prev>>

(* Fault: the head of the list moves on only if there is a next TCB.       *)
DequeuePriority_LastStays(q, lowest) ==
    IF head[q] # Null /\ Prio[head[q]] <= lowest
      THEN LET new == next[head[q]]
           IN  /\ ret' = head[q]
               /\ head' = IF new # Null THEN [head EXCEPT ![q] = new] ELSE head
               /\ prev' = SetPrev(prev, new, Null)
               /\ next' = IF new # Null THEN [next EXCEPT ![head[q]] = Null] ELSE next
      ELSE ret' = Null /\ UNCHANGED <<head, next, prev>>

(* The link of the dequeued TCB is cleared only if the list goes on.       *)
DequeuePriority(q, lowest) ==
    IF head[q] # Null /\ Prio[head[q]] <= lowest
      THEN LET new == next[head[q]]
           IN  /\ ret' = head[q]
               /\ head' = [head EXCEPT ![q] = new]
               /\ prev' = SetPrev(prev, new, Null)
               /\ next' = IF new # Null THEN [next EXCEPT ![head[q]] = Null] ELSE next
      ELSE ret' = Null /\ UNCHANGED <<head, next, prev>>

-----------------------------------------------------------------------------

OnList(q) == Range(Walk(q)) \ {Null}

(* The callers enqueue a thread only when it is on no list. *)
TcbNext ==
    \E q \in Queues :
        \/ DequeueHead(q)
        \/ \E t \in Threads :
              \/ (\A r \in Queues : t \notin OnList(r)) /\ EnqueuePriority(q, t)
              \/ DequeueEntry(q, t)
              \/ DequeuePriority(q, Prio[t])

TcbSpec == TcbInit /\ [][TcbNext]_tcbVars

-----------------------------------------------------------------------------

TcbTypeOK ==
    /\ head \in [Queues -> Threads \cup {Null}]
    /\ next \in [Threads -> Threads \cup {Null}]
    /\ prev \in [Threads -> Threads \cup {Null}]
    /\ ret \in Threads \cup {Null}

(* Every list ends: a walk along it meets NULL after at most as many TCBs  *)
(* as there are.  prev_tcb mirrors next_tcb, no two lists share a TCB, and *)
(* a TCB that has been dequeued, by whichever function, keeps no link into *)
(* a list.                                                                 *)
LinksSound ==
    /\ TcbTypeOK
    /\ \A q \in Queues : Walk(q)[Cardinality(Threads)] = Null
    /\ \A q \in Queues : head[q] # Null => prev[head[q]] = Null
    /\ \A t \in Threads : next[t] # Null => prev[next[t]] = t
    /\ \A t \in Threads : prev[t] # Null => next[prev[t]] = t
    /\ \A q, r \in Queues : q # r => OnList(q) \cap OnList(r) = {}
    /\ \A t \in Threads :
          (\A q \in Queues : t \notin OnList(q)) => next[t] = Null /\ prev[t] = Null

(* The sequence of the TCBs on list q. *)
AsSequence(q) ==
    LET ptr == Walk(q)
        end == Min({ i \in DOMAIN ptr : ptr[i] = Null })
    IN  [i \in 1..end |-> ptr[i-1]]

Lists == INSTANCE TcbLists WITH
    queue <- [q \in Queues |-> AsSequence(q)],
    returned <- ret

(* The pointer manipulation of every list function, at the head, in the    *)
(* middle, at the tail and on an empty list, is the operation on sequences *)
(* that the rest of the project uses, with the same result returned.       *)
ImplementsLists == Lists!ListsSpec
=============================================================================
