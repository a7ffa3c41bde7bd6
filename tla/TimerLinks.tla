----------------------------- MODULE TimerLinks -----------------------------
(***************************************************************************)
(* The two lists of the timer library as they are in memory                *)
(* (kernel/atomtimer.c): timer_queue, singly linked by next_timer, and the *)
(* callbacks of a tick, linked by next_timer_call.  A walk has no back     *)
(* links: it carries prev_ptr along to unlink a timer in the middle.       *)
(***************************************************************************)
EXTENDS Integers, FiniteSetsExt, SequencesExt

CONSTANTS
    LinkedTimers,   \* the ATOM_TIMERs
    Nil             \* the NULL pointer

(* A list: its head and the links; a walk: prev_ptr and next_ptr; the      *)
(* callback list: its head, its tail and the links.                        *)
EmptyLinks == [head |-> Nil, next |-> [tm \in LinkedTimers |-> Nil]]
NoWalk == [prev |-> Nil, next |-> Nil]
NoCalls == [head |-> Nil, tail |-> Nil, next |-> [tm \in LinkedTimers |-> Nil]]

(* The pointers that a walk from first on along the links meets, and the   *)
(* timers among them, at most as many as there are.                        *)
WalkFrom(first, next) ==
    LET ptr[i \in 0..Cardinality(LinkedTimers)] ==
            IF i = 0 THEN first ELSE IF ptr[i-1] = Nil THEN Nil ELSE next[ptr[i-1]]
    IN  ptr
ListFrom(first, next) ==
    LET ptr == WalkFrom(first, next)
        end == Min({ i \in DOMAIN ptr : ptr[i] = Nil } \cup {Cardinality(LinkedTimers)})
    IN  [i \in 1..end |-> ptr[i-1]]

LinkFirst(list, tm) == [head |-> tm, next |-> [list.next EXCEPT ![tm] = list.head]]

(* The removed timer keeps its link. *)
Unlink(list, prev, tm) ==
    IF tm = list.head
      THEN [list EXCEPT !.head = list.next[tm]]
      ELSE [list EXCEPT !.next[prev] = list.next[tm]]

(* The search of atomTimerCancel: prev_ptr is one timer behind. *)
LinkCancel(list, tm) ==
    LET found == SelectInSeq(ListFrom(list.head, list.next), LAMBDA x : x = tm)
        prev == IF found <= 1 THEN list.head ELSE ListFrom(list.head, list.next)[found - 1]
    IN  IF found = 0 THEN list ELSE Unlink(list, prev, tm)

StartWalk(list) == [prev |-> list.head, next |-> list.head]

(* Fault: prev_ptr follows although its timer has been unlinked.           *)
WalkOn_PrevAlways(walker, list, expired) ==
    [prev |-> walker.next, next |-> list.next[walker.next]]

(* One round of the loop of atomTimerCallbacks: where it goes on, and the  *)
(* list it leaves.                                                         *)
WalkOn(walker, list, expired) ==
    [prev |-> IF expired THEN walker.prev ELSE walker.next,
     next |-> list.next[walker.next]]
LinksAfter(walker, list, expired) ==
    IF expired THEN Unlink(list, walker.prev, walker.next) ELSE list

AppendCall(calls, tm) ==
    LET linked == IF calls.head = Nil THEN calls.next
                                      ELSE [calls.next EXCEPT ![calls.tail] = tm]
    IN  [head |-> IF calls.head = Nil THEN tm ELSE calls.head,
         tail |-> tm,
         next |-> [linked EXCEPT ![tm] = Nil]]

(* next_timer_call is read when the callback has returned.                 *)
NextCall(calls) == [calls EXCEPT !.head = calls.next[calls.head]]
=============================================================================
