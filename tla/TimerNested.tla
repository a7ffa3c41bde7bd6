----------------------------- MODULE TimerNested ----------------------------
(***************************************************************************)
(* The timer lists in a port whose interrupts nest, such as Cortex-M: the  *)
(* tick has nearly the lowest priority, and the walk of atomTimerCallbacks *)
(* has no critical section.  A handler of a higher priority may register   *)
(* and cancel timers between two rounds of the walk.                       *)
(***************************************************************************)
EXTENDS TimerLinks

CONSTANT Ticks      \* the tick counts timers are registered with

VARIABLES
    links, walker, calls,   \* as in TimerLinks
    cbTicks,                \* per timer: cb_ticks
    registered              \* the timers that are to fire: registered, and
                            \* since then neither expired nor cancelled

nestedVars == <<links, walker, calls, cbTicks, registered>>

NestedInit ==
    /\ links = EmptyLinks
    /\ walker = NoWalk
    /\ calls = NoCalls
    /\ cbTicks = [tm \in LinkedTimers |-> 0]
    /\ registered = {}

(* By a thread, or by the handler of an interrupt that preempts the tick.  *)
NestedRegister(tm, ticks) ==
    /\ tm \notin registered
    /\ links' = LinkFirst(links, tm)
    /\ cbTicks' = [cbTicks EXCEPT ![tm] = ticks]
    /\ registered' = registered \cup {tm}
    /\ UNCHANGED <<walker, calls>>

NestedCancel(tm) ==
    /\ links' = LinkCancel(links, tm)
    /\ registered' = registered \ {tm}
    /\ UNCHANGED <<walker, calls, cbTicks>>

NestedTick ==
    /\ walker = NoWalk /\ calls.head = Nil
    /\ links.head # Nil
    /\ walker' = StartWalk(links)
    /\ UNCHANGED <<links, calls, cbTicks, registered>>

NestedWalk ==
    LET tm == walker.next
        expired == cbTicks[tm] = 1
        on == WalkOn(walker, links, expired)
    IN  /\ tm # Nil
        /\ cbTicks' = [cbTicks EXCEPT ![tm] = @ - 1]
        /\ links' = LinksAfter(walker, links, expired)
        /\ walker' = IF on.next = Nil THEN NoWalk ELSE on
        /\ calls' = IF expired THEN AppendCall(calls, tm) ELSE calls
        /\ registered' = IF expired THEN registered \ {tm} ELSE registered

NestedCallback ==
    /\ walker = NoWalk /\ calls.head # Nil
    /\ calls' = IF NextCall(calls).head = Nil THEN NoCalls ELSE NextCall(calls)
    /\ UNCHANGED <<links, walker, cbTicks, registered>>

NestedNext ==
    \/ \E tm \in LinkedTimers :
          NestedCancel(tm) \/ \E ticks \in Ticks : NestedRegister(tm, ticks)
    \/ NestedTick \/ NestedWalk \/ NestedCallback

NestedSpec == NestedInit /\ [][NestedNext]_nestedVars

(* "This function can be called from interrupt context" (of registration   *)
(* and cancellation): the list holds the timers that are to fire, and none *)
(* that has been called or cancelled.                                      *)
ListHoldsRegistered ==
    walker = NoWalk => Range(ListFrom(links.head, links.next)) = registered
=============================================================================
