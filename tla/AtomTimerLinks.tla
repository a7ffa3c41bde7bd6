--------------------------- MODULE AtomTimerLinks ---------------------------
(***************************************************************************)
(* AtomTimerOnTime with the links of the timer lists beside the sequences  *)
(* timerQ, walk and due: every operation on a sequence is made on the      *)
(* links as well, the way the code makes it.                               *)
(***************************************************************************)
EXTENDS AtomTimerOnTime

ASSUME LinkedTimersAssumption == IsFiniteSet(Timers) /\ Null \notin Timers

VARIABLES
    links,          \* timer_queue and the next_timer links
    walker,         \* prev_ptr and next_ptr of the walk of the tick handler
    calls           \* the callback list and the next_timer_call links

linkVars == <<links, walker, calls>>

TL == INSTANCE TimerLinks WITH LinkedTimers <- Timers, Nil <- Null

LinksInit ==
    /\ HistoryInit
    /\ links = TL!EmptyLinks
    /\ walker = TL!NoWalk
    /\ calls = TL!NoCalls

RegisterLink(tm) ==
    /\ Registered(tm)
    /\ links' = TL!LinkFirst(links, tm)
    /\ UNCHANGED <<walker, calls>>

CancelLink(tm) ==
    /\ walk = <<>>
    /\ tm \in Range(timerQ) \ Range(timerQ')
    /\ links' = TL!LinkCancel(links, tm)
    /\ UNCHANGED <<walker, calls>>

TickLink ==
    /\ intr # "tick" /\ intr' = "tick"
    /\ walker' = TL!StartWalk(links)
    /\ UNCHANGED <<links, calls>>

WalkLink ==
    LET expired == cbTicks[walker.next] = 1 IN
    /\ walk # <<>>
    /\ links' = TL!LinksAfter(walker, links, expired)
    /\ walker' = TL!WalkOn(walker, links, expired)
    /\ calls' = IF expired THEN TL!AppendCall(calls, walker.next) ELSE calls

CallLink ==
    /\ due # <<>> /\ due' = Tail(due)
    /\ calls' = TL!NextCall(calls)
    /\ UNCHANGED <<links, walker>>

(* The handler returns; its local variables are gone. *)
ReturnLink ==
    /\ intr = "tick" /\ intr' # "tick"
    /\ walker' = TL!NoWalk
    /\ calls' = TL!NoCalls
    /\ UNCHANGED links

(* A blocking call returns; the link in its stack timer is gone. *)
DropLink(t) ==
    /\ pc[t] = "delayed" /\ pc'[t] = "app"
    /\ links' = [links EXCEPT !.next[t] = Null]
    /\ UNCHANGED <<walker, calls>>

NoLink ==
    /\ timerQ' = timerQ /\ walk' = walk /\ due' = due
    /\ (intr = "tick") = (intr' = "tick")
    /\ \A t \in AppThreads : pc[t] = "delayed" => pc'[t] = "delayed"
    /\ UNCHANGED linkVars

LinkStep ==
    \/ \E tm \in Timers : RegisterLink(tm) \/ CancelLink(tm)
    \/ TickLink \/ WalkLink \/ CallLink \/ ReturnLink
    \/ \E t \in AppThreads : DropLink(t)
    \/ NoLink

LinksSpec ==
    LinksInit /\ [][HistoryNext /\ LinkStep]_<<vars, deadline, linkVars>>

(* The single links hold the lists that the rest of the project describes  *)
(* as sequences, through registrations at the head, cancellations and      *)
(* expirations at the head, in the middle and of several timers in a row:  *)
(* prev_ptr is behind next_ptr when it is needed, next_ptr is at the next  *)
(* timer to count, and no callback is lost from the callback list.         *)
LinksAsListed ==
    /\ timerQ = TL!ListFrom(links.head, links.next)
    /\ walker.next = IF walk = <<>> THEN Null ELSE Head(walk)
    /\ due = TL!ListFrom(calls.head, calls.next)
=============================================================================
