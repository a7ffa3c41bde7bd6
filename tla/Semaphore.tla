----------------------------- MODULE Semaphore ------------------------------
(***************************************************************************)
(* What the semaphores promise their callers (the comments of              *)
(* kernel/atomsem.c).  A wait ends because the thread was handed the token *)
(* of a put, because its timeout passed or because the semaphore was       *)
(* deleted.  AtomSem implements this module.                               *)
(***************************************************************************)
EXTENDS WaitQueue

CONSTANTS MaxCount, InitCounts, ResetCounts

VARIABLE avail      \* per semaphore: tokens nobody has taken

Init == avail \in [Objects -> InitCounts] /\ WaitInit

Take(s) ==
    /\ avail[s] > 0
    /\ avail' = [avail EXCEPT ![s] = @ - 1]
    /\ UNCHANGED waitVars

Wait(t, s) ==
    /\ avail[s] = 0
    /\ Join(t, s)
    /\ UNCHANGED avail

(* A token goes to the first in line, or to nobody if nobody waits. *)
Hand(t, s) ==
    /\ FirstInLine(t, s)
    /\ Leave(t, s, "ATOM_OK")
    /\ UNCHANGED avail

Put(s) ==
    /\ waiting[s] = {}
    /\ avail[s] < MaxCount
    /\ avail' = [avail EXCEPT ![s] = @ + 1]
    /\ UNCHANGED waitVars

Create(s, n) ==
    /\ waiting[s] = {}
    /\ avail' = [avail EXCEPT ![s] = n]
    /\ UNCHANGED waitVars

(* Tokens appear or disappear; threads that wait go on waiting.            *)
Reset(s, n) ==
    /\ avail' = [avail EXCEPT ![s] = n]
    /\ UNCHANGED waitVars

Next ==
    \/ \E s \in Objects : Take(s) \/ Put(s)
    \/ \E s \in Objects, n \in InitCounts : Create(s, n)
    \/ \E s \in Objects, n \in ResetCounts : Reset(s, n)
    \/ \E t \in Waiters, s \in Objects : Wait(t, s) \/ Hand(t, s)
    \/ WaitNext /\ UNCHANGED avail

Spec == Init /\ [][Next]_<<avail, waitVars>>
=============================================================================
