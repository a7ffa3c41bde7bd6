------------------------------- MODULE Mutex --------------------------------
(***************************************************************************)
(* What the mutexes promise their callers (the comments of                 *)
(* kernel/atommutex.c).  The depth of a mutex is the number of locks its   *)
(* holder has been granted and not given back; the last unlock hands the   *)
(* mutex to the first in line in the same step, so that nobody takes it in *)
(* between.  AtomMutex implements this module.                             *)
(***************************************************************************)
EXTENDS WaitQueue

CONSTANTS Nobody, MaxCount

VARIABLES
    holder,     \* per mutex: the thread that holds it, or Nobody
    depth       \* per mutex: how often

Init ==
    /\ holder = [m \in Objects |-> Nobody]
    /\ depth = [m \in Objects |-> 0]
    /\ WaitInit

Lock(t, m) ==
    /\ holder[m] \in {Nobody, t}
    /\ depth[m] < MaxCount
    /\ holder' = [holder EXCEPT ![m] = t]
    /\ depth' = [depth EXCEPT ![m] = @ + 1]
    /\ UNCHANGED waitVars

Wait(t, m) ==
    /\ holder[m] \notin {Nobody, t}
    /\ Join(t, m)
    /\ UNCHANGED <<holder, depth>>

Unlock(t, m) ==
    /\ holder[m] = t
    /\ \/ /\ depth[m] > 1
          /\ depth' = [depth EXCEPT ![m] = @ - 1]
          /\ UNCHANGED <<holder, waitVars>>
       \/ /\ depth[m] = 1 /\ waiting[m] = {}
          /\ holder' = [holder EXCEPT ![m] = Nobody]
          /\ depth' = [depth EXCEPT ![m] = 0]
          /\ UNCHANGED waitVars
       \/ /\ depth[m] = 1
          /\ \E u \in Waiters :
                /\ FirstInLine(u, m)
                /\ holder' = [holder EXCEPT ![m] = u]
                /\ Leave(u, m, "ATOM_OK")
          /\ UNCHANGED depth

Create(m) ==
    /\ waiting[m] = {}
    /\ holder' = [holder EXCEPT ![m] = Nobody]
    /\ depth' = [depth EXCEPT ![m] = 0]
    /\ UNCHANGED waitVars

Next ==
    \/ \E t \in Waiters, m \in Objects : Lock(t, m) \/ Wait(t, m) \/ Unlock(t, m)
    \/ \E m \in Objects : Create(m)
    \/ WaitNext /\ UNCHANGED <<holder, depth>>

Spec == Init /\ [][Next]_<<holder, depth, waitVars>>
=============================================================================
