----------------------------- MODULE WaitQueue ------------------------------
(***************************************************************************)
(* What it promises to wait on an object of the kernel, without scheduler, *)
(* timer lists and critical sections: threads wait in order of priority    *)
(* and, among equals, of arrival.  Each wait ends with one outcome, fixed  *)
(* at the moment the thread leaves the queue.                              *)
(***************************************************************************)
EXTENDS Integers

CONSTANTS Waiters, Objects, Prio

VARIABLES
    waiting,    \* per object: the threads that wait on it
    ahead,      \* per object: <<t, u>> if t and u wait, have the same
                \* priority, and t has waited longer
    timed,      \* the waiting threads that have a timeout
    outcome     \* per thread: how its last wait ended, until it has returned

waitVars == <<waiting, ahead, timed, outcome>>

Waiting == UNION { waiting[obj] : obj \in Objects }

(* t has waited longest among those of the highest priority. *)
FirstInLine(t, obj) ==
    /\ t \in waiting[obj]
    /\ \A u \in waiting[obj] \ {t} : Prio[t] < Prio[u] \/ <<t, u>> \in ahead[obj]

WaitInit ==
    /\ waiting = [obj \in Objects |-> {}]
    /\ ahead = [obj \in Objects |-> {}]
    /\ timed = {}
    /\ outcome = [t \in Waiters |-> "none"]

Join(t, obj) ==
    /\ t \notin Waiting
    /\ outcome[t] = "none"
    /\ waiting' = [waiting EXCEPT ![obj] = @ \cup {t}]
    /\ ahead' = [ahead EXCEPT ![obj] =
                    @ \cup ({ u \in waiting[obj] : Prio[u] = Prio[t] } \X {t})]
    /\ timed' \in {timed, timed \cup {t}}
    /\ UNCHANGED outcome

Leave(t, obj, result) ==
    /\ waiting' = [waiting EXCEPT ![obj] = @ \ {t}]
    /\ ahead' = [ahead EXCEPT ![obj] = @ \ (({t} \X Waiters) \cup (Waiters \X {t}))]
    /\ timed' = timed \ {t}
    /\ outcome' = [outcome EXCEPT ![t] = result]

Expire(t, obj) == t \in waiting[obj] \cap timed /\ Leave(t, obj, "ATOM_TIMEOUT")

DeleteOne(t, obj) == FirstInLine(t, obj) /\ Leave(t, obj, "ATOM_ERR_DELETED")

Return(t) ==
    /\ outcome[t] # "none"
    /\ outcome' = [outcome EXCEPT ![t] = "none"]
    /\ UNCHANGED <<waiting, ahead, timed>>

(* The steps that leave the object itself alone. *)
WaitNext ==
    \/ \E t \in Waiters, obj \in Objects : DeleteOne(t, obj) \/ Expire(t, obj)
    \/ \E t \in Waiters : Return(t)
=============================================================================
