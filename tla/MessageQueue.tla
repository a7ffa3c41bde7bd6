---------------------------- MODULE MessageQueue ----------------------------
(***************************************************************************)
(* What a message queue promises about the messages (the comments of       *)
(* kernel/atomqueue.c): they are retrieved in the order in which they were *)
(* put, each once, and at most Capacity are stored.                        *)
(***************************************************************************)
EXTENDS Naturals, Sequences

CONSTANTS Messages, Capacity

VARIABLE stored

Send(m) == Len(stored) < Capacity /\ stored' = Append(stored, m)
Receive == stored # <<>> /\ stored' = Tail(stored)
Create == stored' = <<>>

Init == stored = <<>>
Next == (\E m \in Messages : Send(m)) \/ Receive \/ Create

Spec == Init /\ [][Next]_stored
=============================================================================
