---------------------------- MODULE ByteStreams -----------------------------
(***************************************************************************)
(* What a serial port promises: two streams of bytes.  A byte that was     *)
(* received is read once and in order; what a write accepts is a beginning *)
(* of the message that was written, and leaves the port in order and       *)
(* undivided by the bytes of other writers.                                *)
(***************************************************************************)
EXTENDS Naturals, Sequences

CONSTANTS
    Bytes,      \* the bytes that arrive
    Messages    \* what the threads write, each a sequence

VARIABLES
    received,   \* bytes that wait to be read
    toSend      \* bytes that wait to leave

Init == received = <<>> /\ toSend = <<>>

Receive(b) == received' = Append(received, b) /\ UNCHANGED toSend
Read == received # <<>> /\ received' = Tail(received) /\ UNCHANGED toSend

Write(message) ==
    /\ \E n \in 1..Len(message) : toSend' = toSend \o SubSeq(message, 1, n)
    /\ UNCHANGED received
Transmit == toSend # <<>> /\ toSend' = Tail(toSend) /\ UNCHANGED received

Next ==
    \/ \E b \in Bytes : Receive(b)
    \/ Read
    \/ \E message \in Messages : Write(message)
    \/ Transmit

Spec == Init /\ [][Next]_<<received, toSend>>
=============================================================================
