---------------------------- MODULE MCAtomQueue -----------------------------
(* Instances of AtomQueue for TLC: two threads of different priorities and *)
(* an interrupt handler.                                                   *)
EXTENDS AtomQueue

CONSTANTS a, h, idle

MCThreads == {a, h, idle}
MCPrio == (a :> 2) @@ (h :> 1) @@ (idle :> 255)

(* One thread gets and one puts, and both wait.                            *)
Pipe == [getters |-> {a}, putters |-> {h}, patient |-> {a, h}]
(* One thread waits for what everybody posts without waiting.              *)
Mailbox == [getters |-> {h}, putters |-> {a, h, Null}, patient |-> {h}]
(* Two threads wait for what one of them and a handler post.               *)
TwoGetters == [getters |-> {a, h}, putters |-> {h, Null}, patient |-> {a, h}]

MCUses == {Pipe, Mailbox}
MCTwoGetters == {TwoGetters}
=============================================================================
