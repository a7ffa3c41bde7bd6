---------------------------- MODULE MCAtomTimer -----------------------------
(* An instance of AtomTimerLinks for TLC: two threads of different        *)
(* priorities and a timer of the application, so that three timers meet on *)
(* the list, with system_ticks rolling over every third tick.              *)
EXTENDS AtomTimerLinks

CONSTANTS a, h, idle

MCThreads == {a, h, idle}
MCPrio == (a :> 2) @@ (h :> 1) @@ (idle :> 255)
=============================================================================
