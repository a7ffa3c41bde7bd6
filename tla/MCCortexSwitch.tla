--------------------------- MODULE MCCortexSwitch ---------------------------
(* An instance of CortexSwitch for TLC: a thread that shares its time with *)
(* the idle thread, one of a higher priority, and two interrupts that      *)
(* preempt the tick, one of which preempts the other.                      *)
EXTENDS CortexSwitch

CONSTANTS a, h, idle

MCThreads == {a, h, idle}
MCPrio == (a :> 255) @@ (h :> 1) @@ (idle :> 255)
MCUrgency == ("tick" :> 1) @@ ("irq" :> 2) @@ ("fast" :> 3)
=============================================================================
