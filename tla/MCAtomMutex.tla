---------------------------- MODULE MCAtomMutex -----------------------------
(* Instances of AtomMutex for TLC: a thread of each of two priorities.     *)
EXTENDS AtomMutexRefinement

CONSTANTS a, h, idle

MCThreads == {a, h, idle}
MCPrio == (a :> 2) @@ (h :> 1) @@ (idle :> 255)
=============================================================================
