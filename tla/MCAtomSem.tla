----------------------------- MODULE MCAtomSem ------------------------------
(* Instances of AtomSem for TLC: a thread of each of two priorities.       *)
EXTENDS AtomSemRefinement

CONSTANTS a, h, idle

MCThreads == {a, h, idle}
MCPrio == (a :> 2) @@ (h :> 1) @@ (idle :> 255)
=============================================================================
