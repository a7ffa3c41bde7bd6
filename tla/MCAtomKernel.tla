---------------------------- MODULE MCAtomKernel ----------------------------
(* Instances of AtomKernel for TLC: two threads of equal priority, one of  *)
(* a higher priority and one of the lowest priority, the idle thread's.    *)
EXTENDS AtomKernel

CONSTANTS a, b, h, z, idle

MCThreads == {a, b, h, z, idle}
MCPrio == (a :> 2) @@ (b :> 2) @@ (h :> 0) @@ (z :> 255) @@ (idle :> 255)
=============================================================================
