----------------------------- MODULE MCTcbLinks -----------------------------
(* An instance of TcbLinks for TLC: two lists and four threads, two of     *)
(* them of equal priority.                                                 *)
EXTENDS TcbLinks

CONSTANTS a, b, h, l

MCThreads == {a, b, h, l}
MCPrio == (a :> 2) @@ (b :> 2) @@ (h :> 0) @@ (l :> 255)
=============================================================================
