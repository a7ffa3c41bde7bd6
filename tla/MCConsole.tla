----------------------------- MODULE MCConsole ------------------------------
(* An instance of Console for TLC: rings of three bytes, which hold two,   *)
(* lines of up to two characters, a command "x" beside "", and another     *)
(* thread whose message fills the ring.                                    *)
EXTENDS Console

MCArriving == {"x", Space, Return}
MCLeaving == {"x", Space, NewLine}
MCAppMessages == {<<"x", NewLine>>}
MCCommands == {<<>>, <<"x">>}
=============================================================================
