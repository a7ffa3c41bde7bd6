------------------------------ MODULE Console -------------------------------
(***************************************************************************)
(* The console (com/console/console.c): a thread that polls the debug port *)
(* for characters, echoes them, collects a line, and runs the command that *)
(* the line names when a carriage return arrives.  Another thread writes   *)
(* to the same port.  A text that is printed as a whole stands for its     *)
(* characters.  Commands are registered before the OS is started.          *)
(***************************************************************************)
EXTENDS Sio

CONSTANTS
    console, app,       \* the console's thread and the other writer
    Space, Return,      \* ' ' and 0x0d
    NewLine, Prompt, Report,    \* texts: "\r\n", PROMPT, what print_result says
    AppMessages,        \* what the other thread writes
    Commands,           \* the names in the list of commands, "" of none with them
    MaxLine             \* bound: characters of a line

ASSUME ConsoleAssumption ==
    /\ Threads = {console, app} /\ console # app
    /\ {Space, Return} \subseteq Arriving /\ Space # Return
    /\ Arriving \ {Return} \subseteq Leaving
    /\ {NewLine, Prompt, Report} \subseteq Leaving
    /\ AppMessages \subseteq Seq(Leaving)

VARIABLES
    at,         \* where the console is: "poll", "read", "run"
    outbox,     \* what it has still to print before it goes on
    buffer,     \* _debug_command, the line up to the index
    typed       \* history: what was received and is not run yet

vars == <<sioVars, at, outbox, buffer, typed>>
lineVars == <<at, outbox, buffer>>

ConsoleTypeOK ==
    /\ SioTypeOK
    /\ at \in {"poll", "read", "run"}
    /\ outbox \in Seq(Leaving) /\ buffer \in Seq(Arriving \ {Return})
    /\ typed \in Seq(Arriving)

Init ==
    /\ SioInit
    /\ at = "poll" /\ outbox = <<Prompt>> /\ buffer = <<>>
    /\ typed = <<>>

-----------------------------------------------------------------------------

(* The parameters of a line: what is in front of each space, and what      *)
(* follows the last one unless it is empty and there is another parameter. *)
Split(line) ==
    LET read[n \in 0..Len(line)] ==
            IF n = 0 THEN [params |-> <<>>, current |-> <<>>]
            ELSE IF line[n] = Space
              THEN [params |-> Append(read[n-1].params, read[n-1].current), current |-> <<>>]
              ELSE [read[n-1] EXCEPT !.current = Append(@, line[n])]
        end == read[Len(line)]
    IN  IF end.params = <<>> \/ end.current # <<>>
          THEN Append(end.params, end.current) ELSE end.params

(* What was typed in front of the first carriage return. *)
FirstLine(bytes) ==
    SubSeq(bytes, 1, CHOOSE n \in 0..Len(bytes) :
                         /\ n < Len(bytes) => bytes[n+1] = Return
                         /\ \A i \in 1..n : bytes[i] # Return)

(* What a command may return: an action may refuse its parameters. *)
RunCommand(argv) ==
    IF Head(argv) \in Commands THEN {"CE_OK", "CE_PARAM_ERROR"} ELSE {"CE_NOT_FOUND"}

print_result(result) == IF result = "CE_OK" THEN <<>> ELSE <<Report>>

(* The console runs, and has printed what it was to print. *)
Proceeds(where) == at = where /\ outbox = <<>> /\ Outside(console)

(* A character of a text, or an echo: its write is not repeated when the   *)
(* ring is full.                                                           *)
PortDebugPutChar ==
    /\ outbox # <<>>
    /\ sio_write(console, <<Head(outbox)>>)
    /\ outbox' = Tail(outbox)
    /\ UNCHANGED <<at, buffer, typed>>

(* Finds a character; when there is none the thread delays for two ticks   *)
(* and looks again.                                                        *)
PortDebugIsReadable ==
    /\ Proceeds("poll")
    /\ ~RxIsEmpty
    /\ at' = "read"
    /\ UNCHANGED <<sioVars, outbox, buffer, typed>>

(* PortDebugRead8, whose character is not written when there is none; a    *)
(* character other than a carriage return is echoed and added to the line. *)
PortDebugRead8 ==
    LET get == sio_read(1) IN
    /\ Proceeds("read")
    /\ rx' = get.ring
    /\ \E c \in IF get.bytes = <<>> THEN Arriving ELSE {Head(get.bytes)} :
           IF c = Return
             THEN at' = "run" /\ outbox' = <<NewLine>> /\ UNCHANGED buffer
             ELSE at' = "poll" /\ outbox' = <<c>> /\ buffer' = Append(buffer, c)
    /\ UNCHANGED <<tx, rdr, tdr, txie, mode, tmp, blocking, typed>>

(* Fault: the line and its index are not reset. *)
ConsoleInput_KeepsLine ==
    /\ Proceeds("run")
    /\ \E result \in RunCommand(Split(buffer)) :
           outbox' = print_result(result) \o <<Prompt>>
    /\ at' = "poll"
    /\ typed' = SubSeq(typed, Len(FirstLine(typed)) + 2, Len(typed))
    /\ UNCHANGED <<sioVars, buffer>>

(* ConsoleInput and what follows it; nothing reads the line any more when  *)
(* the texts are printed, and it is emptied at once here.                  *)
ConsoleInput ==
    /\ Proceeds("run")
    /\ \E result \in RunCommand(Split(buffer)) :
           outbox' = print_result(result) \o <<Prompt>>
    /\ buffer' = <<>> /\ at' = "poll"
    /\ typed' = SubSeq(typed, Len(FirstLine(typed)) + 2, Len(typed))
    /\ UNCHANGED sioVars

-----------------------------------------------------------------------------

(* printf of the other thread, which goes through _write. *)
_write(message) == sio_write(app, message) /\ UNCHANGED <<lineVars, typed>>

(* The port by itself; typed follows what the handler puts in the ring. *)
Port ==
    /\ SioStep
    /\ typed' = IF ringNewBytes(rx') > ringNewBytes(rx) THEN Append(typed, rdr) ELSE typed
    /\ UNCHANGED lineVars

(* The code does not check the length of a line against CMD_LEN, nor its   *)
(* parameters against MAX_PARAM_COUNT: who types must not pass them.       *)
Type(b) ==
    LET line == Append(typed, b) IN
    /\ \/ b = Return
       \/ \E n \in 1..Len(line) :
              line[Len(line) - n + 1] = Return /\ n <= MaxLine + 1
       \/ Len(line) <= MaxLine
    /\ Arrive(b)
    /\ UNCHANGED <<lineVars, typed>>

Next ==
    \/ PortDebugPutChar \/ PortDebugIsReadable \/ PortDebugRead8 \/ ConsoleInput
    \/ \E message \in AppMessages : _write(message)
    \/ Port
    \/ \E b \in Arriving : Type(b)

Spec == Init /\ [][Next]_vars
FairSpec == Spec /\ SioFairness

-----------------------------------------------------------------------------

(* The parameters of a command are the line that was typed, divided at its *)
(* spaces, where one space at the end of the line counts for nothing: no   *)
(* character is lost between the handler and the command, comes twice, or  *)
(* stays from the line before, whatever arrives while a command runs.  And *)
(* what is not run yet is in the line buffer, in the character that was    *)
(* read or in the ring, in the order it was typed.                         *)
Joined(argv) ==
    LET join[n \in 1..Len(argv)] ==
            IF n = 1 THEN argv[1] ELSE join[n-1] \o <<Space>> \o argv[n]
    IN  join[Len(argv)]
CommandsAsTyped ==
    /\ ConsoleTypeOK
    /\ at = "run" => LET argv == Split(buffer) IN
                     FirstLine(typed) \in {Joined(argv), Append(Joined(argv), Space)}
    /\ typed = buffer \o (IF at = "run" THEN <<Return>> ELSE <<>>) \o Contents(rx)

(* Bytes that wait to be sent are sent, unless a write has put its bytes   *)
(* and not called Send yet: no order of the handler, which takes bytes     *)
(* from the ring and disables its interrupt, and of the calls of Send,     *)
(* which come after the critical section of the write, leaves bytes in the *)
(* ring with nobody to take them.                                          *)
NobodySends == \A t \in Threads : mode[t] # "send"
TxDrains == (~ringIsEmpty(tx) /\ NobodySends) ~> (ringIsEmpty(tx) \/ ~NobodySends)

(* The port implements the two streams it promises: with both ways to send *)
(* bytes leave in the order of the writes and none is sent twice, lost or  *)
(* mixed up, where the ring wraps or is full, and while the handler, a     *)
(* blocking send and the next write all work on it.                        *)
Streams == INSTANCE ByteStreams WITH
    Bytes <- Arriving,
    Messages <- AppMessages \cup { <<b>> : b \in Leaving },
    received <- Contents(rx),
    toSend <- (IF tdr = NoByte THEN <<>> ELSE <<tdr>>) \o tmp \o Contents(tx)
ImplementsStreams == Streams!Spec
=============================================================================
