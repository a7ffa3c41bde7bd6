-------------------------------- MODULE Sio ---------------------------------
(***************************************************************************)
(* The serial driver: its generic half (drv/sio/sio.c), the USART of the   *)
(* nucleo-l031k6 (ports/cortex-m/boards/nucleo-l031k6/l031k6_usart.c) with *)
(* its interrupt handler, and the two data registers of the hardware.  A   *)
(* write puts its bytes in the ring of bytes to send in one critical       *)
(* section and then calls Send, which the build option USE_SEND_BLOCKING   *)
(* makes a loop that sends with interrupts masked or a request for the     *)
(* transmit interrupt.  The port is opened at boot and never closed, so    *)
(* the receive interrupt is always enabled.  Threads preempt each other    *)
(* anywhere outside of a critical section.                                 *)
(***************************************************************************)
EXTENDS RingBuffer

CONSTANTS
    Threads,    \* the threads that use the port
    Arriving,   \* the bytes that arrive
    Leaving,    \* the bytes that are sent
    RxSize, TxSize,     \* RX_BUF_SIZE and TX_BUF_SIZE
    TmpSize,    \* TMP_SIZE, the bytes a blocking send takes from the ring at a time
    Builds      \* the values of USE_SEND_BLOCKING

ASSUME SioAssumption ==
    /\ RxSize \in Nat \ {0} /\ TxSize \in Nat \ {0} /\ TmpSize \in Nat \ {0}
    /\ Builds \subseteq BOOLEAN
    /\ NoByte \notin Arriving \cup Leaving

VARIABLES
    rx, tx,     \* _rxRingBuffer and _txRingBuffer
    rdr,        \* the received byte, NoByte when the flag RXNE is clear
    tdr,        \* the byte to transmit, NoByte when the flag TXE is set
    txie,       \* the transmit interrupt is enabled
    mode,       \* "send": a write has put its bytes and not called Send yet,
                \* "sending": in the critical section of a blocking send
    tmp,        \* what the blocking send has taken from the ring
    blocking    \* USE_SEND_BLOCKING

sioVars == <<rx, tx, rdr, tdr, txie, mode, tmp, blocking>>

SioTypeOK ==
    /\ rx \in Rings(Arriving, RxSize) /\ tx \in Rings(Leaving, TxSize)
    /\ rdr \in Arriving \cup {NoByte} /\ tdr \in Leaving \cup {NoByte}
    /\ txie \in BOOLEAN /\ blocking \in Builds
    /\ mode \in [Threads -> {"out", "send", "sending"}]
    /\ tmp \in Seq(Leaving) /\ Len(tmp) <= TmpSize

(* l031k6UsartCreate, usart_open. *)
SioInit ==
    /\ rx = ringCreate(RxSize) /\ tx = ringCreate(TxSize)
    /\ rdr = NoByte /\ tdr = NoByte /\ txie = FALSE
    /\ mode = [t \in Threads |-> "out"] /\ tmp = <<>>
    /\ blocking \in Builds

(* Interrupts are masked and no other thread runs. *)
Masked == \E t \in Threads : mode[t] = "sending"
Outside(t) == mode[t] = "out" /\ ~Masked

-----------------------------------------------------------------------------

(* A write accepts what fits, and goes on to Send if that is anything. *)
sio_write(t, message) ==
    /\ Outside(t)
    /\ tx' = ringPut(tx, message)
    /\ mode' = [mode EXCEPT ![t] = IF ringNewBytes(tx') > ringNewBytes(tx)
                                     THEN "send" ELSE "out"]
    /\ UNCHANGED <<rx, rdr, tdr, txie, tmp, blocking>>

(* The ring after, and the bytes of, a read.  Nothing is read when the     *)
(* ring is empty.                                                          *)
sio_read(max) == ringGet(rx, max)

(* SIO_RX_ISEMPTY, which the ioctl of the USART leaves to sio_ioctl. *)
RxIsEmpty == ringIsEmpty(rx)

(* FSioSend of the USART. *)
usart_do_send(t) ==
    /\ mode[t] = "send" /\ ~Masked
    /\ IF blocking
         THEN mode' = [mode EXCEPT ![t] = "sending"] /\ UNCHANGED txie
         ELSE mode' = [mode EXCEPT ![t] = "out"] /\ txie' = TRUE
    /\ UNCHANGED <<rx, tx, rdr, tdr, tmp, blocking>>

(* The loop of a blocking send: it takes bytes from the ring ... *)
TakeBytes(t) ==
    LET get == ringGet(tx, TmpSize) IN
    /\ mode[t] = "sending" /\ tmp = <<>>
    /\ tx' = get.ring /\ tmp' = get.bytes
    /\ mode' = [mode EXCEPT ![t] = IF get.bytes = <<>> THEN "out" ELSE "sending"]
    /\ UNCHANGED <<rx, rdr, tdr, txie, blocking>>

(* ... and waits for the hardware to take each of them. *)
usart_send_blocking(t) ==
    /\ mode[t] = "sending" /\ tmp # <<>> /\ tdr = NoByte
    /\ tdr' = Head(tmp) /\ tmp' = Tail(tmp)
    /\ UNCHANGED <<rx, tx, rdr, txie, mode, blocking>>

(* The interrupt is pending and not masked. *)
Interrupts == (rdr # NoByte \/ (txie /\ tdr = NoByte)) /\ ~Masked

(* The first half of the handler: the received byte is dropped when the    *)
(* ring is full.                                                           *)
TakeReceived ==
    /\ rx' = IF rdr = NoByte THEN rx ELSE ringPut(rx, <<rdr>>)
    /\ rdr' = NoByte

(* Fault: the transmit interrupt is disabled with every byte. *)
GiveNext_Once ==
    LET get == ringGet(tx, 1) IN
    IF tdr # NoByte
      THEN UNCHANGED <<tx, tdr, txie>>
      ELSE /\ tx' = get.ring
           /\ tdr' = IF get.bytes = <<>> THEN NoByte ELSE Head(get.bytes)
           /\ txie' = FALSE

(* The second half: the next byte to transmit, if there is room for it. *)
GiveNext ==
    LET get == ringGet(tx, 1) IN
    IF tdr # NoByte
      THEN UNCHANGED <<tx, tdr, txie>>
      ELSE /\ tx' = get.ring
           /\ tdr' = IF get.bytes = <<>> THEN NoByte ELSE Head(get.bytes)
           /\ txie' = (txie /\ get.bytes # <<>>)

usart2_handler ==
    /\ Interrupts
    /\ TakeReceived
    /\ GiveNext
    /\ UNCHANGED <<mode, tmp, blocking>>

(* The hardware: a byte arrives, which is lost when the one before it was  *)
(* not taken, or the byte to transmit has left.                            *)
Arrive(b) ==
    /\ rdr = NoByte
    /\ rdr' = b
    /\ UNCHANGED <<rx, tx, tdr, txie, mode, tmp, blocking>>

Leave ==
    /\ tdr # NoByte
    /\ tdr' = NoByte
    /\ UNCHANGED <<rx, tx, rdr, txie, mode, tmp, blocking>>

(* What the driver does by itself once a write has put its bytes. *)
SioStep ==
    \/ \E t \in Threads : \/ usart_do_send(t)
                          \/ TakeBytes(t)
                          \/ usart_send_blocking(t)
    \/ usart2_handler
    \/ Leave

(* The hardware goes on, an interrupt that is not masked is taken, and a   *)
(* thread that masks interrupts keeps the CPU.                             *)
SioFairness ==
    /\ WF_sioVars(Leave)
    /\ WF_sioVars(usart2_handler)
    /\ \A t \in Threads : WF_sioVars(TakeBytes(t)) /\ WF_sioVars(usart_send_blocking(t))
=============================================================================
