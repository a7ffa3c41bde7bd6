----------------------------- MODULE RingBuffer -----------------------------
(***************************************************************************)
(* The ring buffer (lib/buffer/ringbuffer.c): a put or get is made in one  *)
(* piece, or in two when it passes the end of the memory.  One byte stays  *)
(* unused, so that to = from is an empty ring and never a full one.  What  *)
(* a get leaves behind in the memory is not to be read again: it is NoByte *)
(* here, as the memory that was never written.                             *)
(***************************************************************************)
EXTENDS Integers, Sequences

CONSTANT NoByte         \* a cell of the memory that holds no byte of the ring

Rings(bytes, size) ==
    [size : {size}, buffer : [0..(size-1) -> bytes \cup {NoByte}],
     to : 0..(size-1), from : 0..(size-1)]

Least(x, y) == IF x < y THEN x ELSE y

ringCreate(size) ==
    [size |-> size, buffer |-> [i \in 0..(size-1) |-> NoByte], to |-> 0, from |-> 0]

ringIsEmpty(ring) == ring.to = ring.from

ringIsFull(ring) == ring.to - ring.from + 1 \in {0, ring.size}

ringFreeBytes(ring) ==
    LET n == ring.from - ring.to - 1 IN IF n < 0 THEN n + ring.size ELSE n

ringNewBytes(ring) ==
    LET n == ring.to - ring.from IN IF n < 0 THEN n + ring.size ELSE n

(* What a ring holds, from the byte that was put first. *)
Wrap(i, size) == IF i < size THEN i ELSE i - size
Contents(ring) ==
    [i \in 1..ringNewBytes(ring) |-> ring.buffer[Wrap(ring.from + i - 1, ring.size)]]

-----------------------------------------------------------------------------

(* The memory with count bytes, which follow the first skip ones of a      *)
(* message, written from index at on.                                      *)
CopyIn(buffer, at, bytes, skip, count) ==
    [i \in DOMAIN buffer |-> IF i \in at..(at + count - 1) THEN bytes[skip + i - at + 1]
                                                          ELSE buffer[i]]

(* The memory after count bytes from index at on were read. *)
Freed(buffer, at, count) ==
    [i \in DOMAIN buffer |-> IF i \in at..(at + count - 1) THEN NoByte ELSE buffer[i]]

CopyOut(buffer, at, count) == [i \in 1..count |-> buffer[at + i - 1]]

(* A put or get in one piece: count bytes that do not pass the end. *)
PutPiece(ring, bytes, count) ==
    [ring EXCEPT !.buffer = CopyIn(@, ring.to, bytes, 0, count), !.to = @ + count]
GetPiece(ring, count) ==
    [ring |-> [ring EXCEPT !.buffer = Freed(@, ring.from, count), !.from = @ + count],
     bytes |-> CopyOut(ring.buffer, ring.from, count)]

(* A put in two pieces, the second of at most room bytes from index 0 on;  *)
(* it is not reached when the first one ends in front of the end.          *)
PutWrapped(ring, bytes, room) ==
    LET n == Len(bytes)
        first == Least(n, ring.size - ring.to)
        second == Least(n - first, room)
        piece == PutPiece(ring, bytes, first)
    IN  IF piece.to < ring.size THEN piece
        ELSE [piece EXCEPT !.buffer = CopyIn(@, 0, bytes, first, second), !.to = second]

(* Fault: the byte in front of from is not kept unused. *)
ringPut_Overfull(ring, bytes) ==
    LET n == Len(bytes) IN
    IF ring.from > ring.to
      THEN PutPiece(ring, bytes, Least(n, ring.from - ring.to))
    ELSE IF ring.from = 0
      THEN PutPiece(ring, bytes, Least(n, ring.size - ring.to - 1))
    ELSE PutWrapped(ring, bytes, ring.from)

(* The ring after as many of the bytes as fit have been put. *)
ringPut(ring, bytes) ==
    LET n == Len(bytes) IN
    IF ring.from > ring.to
      THEN PutPiece(ring, bytes, Least(n, ring.from - ring.to - 1))
    ELSE IF ring.from = 0
      THEN PutPiece(ring, bytes, Least(n, ring.size - ring.to - 1))
    ELSE PutWrapped(ring, bytes, ring.from - 1)

(* The ring after, and the bytes of, a get of at most max bytes. *)
ringGet(ring, max) ==
    LET first == Least(max, ring.size - ring.from)
        second == Least(max - first, ring.to)
        piece == GetPiece(ring, first)
    IN  IF ring.to >= ring.from
          THEN GetPiece(ring, Least(max, ring.to - ring.from))
        ELSE IF piece.ring.from < ring.size
          THEN piece
        ELSE [ring |-> [piece.ring EXCEPT !.buffer = Freed(@, 0, second), !.from = second],
              bytes |-> piece.bytes \o CopyOut(ring.buffer, 0, second)]
=============================================================================
