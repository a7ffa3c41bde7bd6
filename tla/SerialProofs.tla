---------------------------- MODULE SerialProofs ----------------------------
(***************************************************************************)
(* The serial path, from the ring buffer up.  The first part says what a   *)
(* put and a get do to the contents of a ring buffer, for every size of    *)
(* the ring, every position of its two indexes and every length.  The      *)
(* second part: the serial port under the console implements the two       *)
(* streams of bytes that ByteStreams promises, for every size of its rings *)
(* and of the buffer of a blocking send, in both builds, and whatever is   *)
(* typed and printed.  The third part: the parameters of every command are *)
(* the line that was typed.  Split and Joined are recursive functions over *)
(* a line and over its parameters, which exist and are what they say by    *)
(* induction; the induction rests on the order of the natural numbers      *)
(* being well-founded.                                                     *)
(***************************************************************************)
EXTENDS Console, SequenceTheorems, WellFoundedInduction, TLAPS

(* ringNewBytes, of the indexes alone.                                     *)
Held(from, to, size) == IF to < from THEN to - from + size ELSE to - from

LEMMA HeldProperties ==
    ASSUME NEW size \in Nat \ {0}, NEW from \in 0..(size-1), NEW to \in 0..(size-1)
    PROVE  Held(from, to, size) \in 0..(size-1)
  BY DEF Held

LEMMA WrapProperties ==
    ASSUME NEW size \in Nat \ {0}, NEW x \in 0..(2*size-1)
    PROVE  Wrap(x, size) \in 0..(size-1)
  BY DEF Wrap

(* The bytes that are put count. *)
LEMMA PutLength ==
    ASSUME NEW size \in Nat \ {0}, NEW from \in 0..(size-1), NEW to \in 0..(size-1),
           NEW k \in Nat, Held(from, to, size) + k < size
    PROVE  Held(from, Wrap(to + k, size), size) = Held(from, to, size) + k
<1>1. CASE to < from
  BY <1>1 DEF Held, Wrap
<1>2. CASE from <= to
  BY <1>2 DEF Held, Wrap
<1> QED
  BY <1>1, <1>2

(* They come to lie behind those that the ring holds ... *)
LEMMA PutPlace ==
    ASSUME NEW size \in Nat \ {0}, NEW from \in 0..(size-1), NEW to \in 0..(size-1),
           NEW k \in Nat, Held(from, to, size) + k < size,
           NEW i \in 1..k
    PROVE  Wrap(from + (Held(from, to, size) + i) - 1, size) = Wrap(to + i - 1, size)
<1>1. CASE to < from
  BY <1>1 DEF Held, Wrap
<1>2. CASE from <= to
  BY <1>2 DEF Held, Wrap
<1> QED
  BY <1>1, <1>2

(* ... and never over one of them. *)
LEMMA PutApart ==
    ASSUME NEW size \in Nat \ {0}, NEW from \in 0..(size-1), NEW to \in 0..(size-1),
           NEW k \in Nat, Held(from, to, size) + k < size,
           NEW i \in 1..Held(from, to, size), NEW j \in 1..k
    PROVE  Wrap(from + i - 1, size) # Wrap(to + j - 1, size)
<1>1. CASE to < from
  BY <1>1 DEF Held, Wrap
<1>2. CASE from <= to
  BY <1>2 DEF Held, Wrap
<1> QED
  BY <1>1, <1>2

(* The bytes that are taken count no more ... *)
LEMMA GetLength ==
    ASSUME NEW size \in Nat \ {0}, NEW from \in 0..(size-1), NEW to \in 0..(size-1),
           NEW k \in 0..Held(from, to, size)
    PROVE  Held(Wrap(from + k, size), to, size) = Held(from, to, size) - k
<1>1. CASE to < from
  BY <1>1 DEF Held, Wrap
<1>2. CASE from <= to
  BY <1>2 DEF Held, Wrap
<1> QED
  BY <1>1, <1>2

(* ... those behind them stay where they are ... *)
LEMMA GetPlace ==
    ASSUME NEW size \in Nat \ {0}, NEW from \in 0..(size-1), NEW to \in 0..(size-1),
           NEW k \in 0..Held(from, to, size),
           NEW i \in 1..(Held(from, to, size) - k)
    PROVE  Wrap(Wrap(from + k, size) + i - 1, size) = Wrap(from + (k + i) - 1, size)
<1>1. CASE to < from
  BY <1>1 DEF Held, Wrap
<1>2. CASE from <= to
  BY <1>2 DEF Held, Wrap
<1> QED
  BY <1>1, <1>2

(* ... and lie apart from them. *)
LEMMA GetApart ==
    ASSUME NEW size \in Nat \ {0}, NEW from \in 0..(size-1), NEW to \in 0..(size-1),
           NEW k \in 0..Held(from, to, size),
           NEW i \in 1..(Held(from, to, size) - k), NEW j \in 1..k
    PROVE  Wrap(from + (k + i) - 1, size) # Wrap(from + j - 1, size)
<1>1. CASE to < from
  BY <1>1 DEF Held, Wrap
<1>2. CASE from <= to
  BY <1>2 DEF Held, Wrap
<1> QED
  BY <1>1, <1>2

-----------------------------------------------------------------------------

RingOf(size, mem, to, from) ==
    [size |-> size, buffer |-> mem, to |-> to, from |-> from]
Cells(S) == S \cup {NoByte}
Memory(S, size) == [0..(size-1) -> Cells(S)]

(* k bytes are written from index at on, past the end of the memory, and   *)
(* nothing else is.                                                        *)
Written(before, after, size, pos, bytes, k) ==
    /\ \A i \in 1..k : after[Wrap(pos + i - 1, size)] = bytes[i]
    /\ \A c \in 0..(size-1) :
           (\A i \in 1..k : c # Wrap(pos + i - 1, size)) => after[c] = before[c]

(* The k bytes from index at on are what was got. *)
Taken(before, size, pos, got, k) ==
    /\ Len(got) = k
    /\ \A i \in 1..k : got[i] = before[Wrap(pos + i - 1, size)]

(* Nothing but the k bytes from index at on has changed. *)
Kept(before, after, size, pos, k) ==
    \A c \in 0..(size-1) :
        (\A i \in 1..k : c # Wrap(pos + i - 1, size)) => after[c] = before[c]

LEMMA ContentsElement ==
    ASSUME NEW S, NEW size \in Nat \ {0}, NEW from \in 0..(size-1), NEW to \in 0..(size-1),
           NEW mem \in Memory(S, size), NEW i \in 1..Held(from, to, size)
    PROVE  Contents(RingOf(size, mem, to, from))[i] = mem[Wrap(from + i - 1, size)]
  BY DEF Contents, RingOf, ringNewBytes, Held

LEMMA ContentsType ==
    ASSUME NEW S, NEW size \in Nat \ {0}, NEW from \in 0..(size-1), NEW to \in 0..(size-1),
           NEW mem \in Memory(S, size)
    PROVE  /\ Contents(RingOf(size, mem, to, from)) \in Seq(Cells(S))
           /\ Len(Contents(RingOf(size, mem, to, from))) = Held(from, to, size)
<1> DEFINE n == Held(from, to, size)
           c == [i \in 1..n |-> mem[Wrap(from + i - 1, size)]]
<1>1. n \in 0..(size-1)
  BY HeldProperties
<1>2. Contents(RingOf(size, mem, to, from)) = c
  BY DEF Contents, RingOf, ringNewBytes, Held
<1> HIDE DEF n
<1>3. \A i \in 1..n : mem[Wrap(from + i - 1, size)] \in Cells(S)
  <2> TAKE i \in 1..n
  <2>1. from + i - 1 \in 0..(2*size-1)
    BY <1>1
  <2>2. Wrap(from + i - 1, size) \in 0..(size-1)
    BY <2>1, WrapProperties
  <2> QED
    BY <2>2 DEF Memory
<1>4. c \in Seq(Cells(S)) /\ Len(c) = n
  BY <1>1, <1>3
<1> QED
  BY <1>2, <1>4 DEF n

(* A put of k bytes, however many pieces it takes, adds them at the end.   *)
LEMMA PutContents ==
    ASSUME NEW S, NEW size \in Nat \ {0}, NEW from \in 0..(size-1), NEW to \in 0..(size-1),
           NEW before \in Memory(S, size), NEW after \in Memory(S, size),
           NEW bytes \in Seq(S), NEW k \in 0..Len(bytes),
           Held(from, to, size) + k < size,
           Written(before, after, size, to, bytes, k)
    PROVE  Contents(RingOf(size, after, Wrap(to + k, size), from)) =
               Contents(RingOf(size, before, to, from)) \o SubSeq(bytes, 1, k)
<1> DEFINE n == Held(from, to, size)
           old == Contents(RingOf(size, before, to, from))
           new == Contents(RingOf(size, after, Wrap(to + k, size), from))
           put == SubSeq(bytes, 1, k)
           T == Cells(S)
<1>0. /\ n \in 0..(size-1) /\ k \in 0..(size-1)
      /\ to + k \in 0..(2*size-1) /\ Wrap(to + k, size) \in 0..(size-1)
  <2>1. n \in 0..(size-1) /\ k \in 0..(size-1)
    <3>1. n \in 0..(size-1)
      BY HeldProperties
    <3>2. k \in Nat /\ n + k < size
      OBVIOUS
    <3> HIDE DEF n
    <3> QED
      BY <3>1, <3>2
  <2>2. to + k \in 0..(2*size-1)
    BY <2>1
  <2> QED
    BY <2>1, <2>2, WrapProperties
<1>1. /\ Held(from, Wrap(to + k, size), size) = n + k
      /\ \A i \in 1..k : Wrap(from + (n + i) - 1, size) = Wrap(to + i - 1, size)
      /\ \A i \in 1..n, j \in 1..k : Wrap(from + i - 1, size) # Wrap(to + j - 1, size)
  <2>1. k \in Nat
    OBVIOUS
  <2>2. Held(from, Wrap(to + k, size), size) = n + k
    BY <2>1, PutLength
  <2>3. ASSUME NEW i \in 1..k
        PROVE  Wrap(from + (n + i) - 1, size) = Wrap(to + i - 1, size)
    BY <2>1, PutPlace
  <2>4. ASSUME NEW i \in 1..n, NEW j \in 1..k
        PROVE  Wrap(from + i - 1, size) # Wrap(to + j - 1, size)
    BY <2>1, PutApart
  <2> QED
    BY <2>2, <2>3, <2>4
<1>2. /\ old \in Seq(T) /\ Len(old) = n
      /\ \A i \in 1..n : old[i] = before[Wrap(from + i - 1, size)]
  <2>1. old \in Seq(T) /\ Len(old) = n
    BY ContentsType
  <2>2. ASSUME NEW i \in 1..n
        PROVE  old[i] = before[Wrap(from + i - 1, size)]
    BY ContentsElement
  <2> QED
    BY <2>1, <2>2
<1>3. /\ new \in Seq(T) /\ Len(new) = n + k
      /\ \A i \in 1..(n + k) : new[i] = after[Wrap(from + i - 1, size)]
  <2> DEFINE end == Wrap(to + k, size)
  <2>1. end \in 0..(size-1) /\ Held(from, end, size) = n + k
    BY <1>0, <1>1
  <2> HIDE DEF end, n
  <2>2. new \in Seq(T) /\ Len(new) = n + k
    BY <2>1, ContentsType DEF end
  <2>3. ASSUME NEW i \in 1..(n + k)
        PROVE  new[i] = after[Wrap(from + i - 1, size)]
    BY <2>1, ContentsElement DEF end
  <2> QED
    BY <2>2, <2>3
<1>4. /\ put \in Seq(T) /\ Len(put) = k
      /\ \A i \in 1..k : put[i] = bytes[i]
  BY DEF Cells
<1> HIDE DEF n, old, new, put, T
<1>5. /\ old \o put \in Seq(T) /\ Len(old \o put) = n + k
      /\ \A i \in 1..(n + k) : /\ i <= n => (old \o put)[i] = old[i]
                               /\ i > n => (old \o put)[i] = put[i - n]
  <2>1. /\ old \o put \in Seq(T) /\ Len(old \o put) = Len(old) + Len(put)
        /\ \A i \in 1..Len(old) + Len(put) : (old \o put)[i] =
               IF i <= Len(old) THEN old[i] ELSE put[i - Len(old)]
    BY <1>2, <1>4, ConcatProperties, Zenon
  <2> QED
    BY <2>1, <1>2, <1>4
<1>6. ASSUME NEW i \in 1..(n + k) PROVE new[i] = (old \o put)[i]
  <2>0. i \in Int /\ n \in Int
    BY <1>0
  <2>1. CASE i <= n
    <3>1. i \in 1..n
      BY <2>1, <1>0
    <3>2. from + i - 1 \in 0..(2*size-1)
      BY <3>1, <1>0
    <3>3. Wrap(from + i - 1, size) \in 0..(size-1)
      BY <3>2, WrapProperties
    <3>4. after[Wrap(from + i - 1, size)] = before[Wrap(from + i - 1, size)]
      BY <3>1, <3>3, <1>1 DEF Written
    <3> QED
      BY <3>1, <3>4, <2>1, <1>2, <1>3, <1>5
  <2>2. CASE i > n
    <3> DEFINE j == i - n
    <3>1. j \in 1..k /\ n + j = i
      BY <2>2, <1>0
    <3> HIDE DEF j
    <3>2. new[i] = after[Wrap(from + (n + j) - 1, size)]
      BY <3>1, <1>3
    <3>3. after[Wrap(from + (n + j) - 1, size)] = bytes[j]
      BY <3>1, <1>1 DEF Written
    <3>4. (old \o put)[i] = put[j]
      <4>1. (old \o put)[i] = put[i - n]
        BY <2>2, <2>0, <1>5
      <4> QED
        BY <4>1 DEF j
    <3> QED
      BY <3>1, <3>2, <3>3, <3>4, <1>4
  <2> QED
    <3>1. i <= n \/ i > n
      BY <2>0
    <3> QED
      BY <3>1, <2>1, <2>2
<1>7. new = old \o put
  BY <1>3, <1>5, <1>6, SeqEqual, Zenon
<1> QED
  BY <1>7 DEF new, old, put

(* A get of k bytes takes the first ones of what the ring holds. *)
LEMMA GetContents ==
    ASSUME NEW S, NEW size \in Nat \ {0}, NEW from \in 0..(size-1), NEW to \in 0..(size-1),
           NEW before \in Memory(S, size), NEW after \in Memory(S, size),
           NEW k \in 0..Held(from, to, size),
           NEW got \in Seq(Cells(S)), Taken(before, size, from, got, k),
           Kept(before, after, size, from, k)
    PROVE  Contents(RingOf(size, before, to, from)) =
               got \o Contents(RingOf(size, after, to, Wrap(from + k, size)))
<1> DEFINE n == Held(from, to, size)
           m == n - k
           old == Contents(RingOf(size, before, to, from))
           new == Contents(RingOf(size, after, to, Wrap(from + k, size)))
           T == Cells(S)
<1>0. /\ n \in 0..(size-1) /\ k \in 0..n /\ m \in 0..(size-1)
      /\ from + k \in 0..(2*size-1) /\ Wrap(from + k, size) \in 0..(size-1)
  <2>1. n \in 0..(size-1) /\ k \in 0..n
    BY HeldProperties
  <2>2. from + k \in 0..(2*size-1) /\ m \in 0..(size-1)
    BY <2>1
  <2> QED
    BY <2>1, <2>2, WrapProperties
<1>1. Held(Wrap(from + k, size), to, size) = m
  BY GetLength
<1>2. ASSUME NEW i \in 1..m
      PROVE  Wrap(Wrap(from + k, size) + i - 1, size) = Wrap(from + (k + i) - 1, size)
  BY GetPlace
<1>3. ASSUME NEW i \in 1..m, NEW j \in 1..k
      PROVE  Wrap(from + (k + i) - 1, size) # Wrap(from + j - 1, size)
  BY GetApart
<1>4. /\ old \in Seq(T) /\ Len(old) = n
      /\ \A i \in 1..n : old[i] = before[Wrap(from + i - 1, size)]
  <2>1. old \in Seq(T) /\ Len(old) = n
    BY ContentsType
  <2>2. ASSUME NEW i \in 1..n
        PROVE  old[i] = before[Wrap(from + i - 1, size)]
    BY ContentsElement
  <2> QED
    BY <2>1, <2>2
<1>5. /\ new \in Seq(T) /\ Len(new) = m
      /\ \A i \in 1..m : new[i] = after[Wrap(from + (k + i) - 1, size)]
  <2> DEFINE first == Wrap(from + k, size)
  <2>1. first \in 0..(size-1) /\ Held(first, to, size) = m
    BY <1>0, <1>1
  <2> HIDE DEF first, m
  <2>2. new \in Seq(T) /\ Len(new) = m
    BY <2>1, ContentsType DEF first
  <2>3. ASSUME NEW i \in 1..m
        PROVE  new[i] = after[Wrap(first + i - 1, size)]
    BY <2>1, ContentsElement DEF first
  <2> QED
    BY <2>2, <2>3, <1>2 DEF first
<1> HIDE DEF n, m, old, new, T
<1>6. /\ got \o new \in Seq(T) /\ Len(got \o new) = n
      /\ \A i \in 1..n : /\ i <= k => (got \o new)[i] = got[i]
                         /\ i > k => (got \o new)[i] = new[i - k]
  <2>0. got \in Seq(T) /\ Len(got) = k
    BY DEF T, Taken
  <2>1. /\ got \o new \in Seq(T) /\ Len(got \o new) = Len(got) + Len(new)
        /\ \A i \in 1..Len(got) + Len(new) : (got \o new)[i] =
               IF i <= Len(got) THEN got[i] ELSE new[i - Len(got)]
    BY <1>5, <2>0, ConcatProperties, Zenon
  <2>2. k + m = n
    BY <1>0 DEF m
  <2> QED
    BY <2>0, <2>1, <2>2, <1>5
<1>7. ASSUME NEW i \in 1..n PROVE old[i] = (got \o new)[i]
  <2>0. i \in Int /\ k \in Int
    BY <1>0
  <2>1. CASE i <= k
    <3>1. i \in 1..k
      BY <2>1, <1>0
    <3> QED
      BY <3>1, <2>1, <1>4, <1>6 DEF Taken
  <2>2. CASE i > k
    <3> DEFINE j == i - k
               c == Wrap(from + (k + j) - 1, size)
    <3>1. j \in 1..m /\ k + j = i
      BY <2>2, <1>0 DEF m
    <3>2. from + (k + j) - 1 \in 0..(2*size-1)
      BY <3>1, <1>0
    <3>3. c \in 0..(size-1)
      BY <3>2, WrapProperties
    <3>4. (got \o new)[i] = new[j]
      BY <2>2, <2>0, <1>6
    <3> HIDE DEF j
    <3>5. after[c] = before[c]
      BY <3>1, <3>3, <1>3 DEF Kept
    <3>6. old[i] = before[c]
      BY <3>1, <1>4
    <3>7. new[j] = after[c]
      BY <3>1, <1>5
    <3> QED
      BY <3>4, <3>5, <3>6, <3>7
  <2> QED
    <3>1. i <= k \/ i > k
      BY <2>0
    <3> QED
      BY <3>1, <2>1, <2>2
<1>8. old = got \o new
  BY <1>4, <1>6, <1>7, SeqEqual, Zenon
<1> QED
  BY <1>8 DEF new, old

-----------------------------------------------------------------------------

(* What is written by a put that does not reach the end of the memory ...  *)
LEMMA OnePiece ==
    ASSUME NEW S, NEW size \in Nat \ {0}, NEW to \in 0..(size-1), NEW k \in Nat,
           NEW before \in Memory(S, size), NEW bytes \in Seq(S),
           k <= Len(bytes), to + k <= size
    PROVE  /\ CopyIn(before, to, bytes, 0, k) \in Memory(S, size)
           /\ Written(before, CopyIn(before, to, bytes, 0, k), size, to, bytes, k)
<1> DEFINE after == CopyIn(before, to, bytes, 0, k)
<1>1. Len(bytes) \in Nat /\ \A i \in 1..Len(bytes) : bytes[i] \in S
  OBVIOUS
<1>2. /\ after \in Memory(S, size)
      /\ \A c \in 0..(size-1) : after[c] = IF c \in to..(to + k - 1)
                                            THEN bytes[0 + c - to + 1] ELSE before[c]
  BY <1>1 DEF CopyIn, Memory, Cells
<1> HIDE DEF after
<1>3. ASSUME NEW i \in 1..k PROVE after[Wrap(to + i - 1, size)] = bytes[i]
  <2> DEFINE c == to + i - 1
  <2>1. /\ c \in 0..(size-1) /\ c \in to..(to + k - 1) /\ 0 + c - to + 1 = i
        /\ Wrap(to + i - 1, size) = c
    BY DEF Wrap
  <2> HIDE DEF c
  <2>2. after[c] = bytes[0 + c - to + 1]
    BY <2>1, <1>2
  <2> QED
    BY <2>1, <2>2
<1>4. ASSUME NEW c \in 0..(size-1), \A i \in 1..k : c # Wrap(to + i - 1, size)
      PROVE  after[c] = before[c]
  <2>1. CASE c \in to..(to + k - 1)
    <3> DEFINE i == c - to + 1
    <3>1. i \in 1..k /\ Wrap(to + i - 1, size) = c
      BY <2>1 DEF Wrap
    <3> QED
      BY <3>1, <1>4
  <2> QED
    BY <2>1, <1>2
<1> QED
  BY <1>2, <1>3, <1>4 DEF after, Written

(* ... and by one that goes on at its start. *)
LEMMA TwoPieces ==
    ASSUME NEW S, NEW size \in Nat \ {0}, NEW to \in 0..(size-1),
           NEW before \in Memory(S, size), NEW bytes \in Seq(S),
           NEW first \in Nat, NEW second \in 0..to,
           to + first = size, first + second <= Len(bytes),
           NEW after,
           after = CopyIn(CopyIn(before, to, bytes, 0, first), 0, bytes, first, second)
    PROVE  /\ after \in Memory(S, size)
           /\ Written(before, after, size, to, bytes, first + second)
<1> DEFINE half == CopyIn(before, to, bytes, 0, first)
<1>0. after = CopyIn(half, 0, bytes, first, second)
  OBVIOUS
<1>1. /\ first <= Len(bytes) /\ to + first <= size
      /\ Len(bytes) \in Nat /\ \A i \in 1..Len(bytes) : bytes[i] \in S
  OBVIOUS
<1>2. /\ half \in Memory(S, size)
      /\ \A c \in 0..(size-1) : half[c] = IF c \in to..(to + first - 1)
                                           THEN bytes[0 + c - to + 1] ELSE before[c]
  BY <1>1 DEF CopyIn, Memory, Cells
<1> HIDE DEF half
<1>3. /\ after \in Memory(S, size)
      /\ \A c \in 0..(size-1) : after[c] = IF c \in 0..(0 + second - 1)
                                            THEN bytes[first + c - 0 + 1] ELSE half[c]
  BY <1>0, <1>1, <1>2 DEF CopyIn, Memory, Cells
<1>4. ASSUME NEW i \in 1..(first + second) PROVE after[Wrap(to + i - 1, size)] = bytes[i]
  <2>1. CASE i <= first
    <3> DEFINE c == to + i - 1
    <3>1. /\ c \in 0..(size-1) /\ c \in to..(to + first - 1) /\ 0 + c - to + 1 = i
          /\ c \notin 0..(0 + second - 1) /\ Wrap(to + i - 1, size) = c
      BY <2>1 DEF Wrap
    <3> HIDE DEF c
    <3>2. after[c] = half[c] /\ half[c] = bytes[0 + c - to + 1]
      BY <3>1, <1>2, <1>3
    <3> QED
      BY <3>1, <3>2
  <2>2. CASE i > first
    <3> DEFINE c == i - first - 1
    <3>1. /\ c \in 0..(size-1) /\ c \in 0..(0 + second - 1) /\ first + c - 0 + 1 = i
          /\ Wrap(to + i - 1, size) = c
      BY <2>2 DEF Wrap
    <3> HIDE DEF c
    <3>2. after[c] = bytes[first + c - 0 + 1]
      BY <3>1, <1>3
    <3> QED
      BY <3>1, <3>2
  <2>3. i <= first \/ i > first
    OBVIOUS
  <2> QED
    BY <2>1, <2>2, <2>3
<1>5. ASSUME NEW c \in 0..(size-1), \A i \in 1..(first + second) : c # Wrap(to + i - 1, size)
      PROVE  after[c] = before[c]
  <2>1. c \notin 0..(0 + second - 1)
    <3>1. ASSUME c \in 0..(0 + second - 1) PROVE FALSE
      <4> DEFINE i == first + c + 1
      <4>1. i \in 1..(first + second) /\ Wrap(to + i - 1, size) = c
        BY <3>1 DEF Wrap
      <4> QED
        BY <4>1, <1>5
    <3> QED
      BY <3>1
  <2>2. c \notin to..(to + first - 1)
    <3>1. ASSUME c \in to..(to + first - 1) PROVE FALSE
      <4> DEFINE i == c - to + 1
      <4>1. i \in 1..(first + second) /\ Wrap(to + i - 1, size) = c
        BY <3>1 DEF Wrap
      <4> QED
        BY <4>1, <1>5
    <3> QED
      BY <3>1
  <2> QED
    BY <2>1, <2>2, <1>2, <1>3
<1> QED
  BY <1>3, <1>4, <1>5 DEF Written

LEMMA RingForm ==
    ASSUME NEW S, NEW size \in Nat \ {0}, NEW ring \in Rings(S, size)
    PROVE  \E from, to \in 0..(size-1), mem \in Memory(S, size) :
               ring = RingOf(size, mem, to, from)
  BY DEF Rings, RingOf, Memory, Cells

LEMMA FormIsRing ==
    ASSUME NEW S, NEW size \in Nat \ {0}, NEW from \in 0..(size-1), NEW to \in 0..(size-1),
           NEW mem \in Memory(S, size)
    PROVE  /\ RingOf(size, mem, to, from) \in Rings(S, size)
           /\ ringNewBytes(RingOf(size, mem, to, from)) = Held(from, to, size)
  BY DEF Rings, RingOf, Memory, Cells, ringNewBytes, Held

(* How many bytes the three cases of a put take. *)
LEMMA RoomBehind ==
    ASSUME NEW size \in Nat \ {0}, NEW from \in 0..(size-1), NEW to \in 0..(size-1),
           NEW n \in Nat, to < from, NEW k, k = Least(n, from - to - 1)
    PROVE  /\ k \in 0..n /\ to + k < size /\ Held(from, to, size) + k < size
           /\ k = n \/ Held(from, to, size) + k = size - 1
  BY DEF Least, Held

LEMMA RoomToEnd ==
    ASSUME NEW size \in Nat \ {0}, NEW from \in 0..(size-1), NEW to \in 0..(size-1),
           NEW n \in Nat, from = 0, NEW k, k = Least(n, size - to - 1)
    PROVE  /\ k \in 0..n /\ to + k < size /\ Held(from, to, size) + k < size
           /\ k = n \/ Held(from, to, size) + k = size - 1
  BY DEF Least, Held

LEMMA RoomAround ==
    ASSUME NEW size \in Nat \ {0}, NEW from \in 0..(size-1), NEW to \in 0..(size-1),
           NEW n \in Nat, from <= to, from # 0,
           NEW first, first = Least(n, size - to),
           NEW second, second = Least(n - first, from - 1)
    PROVE  /\ first \in Nat /\ to + first <= size
           /\ to + first < size => first = n /\ Held(from, to, size) + first < size
           /\ to + first = size => /\ second \in 0..to /\ first + second \in 0..n
                                   /\ Held(from, to, size) + (first + second) < size
                                   /\ \/ first + second = n
                                      \/ Held(from, to, size) + (first + second) = size - 1
                                   /\ Wrap(to + (first + second), size) = second
  BY DEF Least, Held, Wrap

(* The counts of bytes and of free bytes, and the tests for an empty and a *)
(* full ring, agree: a ring holds all but one of its bytes at most.        *)
THEOREM RingCountsAgree ==
    ASSUME NEW S, NEW size \in Nat \ {0}, NEW ring \in Rings(S, size)
    PROVE  /\ ringNewBytes(ring) \in 0..(size-1)
           /\ ringFreeBytes(ring) = size - 1 - ringNewBytes(ring)
           /\ ringIsEmpty(ring) <=> ringNewBytes(ring) = 0
           /\ ringIsFull(ring) <=> ringNewBytes(ring) = size - 1
<1>1. ring.size = size /\ ring.to \in 0..(size-1) /\ ring.from \in 0..(size-1)
  BY DEF Rings
<1> QED
  BY <1>1 DEF ringNewBytes, ringFreeBytes, ringIsEmpty, ringIsFull

(* A put adds a beginning of the bytes at the end of what the ring holds:  *)
(* all of them, or as many as fill the ring, and it moves no other byte.   *)
THEOREM RingPutAppends ==
    ASSUME NEW S, NEW size \in Nat \ {0}, NEW ring \in Rings(S, size), NEW bytes \in Seq(S)
    PROVE  /\ ringPut(ring, bytes) \in Rings(S, size)
           /\ \E k \in 0..Len(bytes) :
                 /\ k = Len(bytes) \/ ringIsFull(ringPut(ring, bytes))
                 /\ ringNewBytes(ringPut(ring, bytes)) = ringNewBytes(ring) + k
                 /\ Contents(ringPut(ring, bytes)) = Contents(ring) \o SubSeq(bytes, 1, k)
<1>1. PICK from \in 0..(size-1), to \in 0..(size-1), before \in Memory(S, size) :
          ring = RingOf(size, before, to, from)
  BY RingForm
<1>2. PICK n \in Nat : n = Len(bytes)
  OBVIOUS
<1> DEFINE held == Held(from, to, size)
           Goal(k, after) ==
             /\ ringPut(ring, bytes) = RingOf(size, after, Wrap(to + k, size), from)
             /\ k \in 0..n /\ held + k < size /\ (k = n \/ held + k = size - 1)
             /\ after \in Memory(S, size)
             /\ Written(before, after, size, to, bytes, k)
<1>3. SUFFICES \E k \in 0..n, after \in Memory(S, size) : Goal(k, after)
  <2>1. PICK k \in 0..n, after \in Memory(S, size) : Goal(k, after)
    BY <1>3
  <2>2. Contents(ringPut(ring, bytes)) = Contents(ring) \o SubSeq(bytes, 1, k)
    <3>1. /\ k \in 0..Len(bytes) /\ Held(from, to, size) + k < size
          /\ Written(before, after, size, to, bytes, k)
      BY <2>1, <1>2
    <3>2. Contents(RingOf(size, after, Wrap(to + k, size), from)) =
              Contents(RingOf(size, before, to, from)) \o SubSeq(bytes, 1, k)
      BY <3>1, PutContents
    <3> QED
      BY <3>2, <2>1, <1>1
  <2>3. held \in 0..(size-1)
    BY HeldProperties
  <2>4. Wrap(to + k, size) \in 0..(size-1) /\ Held(from, Wrap(to + k, size), size) = held + k
    <3>1. k \in Nat
      BY <2>1
    <3>2. to + k \in 0..(2*size-1)
      BY <2>1, <2>3
    <3> QED
      BY <3>1, <3>2, <2>1, WrapProperties, PutLength
  <2>5. ringNewBytes(ring) = held
    BY <1>1, FormIsRing
  <2>6. /\ ringPut(ring, bytes) \in Rings(S, size)
        /\ ringNewBytes(ringPut(ring, bytes)) = held + k
    BY <2>1, <2>4, FormIsRing
  <2>7. ringIsFull(ringPut(ring, bytes)) <=> held + k = size - 1
    BY <2>6, RingCountsAgree
  <2> QED
    BY <2>1, <2>2, <2>5, <2>6, <2>7, <1>2
<1>4. held \in 0..(size-1)
  BY HeldProperties
<1>5. ASSUME NEW k \in 0..n, to + k < size, held + k < size, k = n \/ held + k = size - 1,
             ringPut(ring, bytes) = PutPiece(ring, bytes, k)
      PROVE  \E after \in Memory(S, size) : Goal(k, after)
  <2> DEFINE after == CopyIn(before, to, bytes, 0, k)
  <2>1. ringPut(ring, bytes) = RingOf(size, after, to + k, from)
    BY <1>1, <1>5 DEF PutPiece, RingOf
  <2>2. Wrap(to + k, size) = to + k
    BY <1>5 DEF Wrap
  <2>3. k \in Nat /\ k <= Len(bytes) /\ to + k <= size
    BY <1>2, <1>5
  <2>4. /\ after \in Memory(S, size)
        /\ Written(before, after, size, to, bytes, k)
    BY <2>3, OnePiece
  <2> HIDE DEF after
  <2> QED
    BY <2>1, <2>2, <2>4, <1>5
<1>6. CASE to < from
  <2>0. PICK k : k = Least(n, from - to - 1)
    OBVIOUS
  <2>1. ringPut(ring, bytes) = PutPiece(ring, bytes, k)
    BY <2>0, <1>1, <1>2, <1>6 DEF ringPut, RingOf
  <2>2. k \in 0..n /\ to + k < size /\ held + k < size /\ (k = n \/ held + k = size - 1)
    BY <2>0, <1>6 DEF Least, Held
  <2> QED
    BY <2>1, <2>2, <1>5
<1>7. CASE from = 0
  <2>0. PICK k : k = Least(n, size - to - 1)
    OBVIOUS
  <2>1. ringPut(ring, bytes) = PutPiece(ring, bytes, k)
    BY <2>0, <1>1, <1>2, <1>7 DEF ringPut, RingOf
  <2>2. k \in 0..n /\ to + k < size /\ held + k < size /\ (k = n \/ held + k = size - 1)
    BY <2>0, <1>7 DEF Least, Held
  <2> QED
    BY <2>1, <2>2, <1>5
<1>8. CASE from <= to /\ from # 0
  <2>f. PICK first : first = Least(n, size - to)
    OBVIOUS
  <2>s. PICK second : second = Least(n - first, from - 1)
    OBVIOUS
  <2> DEFINE piece == PutPiece(ring, bytes, first)
  <2>1. ringPut(ring, bytes) =
            IF piece.to < size THEN piece
            ELSE [piece EXCEPT !.buffer = CopyIn(@, 0, bytes, first, second), !.to = second]
    BY <2>f, <2>s, <1>1, <1>2, <1>8 DEF ringPut, PutWrapped, RingOf
  <2>2. piece = RingOf(size, CopyIn(before, to, bytes, 0, first), to + first, from)
    <3>1. ring.buffer = before /\ ring.to = to
      BY <1>1 DEF RingOf
    <3>2. PICK w : w = CopyIn(before, to, bytes, 0, first)
      OBVIOUS
    <3>3. piece = [ring EXCEPT !.buffer = w, !.to = to + first]
      BY <3>1, <3>2 DEF PutPiece
    <3> HIDE DEF piece
    <3>4. piece = RingOf(size, w, to + first, from)
      BY <3>3, <1>1 DEF RingOf
    <3> QED
      BY <3>4, <3>2
  <2>3. /\ first \in Nat /\ to + first <= size
        /\ to + first < size => first = n /\ held + first < size
        /\ to + first = size => /\ second \in 0..to /\ first + second \in 0..n
                                /\ held + (first + second) < size
                                /\ \/ first + second = n
                                   \/ held + (first + second) = size - 1
                                /\ Wrap(to + (first + second), size) = second
    BY <2>f, <2>s, <1>8 DEF Least, Held, Wrap
  <2>4. CASE to + first < size
    <3>1. ringPut(ring, bytes) = piece
      BY <2>1, <2>2, <2>4 DEF RingOf
    <3> QED
      BY <3>1, <2>3, <2>4, <1>2, <1>5
  <2>5. CASE to + first = size
    <3> DEFINE k == first + second
               half == CopyIn(before, to, bytes, 0, first)
    <3>0. PICK after : after = CopyIn(half, 0, bytes, first, second)
      OBVIOUS
    <3>1. ringPut(ring, bytes) = RingOf(size, after, second, from)
      <4>1. piece.to = size /\ ~(size < size)
        BY <2>2, <2>5 DEF RingOf
      <4>2. ringPut(ring, bytes) =
                [piece EXCEPT !.buffer = CopyIn(@, 0, bytes, first, second), !.to = second]
        BY <4>1, <2>1
      <4>3. piece.buffer = half
        BY <2>2 DEF RingOf
      <4>4. ringPut(ring, bytes) = [piece EXCEPT !.buffer = after, !.to = second]
        BY <4>2, <4>3, <3>0
      <4> HIDE DEF piece, half
      <4> QED
        BY <4>4, <2>2 DEF RingOf
    <3>2. /\ after \in Memory(S, size)
          /\ Written(before, after, size, to, bytes, k)
      BY <3>0, <1>2, <2>3, <2>5, TwoPieces
    <3> QED
      BY <3>1, <3>2, <2>3, <2>5
  <2> QED
    <3>1. to + first < size \/ to + first = size
      BY <2>3
    <3> QED
      BY <3>1, <2>4, <2>5
<1> QED
  BY <1>6, <1>7, <1>8

-----------------------------------------------------------------------------

(* What is taken in one piece, and in two. *)
LEMMA TakenInOne ==
    ASSUME NEW S, NEW size \in Nat \ {0}, NEW from \in 0..(size-1), NEW k \in Nat,
           from + k <= size, NEW before \in Memory(S, size),
           NEW got, got = CopyOut(before, from, k)
    PROVE  /\ got \in Seq(Cells(S))
           /\ Taken(before, size, from, got, k)
<1>1. ASSUME NEW i \in 1..k
      PROVE  /\ from + i - 1 \in 0..(size-1)
             /\ Wrap(from + i - 1, size) = from + i - 1
  BY DEF Wrap
<1>2. \A i \in 1..k : before[from + i - 1] \in Cells(S)
  BY <1>1 DEF Memory
<1>3. got = [i \in 1..k |-> before[from + i - 1]]
  BY DEF CopyOut
<1>4. got \in Seq(Cells(S)) /\ Len(got) = k
  BY <1>2, <1>3
<1>5. ASSUME NEW i \in 1..k PROVE got[i] = before[Wrap(from + i - 1, size)]
  <2>1. PICK x : x = from + i - 1
    OBVIOUS
  <2>2. got[i] = before[x]
    BY <1>3, <2>1
  <2>3. Wrap(x, size) = x
    BY <1>1, <2>1
  <2> QED
    BY <2>1, <2>2, <2>3
<1> QED
  BY <1>4, <1>5 DEF Taken

LEMMA TakenInTwo ==
    ASSUME NEW S, NEW size \in Nat \ {0}, NEW from \in 0..(size-1),
           NEW first \in Nat, from + first = size, NEW second \in 0..from,
           NEW before \in Memory(S, size),
           NEW got, got = CopyOut(before, from, first) \o CopyOut(before, 0, second)
    PROVE  /\ got \in Seq(Cells(S))
           /\ Taken(before, size, from, got, first + second)
<1> DEFINE T == Cells(S)
<1>1. PICK a : a = CopyOut(before, from, first)
  OBVIOUS
<1>2. PICK b : b = CopyOut(before, 0, second)
  OBVIOUS
<1>3. a \in Seq(T) /\ Taken(before, size, from, a, first)
  <2>1. from + first <= size
    OBVIOUS
  <2> QED
    BY <1>1, <2>1, TakenInOne
<1>4. b \in Seq(T) /\ Taken(before, size, 0, b, second)
  <2>1. 0 \in 0..(size-1) /\ second \in Nat /\ 0 + second <= size
    OBVIOUS
  <2> QED
    BY <1>2, <2>1, TakenInOne
<1> HIDE DEF T
<1>5. /\ a \o b \in Seq(T) /\ Len(a \o b) = first + second
      /\ \A i \in 1..(first + second) : /\ i <= first => (a \o b)[i] = a[i]
                                       /\ i > first => (a \o b)[i] = b[i - first]
  <2>0. Len(a) = first /\ Len(b) = second
    BY <1>3, <1>4 DEF Taken
  <2>1. /\ a \o b \in Seq(T) /\ Len(a \o b) = Len(a) + Len(b)
        /\ \A i \in 1..Len(a) + Len(b) : (a \o b)[i] =
               IF i <= Len(a) THEN a[i] ELSE b[i - Len(a)]
    BY <1>3, <1>4, ConcatProperties, Zenon
  <2> QED
    BY <2>0, <2>1
<1>6. ASSUME NEW i \in 1..(first + second)
      PROVE  (a \o b)[i] = before[Wrap(from + i - 1, size)]
  <2>1. CASE i <= first
    <3>1. i \in 1..first
      BY <2>1
    <3> QED
      BY <3>1, <2>1, <1>3, <1>5 DEF Taken
  <2>2. CASE i > first
    <3>1. PICK j : j = i - first
      OBVIOUS
    <3>2. /\ j \in 1..second /\ Wrap(0 + j - 1, size) = j - 1
          /\ Wrap(from + i - 1, size) = j - 1
      BY <3>1, <2>2 DEF Wrap
    <3>3. (a \o b)[i] = b[j]
      <4>1. (a \o b)[i] = b[i - first]
        BY <2>2, <1>5
      <4> QED
        BY <3>1, <4>1
    <3>4. b[j] = before[Wrap(0 + j - 1, size)]
      BY <3>2, <1>4 DEF Taken
    <3> QED
      BY <3>2, <3>3, <3>4
  <2>3. i <= first \/ i > first
    OBVIOUS
  <2> QED
    BY <2>1, <2>2, <2>3
<1>7. got = a \o b
  BY <1>1, <1>2
<1> QED
  BY <1>5, <1>6, <1>7 DEF Taken, T

(* The memory after that. *)
LEMMA KeptByOne ==
    ASSUME NEW S, NEW size \in Nat \ {0}, NEW from \in 0..(size-1), NEW k \in Nat,
           from + k <= size, NEW before \in Memory(S, size),
           NEW after, after = Freed(before, from, k)
    PROVE  after \in Memory(S, size) /\ Kept(before, after, size, from, k)
<1>1. /\ after \in Memory(S, size)
      /\ \A c \in 0..(size-1) : c \notin from..(from + k - 1) => after[c] = before[c]
  BY DEF Freed, Memory, Cells
<1>2. ASSUME NEW c \in 0..(size-1), \A i \in 1..k : c # Wrap(from + i - 1, size)
      PROVE  c \notin from..(from + k - 1)
  <2>1. ASSUME c \in from..(from + k - 1) PROVE FALSE
    <3>1. PICK i : i = c - from + 1
      OBVIOUS
    <3>2. i \in 1..k /\ Wrap(from + i - 1, size) = c
      BY <2>1, <3>1 DEF Wrap
    <3> QED
      BY <3>2, <1>2
  <2> QED
    BY <2>1
<1> QED
  BY <1>1, <1>2 DEF Kept

LEMMA KeptByTwo ==
    ASSUME NEW S, NEW size \in Nat \ {0}, NEW from \in 0..(size-1),
           NEW first \in Nat, from + first = size, NEW second \in 0..from,
           NEW before \in Memory(S, size),
           NEW half, half = Freed(before, from, first),
           NEW after, after = Freed(half, 0, second)
    PROVE  after \in Memory(S, size) /\ Kept(before, after, size, from, first + second)
<1>1. half \in Memory(S, size) /\ Kept(before, half, size, from, first)
  BY KeptByOne
<1>2. after \in Memory(S, size) /\ Kept(half, after, size, 0, second)
  <2>1. 0 \in 0..(size-1) /\ second \in Nat /\ 0 + second <= size
    OBVIOUS
  <2> QED
    BY <2>1, <1>1, KeptByOne
<1>3. ASSUME NEW c \in 0..(size-1),
             \A i \in 1..(first + second) : c # Wrap(from + i - 1, size)
      PROVE  after[c] = before[c]
  <2>1. half[c] = before[c]
    <3>1. ASSUME NEW i \in 1..first PROVE c # Wrap(from + i - 1, size)
      <4>1. i \in 1..(first + second)
        OBVIOUS
      <4> QED
        BY <4>1, <1>3
    <3> QED
      BY <3>1, <1>1 DEF Kept
  <2>2. after[c] = half[c]
    <3>1. ASSUME NEW i \in 1..second PROVE c # Wrap(0 + i - 1, size)
      <4>1. PICK j : j = first + i
        OBVIOUS
      <4>2. j \in 1..(first + second) /\ Wrap(from + j - 1, size) = Wrap(0 + i - 1, size)
        BY <4>1 DEF Wrap
      <4> QED
        BY <4>2, <1>3
    <3> QED
      BY <3>1, <1>2 DEF Kept
  <2> QED
    BY <2>1, <2>2
<1> QED
  BY <1>2, <1>3 DEF Kept

(* A get takes as many bytes as the ring holds, or max, from the front of  *)
(* what it holds, and leaves the others as they are.                       *)
THEOREM RingGetTakes ==
    ASSUME NEW S, NEW size \in Nat \ {0}, NEW ring \in Rings(S, size), NEW max \in Nat
    PROVE  /\ ringGet(ring, max).ring \in Rings(S, size)
           /\ Len(ringGet(ring, max).bytes) = Least(max, ringNewBytes(ring))
           /\ ringGet(ring, max).bytes \in Seq(Cells(S))
           /\ Contents(ring) = ringGet(ring, max).bytes \o Contents(ringGet(ring, max).ring)
<1>1. PICK from \in 0..(size-1), to \in 0..(size-1), before \in Memory(S, size) :
          ring = RingOf(size, before, to, from)
  BY RingForm
<1>2. PICK held \in 0..(size-1) : held = Held(from, to, size)
  BY HeldProperties
<1> DEFINE Goal(k, after, got) ==
             /\ ringGet(ring, max) =
                    [ring |-> RingOf(size, after, to, Wrap(from + k, size)), bytes |-> got]
             /\ k = Least(max, held) /\ after \in Memory(S, size)
             /\ got \in Seq(Cells(S)) /\ Taken(before, size, from, got, k)
             /\ Kept(before, after, size, from, k)
<1>3. SUFFICES \E k \in Nat : \E after, got : Goal(k, after, got)
  <2>0. PICK k \in Nat : \E after, got : Goal(k, after, got)
    BY <1>3
  <2>1. PICK after, got : Goal(k, after, got)
    BY <2>0
  <2>2. k \in 0..Held(from, to, size) /\ from + k \in 0..(2*size-1)
    BY <2>1, <1>2 DEF Least
  <2>3. Contents(RingOf(size, before, to, from)) =
            got \o Contents(RingOf(size, after, to, Wrap(from + k, size)))
    <3>1. /\ k \in 0..Held(from, to, size) /\ after \in Memory(S, size)
          /\ got \in Seq(Cells(S))
          /\ Taken(before, size, from, got, k) /\ Kept(before, after, size, from, k)
      BY <2>1, <2>2
    <3>2. from \in 0..(size-1) /\ to \in 0..(size-1) /\ before \in Memory(S, size)
      OBVIOUS
    <3> HIDE DEF Goal
    <3> QED
      BY <3>1, <3>2, GetContents
  <2>4. Wrap(from + k, size) \in 0..(size-1)
    BY <2>2, WrapProperties
  <2>5. RingOf(size, after, to, Wrap(from + k, size)) \in Rings(S, size)
    BY <2>1, <2>4, FormIsRing
  <2>6. ringNewBytes(ring) = held
    BY <1>1, <1>2, FormIsRing
  <2>7. Len(got) = k
    BY <2>1 DEF Taken
  <2>8. /\ ringGet(ring, max).ring = RingOf(size, after, to, Wrap(from + k, size))
        /\ ringGet(ring, max).bytes = got
        /\ k = Least(max, held) /\ got \in Seq(Cells(S))
    BY <2>1
  <2> HIDE DEF Goal
  <2> QED
    BY <2>3, <2>5, <2>6, <2>7, <2>8, <1>1
<1>4. /\ ring.size = size /\ ring.buffer = before /\ ring.to = to /\ ring.from = from
  BY <1>1 DEF RingOf
<1>5. ASSUME NEW k \in Nat, k = Least(max, held), from + k < size,
             ringGet(ring, max) = GetPiece(ring, k)
      PROVE  \E after, got : Goal(k, after, got)
  <2>1. PICK after, got : after = Freed(before, from, k) /\ got = CopyOut(before, from, k)
    OBVIOUS
  <2>2. ringGet(ring, max) =
            [ring |-> [ring EXCEPT !.buffer = after, !.from = from + k], bytes |-> got]
    BY <2>1, <1>4, <1>5 DEF GetPiece
  <2>3. [ring EXCEPT !.buffer = after, !.from = from + k] = RingOf(size, after, to, from + k)
    <3>1. PICK written : written = [ring EXCEPT !.buffer = after]
      OBVIOUS
    <3>2. written = RingOf(size, after, to, from)
      BY <3>1, <1>1 DEF RingOf
    <3>3. [written EXCEPT !.from = from + k] = RingOf(size, after, to, from + k)
      BY <3>2 DEF RingOf
    <3> QED
      BY <3>1, <3>3
  <2>4. Wrap(from + k, size) = from + k /\ from + k <= size
    BY <1>5 DEF Wrap
  <2>5. after \in Memory(S, size) /\ Kept(before, after, size, from, k)
    BY <2>1, <2>4, KeptByOne
  <2>6. got \in Seq(Cells(S)) /\ Taken(before, size, from, got, k)
    BY <2>1, <2>4, TakenInOne
  <2> QED
    BY <2>2, <2>3, <2>4, <2>5, <2>6, <1>5
<1>6. CASE from <= to
  <2>1. PICK k : k = Least(max, to - from)
    OBVIOUS
  <2>2. ringGet(ring, max) = GetPiece(ring, k)
    BY <2>1, <1>4, <1>6 DEF ringGet
  <2>3. k \in Nat /\ k = Least(max, held) /\ from + k < size
    BY <2>1, <1>2, <1>6 DEF Least, Held
  <2> QED
    BY <2>2, <2>3, <1>5
<1>7. CASE to < from
  <2>1. PICK first : first = Least(max, size - from)
    OBVIOUS
  <2>2. PICK second : second = Least(max - first, to)
    OBVIOUS
  <2>3. /\ first \in Nat /\ from + first <= size
        /\ from + first < size => first = Least(max, held)
        /\ from + first = size => /\ second \in 0..from
                                  /\ first + second = Least(max, held)
                                  /\ Wrap(from + (first + second), size) = second
    BY <2>1, <2>2, <1>2, <1>7 DEF Least, Held, Wrap
  <2>4. PICK half, a, b : /\ half = Freed(before, from, first)
                          /\ a = CopyOut(before, from, first)
                          /\ b = CopyOut(before, 0, second)
    OBVIOUS
  <2>5. PICK piece : piece = GetPiece(ring, first)
    OBVIOUS
  <2>6. piece = [ring |-> [ring EXCEPT !.buffer = half, !.from = from + first], bytes |-> a]
    BY <2>4, <2>5, <1>4 DEF GetPiece
  <2>7. [ring EXCEPT !.buffer = half, !.from = from + first]
            = RingOf(size, half, to, from + first)
    <3>1. PICK written : written = [ring EXCEPT !.buffer = half]
      OBVIOUS
    <3>2. written = RingOf(size, half, to, from)
      BY <3>1, <1>1 DEF RingOf
    <3>3. [written EXCEPT !.from = from + first] = RingOf(size, half, to, from + first)
      BY <3>2 DEF RingOf
    <3> QED
      BY <3>1, <3>3
  <2>8. piece.ring = RingOf(size, half, to, from + first) /\ piece.bytes = a
    BY <2>6, <2>7
  <2>9. /\ piece.ring.from = from + first /\ piece.ring.buffer = half
    BY <2>8 DEF RingOf
  <2>10. ringGet(ring, max) =
             IF piece.ring.from < size THEN piece
             ELSE [ring |-> [piece.ring EXCEPT !.buffer = Freed(@, 0, second), !.from = second],
                   bytes |-> piece.bytes \o b]
    BY <2>1, <2>2, <2>4, <2>5, <1>4, <1>7 DEF ringGet
  <2>11. CASE from + first < size
    BY <2>3, <2>5, <2>9, <2>10, <2>11, <1>5
  <2>12. CASE from + first = size
    <3>1. PICK after, got : after = Freed(half, 0, second) /\ got = a \o b
      OBVIOUS
    <3>2. ~(piece.ring.from < size)
      BY <2>9, <2>12
    <3>3. ringGet(ring, max) =
              [ring |-> [piece.ring EXCEPT !.buffer = after, !.from = second], bytes |-> got]
      BY <3>1, <3>2, <2>8, <2>9, <2>10
    <3>4. [piece.ring EXCEPT !.buffer = after, !.from = second]
              = RingOf(size, after, to, second)
      <4>1. PICK written : written = [piece.ring EXCEPT !.buffer = after]
        OBVIOUS
      <4>2. written = RingOf(size, after, to, from + first)
        BY <4>1, <2>8 DEF RingOf
      <4>3. [written EXCEPT !.from = second] = RingOf(size, after, to, second)
        BY <4>2 DEF RingOf
      <4> QED
        BY <4>1, <4>3
    <3>5. /\ got \in Seq(Cells(S))
          /\ Taken(before, size, from, got, first + second)
      BY <3>1, <2>3, <2>4, <2>12, TakenInTwo
    <3>6. after \in Memory(S, size) /\ Kept(before, after, size, from, first + second)
      BY <3>1, <2>3, <2>4, <2>12, KeptByTwo
    <3>7. first + second \in Nat
      BY <2>3, <2>12
    <3> QED
      BY <3>3, <3>4, <3>5, <3>6, <3>7, <2>3, <2>12
  <2> QED
    <3>1. from + first < size \/ from + first = size
      BY <2>3
    <3> QED
      BY <3>1, <2>11, <2>12
<1> QED
  BY <1>6, <1>7

-----------------------------------------------------------------------------

SoundRing(ring, S, size) ==
    size \in Nat \ {0} /\ ring \in Rings(S, size) /\ Contents(ring) \in Seq(S)

(* The types that matter here, and that the blocking send has bytes in its *)
(* buffer only inside of its critical section: the handler, which would    *)
(* send younger ones from the ring, cannot come then.                      *)
PortInv ==
    /\ SoundRing(rx, Arriving, RxSize) /\ SoundRing(tx, Leaving, TxSize)
    /\ rdr \in Arriving \cup {NoByte} /\ tdr \in Leaving \cup {NoByte}
    /\ mode \in [Threads -> {"out", "send", "sending"}]
    /\ tmp \in Seq(Leaving) /\ (tmp # <<>> => Masked)
    /\ outbox \in Seq(Leaving)

(* What Streams maps received and toSend to. *)
Received == Contents(rx)
InTdr(b) == IF b = NoByte THEN <<>> ELSE <<b>>
ToSend == InTdr(tdr) \o tmp \o Contents(tx)

StreamStep == [Streams!Next]_<<Received, ToSend>>

-----------------------------------------------------------------------------

LEMMA PartsOfSequence ==
    ASSUME NEW S, NEW T, NEW a \in Seq(T), NEW b \in Seq(T), a \o b \in Seq(S)
    PROVE  a \in Seq(S) /\ b \in Seq(S)
<1>1. /\ Len(a \o b) = Len(a) + Len(b)
      /\ \A i \in 1..(Len(a) + Len(b)) :
            (a \o b)[i] = IF i <= Len(a) THEN a[i] ELSE b[i - Len(a)]
      /\ Len(a) \in Nat /\ Len(b) \in Nat
  BY ConcatProperties, LenProperties
<1>2. \A i \in 1..Len(a) : a[i] \in S
  <2> TAKE i \in 1..Len(a)
  <2>1. i \in 1..Len(a \o b) /\ (a \o b)[i] = a[i]
    BY <1>1
  <2> QED
    BY <2>1, ElementOfSeq
<1>3. \A i \in 1..Len(b) : b[i] \in S
  <2> TAKE i \in 1..Len(b)
  <2>1. i + Len(a) \in 1..Len(a \o b) /\ (a \o b)[i + Len(a)] = b[i]
    BY <1>1
  <2> QED
    BY <2>1, ElementOfSeq
<1> QED
  BY <1>2, <1>3

(* Names that the provers leave closed: they would take every equation of  *)
(* these sequences apart, element by element.                              *)
Then(a, b) == a \o b
Beginning(a, k) == SubSeq(a, 1, k)

LEMMA ThenProperties ==
    ASSUME NEW S, NEW a \in Seq(S), NEW b \in Seq(S), NEW c \in Seq(S)
    PROVE  /\ Then(a, b) \in Seq(S)
           /\ Then(a, <<>>) = a /\ Then(<<>>, a) = a
           /\ Then(Then(a, b), c) = Then(a, Then(b, c))
<1>1. Then(a, b) \in Seq(S)
  BY DEF Then
<1>2. Then(a, <<>>) = a /\ Then(<<>>, a) = a
  BY ConcatEmptySeq DEF Then
<1>3. Then(Then(a, b), c) = Then(a, Then(b, c))
  BY ConcatAssociative DEF Then
<1> QED
  BY <1>1, <1>2, <1>3

LEMMA ByteInFront ==
    ASSUME NEW S, NEW b \in S, NEW s \in Seq(S)
    PROVE  /\ <<b>> \o s # <<>>
           /\ Tail(<<b>> \o s) = s
<1> DEFINE whole == <<b>> \o s
<1>1. /\ whole \in Seq(S) /\ Len(whole) = 1 + Len(s)
      /\ \A i \in 1..(1 + Len(s)) : whole[i] = IF i <= 1 THEN b ELSE s[i-1]
      /\ Len(s) \in Nat
  <2>1. <<b>> \in Seq(S) /\ Len(<<b>>) = 1 /\ <<b>>[1] = b
    OBVIOUS
  <2> QED
    BY <2>1, ConcatProperties, LenProperties
<1> HIDE DEF whole
<1>2. whole # <<>>
  BY <1>1, EmptySeq
<1>3. /\ Tail(whole) \in Seq(S) /\ Len(Tail(whole)) = Len(s)
      /\ \A i \in 1..Len(s) : Tail(whole)[i] = whole[i+1]
  BY <1>1, <1>2, HeadTailProperties
<1>4. \A i \in 1..Len(s) : Tail(whole)[i] = s[i]
  BY <1>1, <1>3
<1>5. Tail(whole) = s
  BY <1>3, <1>4, SeqEqual
<1> QED
  BY <1>2, <1>5 DEF whole

LEMMA OneByte ==
    ASSUME NEW S, NEW s \in Seq(S), Len(s) <= 1, s # <<>>
    PROVE  Head(s) \in S /\ s = <<Head(s)>>
<1>1. PICK n \in Nat \ {0} : n = Len(s) /\ n <= 1
  BY EmptySeq
<1>2. Len(s) = 1
  <2>1. n = 1
    BY <1>1
  <2> QED
    BY <1>1, <2>1
<1>3. Head(s) \in S /\ Head(s) = s[1]
  BY <1>2
<1>4. <<Head(s)>> \in Seq(S) /\ Len(<<Head(s)>>) = 1 /\ <<Head(s)>>[1] = Head(s)
  BY <1>3
<1>5. \A i \in 1..Len(s) : s[i] = <<Head(s)>>[i]
  BY <1>2, <1>3, <1>4
<1>6. s = <<Head(s)>>
  BY <1>2, <1>4, <1>5, SeqEqual
<1> QED
  BY <1>3, <1>6

LEMMA PutOnSound ==
    ASSUME NEW S, NEW size, NEW ring, SoundRing(ring, S, size), NEW bytes \in Seq(S)
    PROVE  /\ SoundRing(ringPut(ring, bytes), S, size)
           /\ \E k \in 0..Len(bytes) :
                 /\ Beginning(bytes, k) \in Seq(S)
                 /\ Contents(ringPut(ring, bytes)) =
                        Then(Contents(ring), Beginning(bytes, k))
<1>1. size \in Nat \ {0} /\ ring \in Rings(S, size) /\ Contents(ring) \in Seq(S)
  BY DEF SoundRing
<1>2. ringPut(ring, bytes) \in Rings(S, size)
  BY <1>1, RingPutAppends
<1>3. PICK k \in 0..Len(bytes) :
          Contents(ringPut(ring, bytes)) = Contents(ring) \o SubSeq(bytes, 1, k)
  BY <1>1, RingPutAppends
<1>4. \A i \in 1..k : bytes[i] \in S
  BY ElementOfSeq, LenProperties
<1>5. Beginning(bytes, k) \in Seq(S)
  BY <1>4, SubSeqProperties, LenProperties DEF Beginning
<1>6. Contents(ringPut(ring, bytes)) = Then(Contents(ring), Beginning(bytes, k))
  BY <1>3, Zenon DEF Then, Beginning
<1>7. Contents(ringPut(ring, bytes)) \in Seq(S)
  BY <1>1, <1>5, <1>6, ThenProperties
<1>8. SoundRing(ringPut(ring, bytes), S, size)
  BY <1>1, <1>2, <1>7 DEF SoundRing
<1> QED
  BY <1>5, <1>6, <1>8

LEMMA GetTakesThen ==
    ASSUME NEW S, NEW size \in Nat \ {0}, NEW ring \in Rings(S, size), NEW max \in Nat
    PROVE  Contents(ring) = Then(ringGet(ring, max).bytes, Contents(ringGet(ring, max).ring))
<1>1. Contents(ring) = ringGet(ring, max).bytes \o Contents(ringGet(ring, max).ring)
  BY RingGetTakes, ZenonT(60)
<1> QED
  BY <1>1, Zenon DEF Then

LEMMA GetFromSound ==
    ASSUME NEW S, NEW size, NEW ring, SoundRing(ring, S, size),
           NEW max \in Nat
    PROVE  /\ SoundRing(ringGet(ring, max).ring, S, size)
           /\ ringGet(ring, max).bytes \in Seq(S)
           /\ Len(ringGet(ring, max).bytes) <= max
           /\ Contents(ringGet(ring, max).ring) \in Seq(S)
           /\ Contents(ring) =
                  Then(ringGet(ring, max).bytes, Contents(ringGet(ring, max).ring))
<1>1. size \in Nat \ {0} /\ ring \in Rings(S, size) /\ Contents(ring) \in Seq(S)
  BY DEF SoundRing
<1>2. /\ ringGet(ring, max).ring \in Rings(S, size)
      /\ Len(ringGet(ring, max).bytes) = Least(max, ringNewBytes(ring))
      /\ ringGet(ring, max).bytes \in Seq(Cells(S))
  BY <1>1, RingGetTakes
<1>3. Contents(ring) = Then(ringGet(ring, max).bytes, Contents(ringGet(ring, max).ring))
  BY <1>1, GetTakesThen
<1> DEFINE got == ringGet(ring, max).bytes
           rest == ringGet(ring, max).ring
<1>4. Contents(rest) \in Seq(Cells(S))
  <2>1. PICK from \in 0..(size-1), to \in 0..(size-1), cells \in Memory(S, size) :
            rest = RingOf(size, cells, to, from)
    BY <1>1, <1>2, RingForm
  <2> QED
    BY <1>1, <2>1, ContentsType
<1>5. Contents(ring) = got \o Contents(rest)
  BY <1>3, Zenon DEF Then
<1> HIDE DEF got, rest
<1>6. got \in Seq(S) /\ Contents(rest) \in Seq(S)
  <2>1. got \in Seq(Cells(S))
    BY <1>2 DEF got
  <2> QED
    BY <1>1, <1>4, <1>5, <2>1, PartsOfSequence
<1> USE DEF got, rest
<1>7. SoundRing(rest, S, size)
  BY <1>1, <1>2, <1>6 DEF SoundRing
<1>8. ringNewBytes(ring) \in Nat
  BY <1>1, RingCountsAgree
<1>9. Len(got) <= max
  BY <1>2, <1>8 DEF Least
<1> QED
  BY <1>3, <1>6, <1>7, <1>9

(* A write, of the console or of the other thread: a stutter when nothing  *)
(* of it fits.                                                             *)
LEMMA WriteStep ==
    ASSUME PortInv, NEW t \in Threads, NEW message \in Seq(Leaving),
           message \in AppMessages \cup { <<b>> : b \in Leaving },
           sio_write(t, message), outbox' \in Seq(Leaving)
    PROVE  PortInv' /\ StreamStep
<1>1. ~Masked /\ tmp = <<>>
  BY DEF PortInv, sio_write, Outside
<1>2. SoundRing(tx, Leaving, TxSize) /\ tx' = ringPut(tx, message)
  BY DEF PortInv, sio_write
<1>3. PICK k \in 0..Len(message) :
          /\ Beginning(message, k) \in Seq(Leaving)
          /\ Contents(tx') = Then(Contents(tx), Beginning(message, k))
  BY <1>2, PutOnSound
<1>4. UNCHANGED <<rx, rdr, tdr, tmp>> /\ mode' \in [Threads -> {"out", "send", "sending"}]
  BY DEF PortInv, sio_write
<1>5. PortInv'
  <2>1. SoundRing(tx', Leaving, TxSize)
    BY <1>2, PutOnSound
  <2> QED
    BY <1>1, <1>4, <2>1 DEF PortInv
<1>6. InTdr(tdr) \in Seq(Leaving) /\ Contents(tx) \in Seq(Leaving)
  BY DEF PortInv, InTdr, SoundRing
<1>7. /\ ToSend = Then(InTdr(tdr), Contents(tx))
      /\ ToSend' = Then(InTdr(tdr), Contents(tx'))
  <2>1. InTdr(tdr) \o <<>> = InTdr(tdr)
    BY <1>6, ConcatEmptySeq
  <2> QED
    BY <1>1, <1>4, <2>1 DEF ToSend, Then
<1>8. ToSend' = Then(ToSend, Beginning(message, k)) /\ ToSend \in Seq(Leaving)
  BY <1>3, <1>6, <1>7, ThenProperties
<1>9. Received' = Received
  BY <1>4 DEF Received
<1>10. CASE k = 0
  <2>1. Beginning(message, k) = <<>>
    BY <1>10, SubSeqEmpty DEF Beginning
  <2>2. ToSend' = ToSend
    BY <1>8, <2>1, ThenProperties
  <2> QED
    BY <1>5, <1>9, <2>2 DEF StreamStep
<1>11. CASE k # 0
  <2>1. k \in 1..Len(message)
    BY <1>11, LenProperties
  <2>2. ToSend' = ToSend \o SubSeq(message, 1, k)
    BY <1>8, Zenon DEF Then, Beginning
  <2>3. Streams!Write(message)
    BY <1>9, <2>1, <2>2 DEF Streams!Write, Received, ToSend, InTdr
  <2> QED
    BY <1>5, <2>3 DEF StreamStep, Streams!Next
<1> QED
  BY <1>10, <1>11

(* A read of at most one byte, from a ring that may be empty. *)
LEMMA ReadStep ==
    ASSUME PortInv, rx' = sio_read(1).ring, UNCHANGED <<tx, rdr, tdr, tmp, mode>>,
           outbox' \in Seq(Leaving)
    PROVE  PortInv' /\ StreamStep
<1> DEFINE got == ringGet(rx, 1).bytes
<1>1. SoundRing(rx, Arriving, RxSize) /\ rx' = ringGet(rx, 1).ring
  BY DEF PortInv, sio_read
<1>2. /\ SoundRing(rx', Arriving, RxSize)
      /\ got \in Seq(Arriving) /\ Len(got) <= 1
      /\ Contents(rx') \in Seq(Arriving)
      /\ Contents(rx) = Then(got, Contents(rx'))
  BY <1>1, GetFromSound
<1> HIDE DEF got
<1>3. PortInv'
  BY <1>2 DEF PortInv, Masked
<1>4. ToSend' = ToSend
  BY DEF ToSend
<1>5. CASE got = <<>>
  <2>1. Received' = Received
    BY <1>2, <1>5, ThenProperties DEF Received
  <2> QED
    BY <1>3, <1>4, <2>1 DEF StreamStep
<1>6. CASE got # <<>>
  <2>1. Head(got) \in Arriving /\ got = <<Head(got)>>
    BY <1>2, <1>6, OneByte
  <2>2. got \o Contents(rx') # <<>> /\ Tail(got \o Contents(rx')) = Contents(rx')
    BY <1>2, <2>1, ByteInFront, Zenon
  <2>3. Received # <<>> /\ Received' = Tail(Received)
    BY <1>2, <2>2, Zenon DEF Received, Then
  <2>4. Streams!Read
    BY <1>4, <2>3 DEF Streams!Read, Received, ToSend, InTdr
  <2> QED
    BY <1>3, <2>4 DEF StreamStep, Streams!Next
<1> QED
  BY <1>5, <1>6

(* The blocking send takes bytes from the ring: none when there is none.   *)
(* Its buffer was empty, and is behind tdr and in front of the ring.       *)
LEMMA TakeBytesStep ==
    ASSUME PortInv, NEW t \in Threads, TakeBytes(t), UNCHANGED outbox
    PROVE  PortInv' /\ StreamStep
<1> DEFINE get == ringGet(tx, TmpSize)
<1>1. /\ SoundRing(tx, Leaving, TxSize)
      /\ tmp = <<>> /\ mode[t] = "sending" /\ tx' = get.ring /\ tmp' = get.bytes
      /\ mode' = [mode EXCEPT ![t] = IF get.bytes = <<>> THEN "out" ELSE "sending"]
      /\ UNCHANGED <<rx, rdr, tdr>>
  BY DEF PortInv, TakeBytes
<1>2. /\ SoundRing(tx', Leaving, TxSize)
      /\ tmp' \in Seq(Leaving) /\ Contents(tx') \in Seq(Leaving)
      /\ Contents(tx) = Then(tmp', Contents(tx'))
  BY <1>1, GetFromSound, SioAssumption
<1>3. /\ mode' \in [Threads -> {"out", "send", "sending"}]
      /\ tmp' # <<>> => mode'[t] = "sending"
  BY <1>1 DEF PortInv
<1> HIDE DEF get
<1>4. PortInv'
  BY <1>1, <1>2, <1>3 DEF PortInv, Masked
<1>5. InTdr(tdr) \in Seq(Leaving)
  BY DEF PortInv, InTdr
<1>6. ToSend = Then(InTdr(tdr), Then(tmp', Contents(tx')))
  <2>1. InTdr(tdr) \o <<>> = InTdr(tdr)
    BY <1>5, ConcatEmptySeq
  <2> QED
    BY <1>1, <1>2, <2>1 DEF ToSend, Then
<1>7. ToSend' = Then(Then(InTdr(tdr), tmp'), Contents(tx'))
  BY <1>1, Zenon DEF ToSend, Then
<1>8. ToSend' = ToSend
  BY <1>2, <1>5, <1>6, <1>7, ThenProperties
<1>9. Received' = Received
  BY <1>1 DEF Received
<1> QED
  BY <1>4, <1>8, <1>9 DEF StreamStep

LEMMA HeadInFront ==
    ASSUME NEW S, NEW s \in Seq(S), s # <<>>
    PROVE  /\ Head(s) \in S /\ Tail(s) \in Seq(S)
           /\ s = Then(<<Head(s)>>, Tail(s))
<1>1. Head(s) \in S /\ Tail(s) \in Seq(S)
  BY HeadTailProperties
<1>2. Len(s) \in Nat \ {0} /\ Head(s) = s[1]
  BY EmptySeq
<1>3. SubSeq(s, 1, Len(s)) = <<s[1]>> \o SubSeq(s, 2, Len(s))
  BY <1>2, SubSeqRecursiveFirst
<1>4. SubSeq(s, 1, Len(s)) = s /\ SubSeq(s, 2, Len(s)) = Tail(s)
  BY SubSeqFull, TailIsSubSeq
<1>5. s = Then(<<Head(s)>>, Tail(s))
  BY <1>2, <1>3, <1>4, Zenon DEF Then
<1> QED
  BY <1>1, <1>5

(* The hardware takes the first byte of a blocking send. *)
LEMMA SendBlockingStep ==
    ASSUME PortInv, NEW t \in Threads, usart_send_blocking(t), UNCHANGED outbox
    PROVE  PortInv' /\ StreamStep
<1>1. /\ tmp # <<>> /\ tdr = NoByte /\ tdr' = Head(tmp) /\ tmp' = Tail(tmp)
      /\ UNCHANGED <<rx, tx, rdr, mode>>
      /\ tmp \in Seq(Leaving) /\ Masked /\ Contents(tx) \in Seq(Leaving)
  BY DEF PortInv, usart_send_blocking, SoundRing
<1>2. tdr' \in Leaving /\ tmp' \in Seq(Leaving) /\ tmp = Then(<<tdr'>>, tmp')
  BY <1>1, HeadInFront
<1>3. tdr' # NoByte
  BY <1>2, SioAssumption
<1>4. PortInv'
  BY <1>1, <1>2 DEF PortInv, Masked
<1>5. ToSend = Then(Then(<<>>, tmp), Contents(tx))
  BY <1>1, Zenon DEF ToSend, Then, InTdr
<1>6. ToSend' = Then(Then(<<tdr'>>, tmp'), Contents(tx))
  BY <1>1, <1>3, Zenon DEF ToSend, Then, InTdr
<1>7. ToSend' = ToSend
  BY <1>1, <1>2, <1>5, <1>6, ThenProperties
<1>8. Received' = Received
  BY <1>1 DEF Received
<1> QED
  BY <1>4, <1>7, <1>8 DEF StreamStep

(* The handler puts the received byte in its ring unless that is full.     *)
LEMMA TakeReceivedStep ==
    ASSUME PortInv, TakeReceived
    PROVE  /\ SoundRing(rx', Arriving, RxSize) /\ rdr' \in Arriving \cup {NoByte}
           /\ \/ Received' = Received
              \/ \E b \in Arriving : Received' = Append(Received, b)
<1>1. /\ SoundRing(rx, Arriving, RxSize) /\ rdr \in Arriving \cup {NoByte}
      /\ rdr' = NoByte
  BY DEF PortInv, TakeReceived
<1>2. CASE rdr = NoByte
  BY <1>1, <1>2 DEF TakeReceived, Received
<1>3. CASE rdr # NoByte
  <2>1. PICK one : one = <<rdr>>
    OBVIOUS
  <2>2. rdr \in Arriving /\ rx' = ringPut(rx, one) /\ one \in Seq(Arriving) /\ Len(one) = 1
    BY <1>1, <1>3, <2>1 DEF TakeReceived
  <2>3. PICK k \in 0..Len(one) :
            Contents(rx') = Then(Contents(rx), Beginning(one, k))
    <3>1. SoundRing(rx, Arriving, RxSize) /\ one \in Seq(Arriving)
      BY <1>1, <2>2
    <3>2. \E k \in 0..Len(one) :
              Contents(ringPut(rx, one)) = Then(Contents(rx), Beginning(one, k))
      BY <3>1, PutOnSound
    <3> QED
      BY <2>2, <3>2
  <2>4. SoundRing(rx', Arriving, RxSize) /\ Contents(rx) \in Seq(Arriving)
    BY <1>1, <2>2, PutOnSound DEF SoundRing
  <2>5. CASE k = 0
    <3>1. Beginning(one, k) = <<>>
      BY <2>5, SubSeqEmpty DEF Beginning
    <3>2. Received' = Received
      BY <2>3, <2>4, <3>1, ThenProperties DEF Received
    <3> QED
      BY <1>1, <2>4, <3>2
  <2>6. CASE k # 0
    <3>1. k = Len(one)
      BY <2>2, <2>6
    <3>2. Beginning(one, k) = one
      BY <2>2, <3>1, SubSeqFull, Zenon DEF Beginning
    <3>3. Append(Received, rdr) = Received \o one
      BY <2>1, <2>2, <2>4, AppendIsConcat, Zenon DEF Received
    <3>4. Received' = Append(Received, rdr)
      BY <2>3, <3>2, <3>3, Zenon DEF Received, Then
    <3> QED
      BY <1>1, <2>2, <2>4, <3>4
  <2> QED
    BY <2>5, <2>6
<1> QED
  BY <1>2, <1>3

(* The handler moves the next byte from the ring to tdr: no byte is        *)
(* between them, as the blocking send is not in its critical section.      *)
LEMMA GiveNextStep ==
    ASSUME PortInv, GiveNext, UNCHANGED tmp, ~Masked
    PROVE  /\ SoundRing(tx', Leaving, TxSize) /\ tdr' \in Leaving \cup {NoByte}
           /\ ToSend' = ToSend
<1>1. SoundRing(tx, Leaving, TxSize) /\ tdr \in Leaving \cup {NoByte} /\ tmp = <<>>
  BY DEF PortInv
<1>2. CASE tdr # NoByte
  BY <1>1, <1>2 DEF GiveNext, ToSend
<1>3. CASE tdr = NoByte
  <2> DEFINE got == ringGet(tx, 1).bytes
  <2>1. /\ tx' = ringGet(tx, 1).ring
        /\ tdr' = IF got = <<>> THEN NoByte ELSE Head(got)
    BY <1>3 DEF GiveNext
  <2>2. /\ SoundRing(tx', Leaving, TxSize)
        /\ got \in Seq(Leaving) /\ Len(got) <= 1
        /\ Contents(tx') \in Seq(Leaving)
        /\ Contents(tx) = Then(got, Contents(tx'))
    BY <1>1, <2>1, GetFromSound
  <2> HIDE DEF got
  <2>3. tdr' \in Leaving \cup {NoByte} /\ got = InTdr(tdr')
    <3>1. CASE got = <<>>
      BY <2>1, <3>1 DEF InTdr
    <3>2. CASE got # <<>>
      <4>1. Head(got) \in Leaving /\ got = <<Head(got)>>
        BY <2>2, <3>2, OneByte
      <4>2. tdr' = Head(got) /\ tdr' # NoByte
        BY <2>1, <3>2, <4>1, SioAssumption
      <4>3. InTdr(tdr') = <<tdr'>>
        BY <4>2, Zenon DEF InTdr
      <4> QED
        BY <4>1, <4>2, <4>3, Zenon
    <3> QED
      BY <3>1, <3>2
  <2>4. ToSend = Then(Then(<<>>, <<>>), Contents(tx))
    BY <1>1, <1>3, Zenon DEF ToSend, Then, InTdr
  <2>5. ToSend' = Then(Then(got, <<>>), Contents(tx'))
    BY <1>1, <2>3, Zenon DEF ToSend, Then
  <2>6. <<>> \in Seq(Leaving) /\ Then(got, Contents(tx')) \in Seq(Leaving)
    BY <2>2, ThenProperties, EmptySeq
  <2>7. ToSend' = ToSend
    BY <2>2, <2>4, <2>5, <2>6, ThenProperties
  <2> QED
    BY <2>2, <2>3, <2>7
<1> QED
  BY <1>2, <1>3

LEMMA HandlerStep ==
    ASSUME PortInv, usart2_handler, UNCHANGED outbox
    PROVE  PortInv' /\ StreamStep
<1>1. TakeReceived /\ GiveNext /\ ~Masked /\ UNCHANGED <<mode, tmp>>
  BY DEF usart2_handler, Interrupts
<1>2. /\ SoundRing(rx', Arriving, RxSize) /\ rdr' \in Arriving \cup {NoByte}
      /\ Received' = Received \/ \E b \in Arriving : Received' = Append(Received, b)
  BY <1>1, TakeReceivedStep
<1>3. /\ SoundRing(tx', Leaving, TxSize) /\ tdr' \in Leaving \cup {NoByte}
      /\ ToSend' = ToSend
  BY <1>1, GiveNextStep
<1>4. PortInv'
  BY <1>1, <1>2, <1>3 DEF PortInv, Masked
<1>5. CASE Received' = Received
  BY <1>3, <1>4, <1>5 DEF StreamStep
<1>6. ASSUME NEW b \in Arriving, Received' = Append(Received, b)
      PROVE  StreamStep
  <2>1. Streams!Receive(b)
    BY <1>3, <1>6 DEF Streams!Receive, Received, ToSend, InTdr
  <2> QED
    BY <2>1 DEF StreamStep, Streams!Next
<1> QED
  BY <1>2, <1>4, <1>5, <1>6

(* The byte in tdr has left. *)
LEMMA LeaveStep ==
    ASSUME PortInv, Leave, UNCHANGED outbox
    PROVE  PortInv' /\ StreamStep
<1>1. /\ tdr \in Leaving /\ tdr # NoByte /\ tdr' = NoByte
      /\ UNCHANGED <<rx, tx, rdr, mode, tmp>>
      /\ tmp \in Seq(Leaving) /\ Contents(tx) \in Seq(Leaving)
  BY DEF PortInv, Leave, SoundRing
<1>2. PortInv'
  BY <1>1 DEF PortInv, Masked
<1> DEFINE rest == Then(tmp, Contents(tx))
<1>3. rest \in Seq(Leaving) /\ <<tdr>> \in Seq(Leaving) /\ <<>> \in Seq(Leaving)
  BY <1>1, ThenProperties
<1>4. ToSend = Then(Then(<<tdr>>, tmp), Contents(tx))
  BY <1>1, Zenon DEF ToSend, Then, InTdr
<1>5. ToSend' = Then(Then(<<>>, tmp), Contents(tx))
  BY <1>1, Zenon DEF ToSend, Then, InTdr
<1>6. ToSend = Then(<<tdr>>, rest) /\ ToSend' = rest
  <2>1. Then(Then(<<tdr>>, tmp), Contents(tx)) = Then(<<tdr>>, rest)
    <3>1. \A one \in Seq(Leaving) : Then(Then(one, tmp), Contents(tx)) = Then(one, rest)
      BY <1>1, ThenProperties
    <3> QED
      BY <1>3, <3>1, Zenon
  <2>2. Then(Then(<<>>, tmp), Contents(tx)) = Then(<<>>, rest)
    BY <1>1, <1>3, ThenProperties
  <2>3. Then(<<>>, rest) = rest
    BY <1>3, ThenProperties
  <2> QED
    BY <1>4, <1>5, <2>1, <2>2, <2>3
<1> HIDE DEF rest
<1>7. ToSend # <<>> /\ Tail(ToSend) = rest
  BY <1>1, <1>3, <1>6, ByteInFront, Zenon DEF Then
<1>8. UNCHANGED Received /\ ToSend # <<>> /\ ToSend' = Tail(ToSend)
  BY <1>1, <1>6, <1>7 DEF Received
<1>9. Streams!Transmit
  BY <1>8 DEF Streams!Transmit, Received, ToSend, InTdr
<1> QED
  BY <1>2, <1>9 DEF StreamStep, Streams!Next

(* The steps that the streams do not notice. *)
LEMMA QuietStep ==
    ASSUME PortInv, UNCHANGED <<rx, tx, tdr, tmp>>, rdr' \in Arriving \cup {NoByte},
           mode' \in [Threads -> {"out", "send", "sending"}], Masked => Masked',
           outbox' \in Seq(Leaving)
    PROVE  PortInv' /\ StreamStep
<1>1. PortInv'
  BY DEF PortInv
<1>2. Received' = Received /\ ToSend' = ToSend
  BY DEF Received, ToSend
<1> QED
  BY <1>1, <1>2 DEF StreamStep

-----------------------------------------------------------------------------

LEMMA PortInvStep ==
    ASSUME PortInv, [Next]_vars
    PROVE  PortInv' /\ StreamStep
<1> USE DEF lineVars
<1>1. console \in Threads /\ app \in Threads
  BY ConsoleAssumption
<1>2. CASE PortDebugPutChar
  <2>1. /\ sio_write(console, <<Head(outbox)>>) /\ outbox # <<>>
        /\ outbox \in Seq(Leaving) /\ outbox' = Tail(outbox)
    BY <1>2 DEF PortInv, PortDebugPutChar
  <2>2. Head(outbox) \in Leaving /\ outbox' \in Seq(Leaving)
    BY <2>1, HeadInFront
  <2>3. /\ <<Head(outbox)>> \in Seq(Leaving)
        /\ <<Head(outbox)>> \in AppMessages \cup { <<b>> : b \in Leaving }
    BY <2>2
  <2> QED
    BY <1>1, <2>1, <2>2, <2>3, WriteStep
<1>3. CASE PortDebugIsReadable
  BY <1>3, QuietStep DEF PortDebugIsReadable, PortInv, sioVars, Masked
<1>4. CASE PortDebugRead8
  <2>1. rx' = sio_read(1).ring /\ UNCHANGED <<tx, rdr, tdr, tmp, mode>>
    BY <1>4 DEF PortDebugRead8
  <2>2. outbox' \in Seq(Leaving)
    <3> DEFINE got == ringGet(rx, 1).bytes
    <3>1. got \in Seq(Arriving)
      BY GetFromSound DEF PortInv
    <3>2. \A c \in IF got = <<>> THEN Arriving ELSE {Head(got)} : c \in Arriving
      BY <3>1, HeadTailProperties
    <3>3. PICK c \in IF got = <<>> THEN Arriving ELSE {Head(got)} :
              outbox' = IF c = Return THEN <<NewLine>> ELSE <<c>>
      BY <1>4 DEF PortDebugRead8, sio_read
    <3> HIDE DEF got
    <3> QED
      BY <3>2, <3>3, ConsoleAssumption
  <2> QED
    BY <2>1, <2>2, ReadStep
<1>5. CASE ConsoleInput
  <2>1. UNCHANGED sioVars /\ outbox' \in Seq(Leaving)
    BY <1>5, ConsoleAssumption DEF ConsoleInput, print_result
  <2> QED
    BY <2>1, QuietStep DEF PortInv, sioVars, Masked
<1>6. ASSUME NEW message \in AppMessages, _write(message)
      PROVE  PortInv' /\ StreamStep
  BY <1>1, <1>6, WriteStep, ConsoleAssumption DEF _write, PortInv
<1>7. CASE Port
  <2>1. SioStep /\ UNCHANGED outbox
    BY <1>7 DEF Port
  <2>2. ASSUME NEW t \in Threads, usart_do_send(t)
        PROVE  PortInv' /\ StreamStep
    BY <2>1, <2>2, QuietStep DEF usart_do_send, PortInv, Masked
  <2> QED
    BY <2>1, <2>2, TakeBytesStep, SendBlockingStep, HandlerStep, LeaveStep DEF SioStep
<1>8. ASSUME NEW b \in Arriving, Type(b)
      PROVE  PortInv' /\ StreamStep
  BY <1>8, QuietStep DEF Type, Arrive, PortInv, Masked
<1>9. CASE UNCHANGED vars
  BY <1>9, QuietStep DEF vars, sioVars, PortInv, Masked
<1> QED
  BY <1>2, <1>3, <1>4, <1>5, <1>6, <1>7, <1>8, <1>9 DEF Next

LEMMA PortInvInit ==
    ASSUME Init
    PROVE  PortInv /\ Received = <<>> /\ ToSend = <<>>
<1>1. ASSUME NEW S, NEW size \in Nat \ {0}
      PROVE  SoundRing(ringCreate(size), S, size) /\ Contents(ringCreate(size)) = <<>>
  <2> DEFINE ring == ringCreate(size)
  <2>1. ring \in Rings(S, size)
    BY DEF ringCreate, Rings
  <2>2. ringNewBytes(ring) = 0
    BY DEF ringCreate, ringNewBytes
  <2>3. Contents(ring) = <<>>
    BY <2>2 DEF Contents
  <2> QED
    BY <2>1, <2>3 DEF SoundRing
<1>2. /\ rx = ringCreate(RxSize) /\ tx = ringCreate(TxSize)
      /\ rdr = NoByte /\ tdr = NoByte /\ tmp = <<>> /\ outbox = <<Prompt>>
      /\ mode \in [Threads -> {"out", "send", "sending"}]
  BY DEF Init, SioInit
<1>3. SoundRing(rx, Arriving, RxSize) /\ Contents(rx) = <<>>
  BY <1>1, <1>2, SioAssumption
<1>4. SoundRing(tx, Leaving, TxSize) /\ Contents(tx) = <<>>
  BY <1>1, <1>2, SioAssumption
<1>5. PortInv
  BY <1>2, <1>3, <1>4, ConsoleAssumption DEF PortInv
<1>6. ToSend = <<>>
  BY <1>2, <1>4, EmptySeq, ConcatEmptySeq DEF ToSend, InTdr
<1> QED
  BY <1>3, <1>5, <1>6 DEF Received

(* The serial port of l031k6_usart.c carries two streams of bytes in order *)
(* and complete, with the handler, blocking sends and the writes of both   *)
(* threads interleaved in every way, and rings that wrap and fill, of any  *)
(* size.                                                                   *)
THEOREM StreamsImplemented == FairSpec => ImplementsStreams
<1>1. Init => PortInv /\ Streams!Init
  BY PortInvInit DEF Streams!Init, Received, ToSend, InTdr
<1>2. PortInv /\ [Next]_vars => PortInv' /\ StreamStep
  BY PortInvStep
<1> QED
  BY <1>1, <1>2, PTL DEF FairSpec, Spec, ImplementsStreams, Streams!Spec,
                         StreamStep, Received, ToSend, InTdr

-----------------------------------------------------------------------------

(* Induction over the natural numbers, as a fact about their subsets.      *)
LEMMA LeastNumber ==
    ASSUME NEW T, T \subseteq Nat, T # {}
    PROVE  \E x \in T : \A y \in T : x <= y
<1>1. PICK R : R = OpToRel(<, Nat)
  OBVIOUS
<1>2. IsWellFoundedOn(R, Nat)
  BY <1>1, NatLessThanWellFounded
<1>3. PICK x \in T : \A y \in T : ~ (<<y, x>> \in R)
  BY <1>2, WFMin
<1>4. \A y \in T : ~ (y < x)
  BY <1>1, <1>3 DEF OpToRel
<1> QED
  BY <1>3, <1>4

LEMMA NumbersByInduction ==
    ASSUME NEW T, T \subseteq Nat, 0 \in T, \A n \in T : n + 1 \in T
    PROVE  T = Nat
<1>1. SUFFICES ASSUME Nat \ T # {} PROVE FALSE
  OBVIOUS
<1>2. PICK x \in Nat \ T : \A y \in Nat \ T : x <= y
  BY <1>1, LeastNumber
<1>3. x - 1 \in Nat /\ x - 1 \in T
  BY <1>2
<1> QED
  BY <1>2, <1>3

(* The numbers from m to n, by induction.                                  *)
LEMMA RangeByInduction ==
    ASSUME NEW m \in Nat, NEW n \in Nat, NEW T, m \in T,
           \A i \in m..(n-1) : i \in T => i + 1 \in T
    PROVE  m..n \subseteq T
<1> DEFINE K == { k \in Nat : m + k <= n => m + k \in T }
<1>1. 0 \in K
  OBVIOUS
<1>2. ASSUME NEW k \in K PROVE k + 1 \in K
  <2> SUFFICES ASSUME m + (k + 1) <= n PROVE m + (k + 1) \in T
    BY <1>2
  <2>1. k \in Nat /\ m + k \in m..(n-1) /\ m + k \in T
    BY <1>2
  <2>2. (m + k) + 1 \in T
    BY <2>1
  <2> QED
    BY <2>1, <2>2
<1>3. K \subseteq Nat
  OBVIOUS
<1> HIDE DEF K
<1>4. K = Nat
  BY <1>1, <1>2, <1>3, NumbersByInduction
<1>5. ASSUME NEW i \in m..n PROVE i \in T
  <2>1. i - m \in K
    BY <1>4
  <2>2. m + (i - m) = i
    OBVIOUS
  <2> QED
    BY <2>1, <2>2 DEF K
<1> QED
  BY <1>5

(* The function that a recursion over m..n defines, whose steps stay in    *)
(* the set V, exists, and is what the recursion says.                      *)
Recursion(f, m, n, V, first, step) ==
    /\ f \in [m..n -> V]
    /\ f[m] = first
    /\ \A i \in (m+1)..n : f[i] = step[<<i, f[i-1]>>]

LEMMA RecursionExists ==
    ASSUME NEW m \in Nat, NEW n \in Nat, m <= n, NEW V, NEW first \in V,
           NEW step \in [((m+1)..n) \X V -> V]
    PROVE  \E f : Recursion(f, m, n, V, first, step)
<1> DEFINE Built(f, k) ==
             /\ f \in [m..k -> V]
             /\ \A i \in m..k : f[i] = IF i = m THEN first ELSE step[<<i, f[i-1]>>]
           T == { k \in m..n : \E f : Built(f, k) }
<1>0. ASSUME NEW i \in (m+1)..n, NEW v \in V PROVE step[<<i, v>>] \in V
  <2>1. <<i, v>> \in ((m+1)..n) \X V
    OBVIOUS
  <2> QED
    BY <2>1
<1>1. m \in T
  <2>1. PICK f : f = [i \in m..m |-> first]
    OBVIOUS
  <2>2. Built(f, m)
    BY <2>1
  <2> QED
    BY <2>2
<1>2. ASSUME NEW k \in m..(n-1), k \in T PROVE k + 1 \in T
  <2>1. PICK f : Built(f, k)
    BY <1>2
  <2>2. k \in m..k /\ f[k] \in V /\ k + 1 \in m..n /\ k + 1 # m
    BY <2>1
  <2>3. PICK g : g = [i \in m..(k+1) |-> IF i = k + 1 THEN step[<<k + 1, f[k]>>] ELSE f[i]]
    OBVIOUS
  <2>4. /\ \A i \in m..k : i \in m..(k+1) /\ i # k + 1 /\ g[i] = f[i]
        /\ g[k+1] = step[<<k + 1, f[k]>>] /\ step[<<k + 1, f[k]>>] \in V
    BY <1>0, <2>2, <2>3
  <2>5. g \in [m..(k+1) -> V]
    BY <2>1, <2>3, <2>4
  <2>6. ASSUME NEW i \in m..(k+1)
        PROVE  g[i] = IF i = m THEN first ELSE step[<<i, g[i-1]>>]
    <3>1. CASE i = k + 1
      BY <2>2, <2>4, <3>1
    <3>2. CASE i # k + 1
      <4>1. i \in m..k /\ (i # m => i - 1 \in m..k)
        BY <3>2
      <4> QED
        BY <2>1, <2>4, <4>1
    <3> QED
      BY <3>1, <3>2
  <2>7. Built(g, k + 1)
    BY <2>5, <2>6
  <2> QED
    BY <2>2, <2>7
<1> HIDE DEF T
<1>3. n \in T
  <2>1. m..n \subseteq T
    BY <1>1, <1>2, RangeByInduction
  <2> QED
    BY <2>1
<1> USE DEF T
<1>4. PICK f : Built(f, n)
  BY <1>3
<1>5. f \in [m..n -> V] /\ f[m] = first
  <2>1. m \in m..n
    OBVIOUS
  <2> QED
    BY <1>4, <2>1
<1>6. ASSUME NEW i \in (m+1)..n PROVE f[i] = step[<<i, f[i-1]>>]
  <2>1. i \in m..n /\ i # m
    OBVIOUS
  <2> QED
    BY <1>4, <2>1
<1> QED
  BY <1>5, <1>6 DEF Recursion

-----------------------------------------------------------------------------

(* What Split has read of a line at each of its characters.                *)
ReadOn(before, c) ==
    IF c = Space
      THEN [params |-> Append(before.params, before.current), current |-> <<>>]
      ELSE [before EXCEPT !.current = Append(@, c)]
NothingRead == [params |-> <<>>, current |-> <<>>]
Reading(line) ==
    CHOOSE read : read = [n \in 0..Len(line) |->
        IF n = 0 THEN NothingRead ELSE ReadOn(read[n-1], line[n])]
Reads(S) == [params : Seq(Seq(S)), current : Seq(S)]

(* Split and Joined are the last values of these recursions. *)
LEMMA SplitReads ==
    ASSUME NEW line
    PROVE  Split(line) = LET end == Reading(line)[Len(line)] IN
                         IF end.params = <<>> \/ end.current # <<>>
                           THEN Append(end.params, end.current) ELSE end.params
  BY DEF Split, Reading, ReadOn, NothingRead

LEMMA ReadOnProperties ==
    ASSUME NEW S, NEW r \in Reads(S), NEW c \in S
    PROVE  /\ ReadOn(r, c) \in Reads(S)
           /\ r.params \in Seq(Seq(S)) /\ r.current \in Seq(S)
           /\ c = Space => /\ ReadOn(r, c).params = Append(r.params, r.current)
                           /\ ReadOn(r, c).current = <<>>
           /\ c # Space => /\ ReadOn(r, c).params = r.params
                           /\ ReadOn(r, c).current = Append(r.current, c)
<1>1. r.params \in Seq(Seq(S)) /\ r.current \in Seq(S)
  BY DEF Reads
<1>2. /\ Append(r.params, r.current) \in Seq(Seq(S)) /\ Append(r.current, c) \in Seq(S)
      /\ <<>> \in Seq(S)
  BY <1>1, AppendProperties
<1>3. CASE c = Space
  BY <1>1, <1>2, <1>3 DEF ReadOn, Reads
<1>4. CASE c # Space
  BY <1>1, <1>2, <1>4 DEF ReadOn, Reads
<1> QED
  BY <1>1, <1>3, <1>4

(* The recursion of Split is what it says at every character of a line. *)
LEMMA ReadingIs ==
    ASSUME NEW S, NEW line \in Seq(S)
    PROVE  /\ \A n \in 0..Len(line) : Reading(line)[n] \in Reads(S)
           /\ Reading(line)[0] = NothingRead
           /\ \A n \in 1..Len(line) : Reading(line)[n] = ReadOn(Reading(line)[n-1], line[n])
<1> DEFINE Rule(f) == f = [n \in 0..Len(line) |->
                              IF n = 0 THEN NothingRead ELSE ReadOn(f[n-1], line[n])]
<1>1. PICK N \in Nat : N = Len(line)
  BY LenProperties
<1>2. PICK step : step = [p \in (1..N) \X Reads(S) |-> ReadOn(p[2], line[p[1]])]
  OBVIOUS
<1>3. \A i \in 1..N, v \in Reads(S) : step[<<i, v>>] = ReadOn(v, line[i]) /\ line[i] \in S
  <2> TAKE i \in 1..N, v \in Reads(S)
  <2>1. <<i, v>> \in (1..N) \X Reads(S)
    OBVIOUS
  <2>2. line[i] \in S
    BY <1>1, ElementOfSeq
  <2> QED
    BY <1>2, <2>1, <2>2
<1>4. NothingRead \in Reads(S)
  BY EmptySeq DEF NothingRead, Reads
<1>5. ASSUME NEW i \in 1..N, NEW v \in Reads(S) PROVE step[<<i, v>>] \in Reads(S)
  <2>1. step[<<i, v>>] = ReadOn(v, line[i]) /\ line[i] \in S
    BY <1>3
  <2> QED
    BY <2>1, ReadOnProperties
<1>6. PICK f \in [0..N -> Reads(S)] :
          /\ f[0] = NothingRead
          /\ \A i \in 1..N : f[i] = step[<<i, f[i-1]>>]
  <2>1. PICK zero \in Nat : zero = 0
    OBVIOUS
  <2> DEFINE V == Reads(S)
             first == NothingRead
  <2>2. zero \in Nat /\ zero <= N /\ zero + 1 = 1
    BY <2>1
  <2>3. first \in V /\ step \in [((zero+1)..N) \X V -> V]
    BY <1>2, <1>4, <1>5, <2>2
  <2> HIDE DEF V, first
  <2>4. PICK f : Recursion(f, zero, N, V, first, step)
    BY <2>2, <2>3, RecursionExists
  <2> USE DEF V, first
  <2> QED
    BY <2>1, <2>2, <2>4 DEF Recursion
<1>7. ASSUME NEW i \in 1..N PROVE step[<<i, f[i-1]>>] = ReadOn(f[i-1], line[i])
  <2>1. i - 1 \in 0..N
    OBVIOUS
  <2> QED
    BY <1>3, <1>6, <2>1
<1>8. Rule(f)
  <2>1. ASSUME NEW i \in 0..N
        PROVE  f[i] = IF i = 0 THEN NothingRead ELSE ReadOn(f[i-1], line[i])
    <3>1. CASE i = 0
      BY <1>6, <3>1
    <3>2. CASE i # 0
      <4>1. i \in 1..N
        BY <3>2
      <4> QED
        BY <1>6, <1>7, <3>2, <4>1
    <3> QED
      BY <3>1, <3>2
  <2> QED
    BY <1>1, <1>6, <2>1
<1>9. Reading(line) = CHOOSE g : Rule(g)
  BY DEF Reading
<1> HIDE DEF Rule
<1>10. Rule(Reading(line))
  BY <1>8, <1>9
<1> USE DEF Rule
<1>11. PICK g : g = Reading(line)
  OBVIOUS
<1>12. \A n \in 0..N : g[n] = IF n = 0 THEN NothingRead ELSE ReadOn(g[n-1], line[n])
  BY <1>1, <1>10, <1>11
<1>13. \A n \in 0..N : g[n] \in Reads(S)
  <2> DEFINE T == { n \in 0..N : g[n] \in Reads(S) }
  <2>1. 0 \in T
    BY <1>4, <1>12
  <2>2. ASSUME NEW i \in 0..(N-1), i \in T PROVE i + 1 \in T
    <3>1. i + 1 \in 1..N /\ (i + 1) - 1 = i /\ g[i] \in Reads(S)
      BY <2>2
    <3>2. g[i+1] = ReadOn(g[i], line[i+1])
      BY <1>12, <3>1
    <3> QED
      <4>1. line[i+1] \in S
        BY <1>1, <3>1, ElementOfSeq
      <4>2. ReadOn(g[i], line[i+1]) \in Reads(S)
        BY <3>1, <4>1, ReadOnProperties
      <4> QED
        BY <3>1, <3>2, <4>2
  <2> HIDE DEF T
  <2>3. 0..N \subseteq T
    BY <2>1, <2>2, RangeByInduction
  <2> QED
    BY <2>3 DEF T
<1> QED
  BY <1>1, <1>11, <1>12, <1>13

-----------------------------------------------------------------------------

(* What Joined has joined of parameters at each of them.                   *)
JoinOn(before, param) == before \o <<Space>> \o param
Joining(argv) ==
    CHOOSE join : join = [n \in 1..Len(argv) |->
        IF n = 1 THEN argv[1] ELSE JoinOn(join[n-1], argv[n])]

LEMMA JoinedReads ==
    ASSUME NEW argv
    PROVE  Joined(argv) = Joining(argv)[Len(argv)]
  BY DEF Joined, Joining, JoinOn

LEMMA JoinOnType ==
    ASSUME NEW S, Space \in S, NEW before \in Seq(S), NEW param \in Seq(S)
    PROVE  JoinOn(before, param) \in Seq(S)
<1>1. <<Space>> \in Seq(S)
  OBVIOUS
<1>2. before \o <<Space>> \in Seq(S)
  BY <1>1, ConcatProperties
<1> QED
  BY <1>2, ConcatProperties DEF JoinOn

(* The recursion of Joined is what it says at every parameter. *)
LEMMA JoiningIs ==
    ASSUME NEW S, Space \in S, NEW argv \in Seq(Seq(S)), argv # <<>>
    PROVE  /\ \A n \in 1..Len(argv) : Joining(argv)[n] \in Seq(S)
           /\ Joining(argv)[1] = argv[1]
           /\ \A n \in 2..Len(argv) : Joining(argv)[n] = JoinOn(Joining(argv)[n-1], argv[n])
<1> DEFINE Rule(f) == f = [n \in 1..Len(argv) |->
                              IF n = 1 THEN argv[1] ELSE JoinOn(f[n-1], argv[n])]
<1>1. PICK N \in Nat : N = Len(argv) /\ N >= 1
  BY LenProperties, EmptySeq
<1>2. \A i \in 1..N : argv[i] \in Seq(S)
  BY <1>1, ElementOfSeq
<1>3. PICK step : step = [p \in (2..N) \X Seq(S) |-> JoinOn(p[2], argv[p[1]])]
  OBVIOUS
<1>4. ASSUME NEW i \in 2..N, NEW v \in Seq(S)
      PROVE  step[<<i, v>>] = JoinOn(v, argv[i]) /\ JoinOn(v, argv[i]) \in Seq(S)
  <2>1. <<i, v>> \in (2..N) \X Seq(S)
    OBVIOUS
  <2>2. argv[i] \in Seq(S)
    <3>1. i \in 1..N
      OBVIOUS
    <3> QED
      BY <1>2, <3>1
  <2> QED
    BY <1>3, <2>1, <2>2, JoinOnType
<1>5. PICK f : Recursion(f, 1, N, Seq(S), argv[1], step)
  <2>1. PICK one \in Nat : one = 1
    OBVIOUS
  <2> DEFINE V == Seq(S)
             first == argv[1]
  <2>2. one \in Nat /\ one <= N /\ one + 1 = 2
    BY <1>1, <2>1
  <2>3. first \in V
    BY <1>1, <1>2
  <2>4. ASSUME NEW p \in (2..N) \X V PROVE JoinOn(p[2], argv[p[1]]) \in V
    BY <1>4
  <2>5. step \in [((one+1)..N) \X V -> V]
    BY <1>3, <2>2, <2>4
  <2> HIDE DEF V, first
  <2>6. PICK f : Recursion(f, one, N, V, first, step)
    BY <2>2, <2>3, <2>5, RecursionExists
  <2> USE DEF V, first
  <2> QED
    BY <2>1, <2>6
<1>6. /\ f \in [1..N -> Seq(S)] /\ f[1] = argv[1]
      /\ \A i \in 2..N : f[i] = step[<<i, f[i-1]>>]
  BY <1>5 DEF Recursion
<1>7. ASSUME NEW i \in 1..N
      PROVE  f[i] = IF i = 1 THEN argv[1] ELSE JoinOn(f[i-1], argv[i])
  <2>1. CASE i = 1
    BY <1>6, <2>1
  <2>2. CASE i # 1
    <3>1. i \in 2..N /\ i - 1 \in 1..N
      BY <2>2
    <3>2. f[i-1] \in Seq(S)
      BY <1>6, <3>1
    <3> QED
      BY <1>4, <1>6, <2>2, <3>1, <3>2
  <2> QED
    BY <2>1, <2>2
<1>8. Rule(f)
  BY <1>1, <1>6, <1>7
<1>9. Joining(argv) = CHOOSE g : Rule(g)
  BY DEF Joining
<1> HIDE DEF Rule
<1>10. Rule(Joining(argv))
  BY <1>8, <1>9
<1> USE DEF Rule
<1>11. PICK g : g = Joining(argv)
  OBVIOUS
<1>12. \A n \in 1..N : g[n] = IF n = 1 THEN argv[1] ELSE JoinOn(g[n-1], argv[n])
  BY <1>1, <1>10, <1>11
<1>13. g[1] = argv[1]
  BY <1>1, <1>12
<1>14. ASSUME NEW n \in 2..N PROVE g[n] = JoinOn(g[n-1], argv[n])
  <2>1. n \in 1..N /\ n # 1
    OBVIOUS
  <2> QED
    BY <1>12, <2>1
<1>15. \A n \in 1..N : g[n] \in Seq(S)
  <2> DEFINE T == { n \in 1..N : g[n] \in Seq(S) }
  <2>1. 1 \in T
    BY <1>1, <1>2, <1>13
  <2>2. ASSUME NEW i \in 1..(N-1), i \in T PROVE i + 1 \in T
    <3>1. i + 1 \in 2..N /\ (i + 1) - 1 = i /\ g[i] \in Seq(S)
      BY <2>2
    <3>2. g[i+1] = JoinOn(g[i], argv[i+1])
      BY <1>14, <3>1
    <3>3. argv[i+1] \in Seq(S)
      BY <1>2, <3>1
    <3> QED
      BY <3>1, <3>2, <3>3, JoinOnType
  <2> HIDE DEF T
  <2>3. 1..N \subseteq T
    BY <2>1, <2>2, RangeByInduction
  <2> QED
    BY <2>3 DEF T
<1> QED
  BY <1>1, <1>11, <1>13, <1>14, <1>15

LEMMA JoinedType ==
    ASSUME NEW S, Space \in S, NEW argv \in Seq(Seq(S)), argv # <<>>
    PROVE  Joined(argv) \in Seq(S)
<1>1. Len(argv) \in 1..Len(argv)
  BY LenProperties, EmptySeq
<1> QED
  BY <1>1, JoiningIs, JoinedReads

LEMMA JoinedOne ==
    ASSUME NEW S, Space \in S, NEW x \in Seq(S)
    PROVE  Joined(<<x>>) = x
<1>1. <<x>> \in Seq(Seq(S)) /\ <<x>> # <<>> /\ Len(<<x>>) = 1 /\ <<x>>[1] = x
  OBVIOUS
<1> QED
  BY <1>1, JoiningIs, JoinedReads

(* One parameter more. *)
LEMMA JoinedAppend ==
    ASSUME NEW S, Space \in S, NEW argv \in Seq(Seq(S)), argv # <<>>, NEW x \in Seq(S)
    PROVE  Joined(Append(argv, x)) = JoinOn(Joined(argv), x)
<1>1. PICK N \in Nat : N = Len(argv) /\ N >= 1
  BY LenProperties, EmptySeq
<1>2. PICK more : more = Append(argv, x)
  OBVIOUS
<1>3. /\ more \in Seq(Seq(S)) /\ more # <<>> /\ Len(more) = N + 1
      /\ \A i \in 1..N : more[i] = argv[i]
      /\ more[N+1] = x
  BY <1>1, <1>2, AppendProperties
<1>4. PICK f : f = Joining(argv)
  OBVIOUS
<1>5. PICK g : g = Joining(more)
  OBVIOUS
<1>6. f[1] = argv[1] /\ \A n \in 2..N : f[n] = JoinOn(f[n-1], argv[n])
  BY <1>1, <1>4, JoiningIs
<1>7. g[1] = more[1] /\ \A n \in 2..(N+1) : g[n] = JoinOn(g[n-1], more[n])
  BY <1>3, <1>5, JoiningIs
<1>8. g[N] = f[N]
  <2> DEFINE T == { n \in 1..N : g[n] = f[n] }
  <2>1. 1 \in T
    BY <1>1, <1>3, <1>6, <1>7
  <2>2. ASSUME NEW i \in 1..(N-1), i \in T PROVE i + 1 \in T
    <3>1. i + 1 \in 2..N /\ i + 1 \in 2..(N+1) /\ (i + 1) - 1 = i /\ g[i] = f[i]
      BY <2>2
    <3>2. more[i+1] = argv[i+1]
      BY <1>3, <3>1
    <3> QED
      BY <1>6, <1>7, <3>1, <3>2
  <2> HIDE DEF T
  <2>3. 1..N \subseteq T
    BY <1>1, <2>1, <2>2, RangeByInduction
  <2> QED
    BY <1>1, <2>3 DEF T
<1>9. g[N+1] = JoinOn(f[N], x)
  <2>1. N + 1 \in 2..(N+1) /\ (N + 1) - 1 = N
    BY <1>1
  <2> QED
    BY <1>3, <1>7, <1>8, <2>1
<1> QED
  BY <1>1, <1>2, <1>3, <1>4, <1>5, <1>9, JoinedReads

(* One character more in the last parameter. *)
LEMMA JoinedExtended ==
    ASSUME NEW S, Space \in S, NEW argv \in Seq(Seq(S)), NEW x \in Seq(S), NEW c \in S
    PROVE  Joined(Append(argv, Append(x, c))) = Append(Joined(Append(argv, x)), c)
<1>1. PICK y \in Seq(S) : y = Append(x, c)
  BY AppendProperties
<1>2. CASE argv = <<>>
  <2>1. Append(argv, x) = <<x>> /\ Append(argv, y) = <<y>>
    BY <1>2
  <2> QED
    BY <1>1, <2>1, JoinedOne
<1>3. CASE argv # <<>>
  <2>1. PICK j \in Seq(S) : j = Joined(argv)
    BY <1>3, JoinedType
  <2>2. Joined(Append(argv, x)) = JoinOn(j, x) /\ Joined(Append(argv, y)) = JoinOn(j, y)
    BY <1>3, <2>1, JoinedAppend
  <2>3. PICK front \in Seq(S) : front = j \o <<Space>>
    <3>1. <<Space>> \in Seq(S)
      OBVIOUS
    <3> QED
      BY <2>1, <3>1, ConcatProperties
  <2>4. JoinOn(j, x) = Then(front, x) /\ JoinOn(j, y) = Then(front, y)
    BY <2>3, Zenon DEF JoinOn, Then
  <2>5. PICK one \in Seq(S) : one = <<c>>
    <3>1. <<c>> \in Seq(S)
      OBVIOUS
    <3> QED
      BY <3>1
  <2>6. y = Then(x, one)
    BY <1>1, <2>5, AppendIsConcat, Zenon DEF Then
  <2>7. Then(front, y) = Then(Then(front, x), one) /\ Then(front, x) \in Seq(S)
    BY <2>6, ThenProperties
  <2>8. Append(Then(front, x), c) = Then(Then(front, x), one)
    BY <2>5, <2>7, AppendIsConcat, Zenon DEF Then
  <2> QED
    BY <1>1, <2>2, <2>4, <2>7, <2>8
<1> QED
  BY <1>2, <1>3

(* An empty parameter more is a space more. *)
LEMMA JoinedSpace ==
    ASSUME NEW S, Space \in S, NEW argv \in Seq(Seq(S)), argv # <<>>
    PROVE  Joined(Append(argv, <<>>)) = Append(Joined(argv), Space)
<1>1. PICK j \in Seq(S) : j = Joined(argv)
  BY JoinedType
<1>2. PICK none \in Seq(S) : none = <<>>
  BY EmptySeq
<1>3. PICK front : front = j \o <<Space>>
  OBVIOUS
<1>4. front \in Seq(S)
  <2>1. <<Space>> \in Seq(S)
    OBVIOUS
  <2> QED
    BY <1>3, <2>1, ConcatProperties
<1>5. JoinOn(j, none) = Then(front, <<>>)
  BY <1>2, <1>3, Zenon DEF JoinOn, Then
<1>6. JoinOn(j, none) = front
  BY <1>4, <1>5, ThenProperties
<1>7. Append(j, Space) = front
  BY <1>3, AppendIsConcat, Zenon
<1> QED
  BY <1>1, <1>2, <1>6, <1>7, JoinedAppend

(* What Split has read so far, joined, is the beginning of the line. *)
LEMMA ReadIsJoined ==
    ASSUME NEW S, Space \in S, NEW line \in Seq(S), NEW n \in 0..Len(line)
    PROVE  LET r == Reading(line)[n] IN
           Joined(Append(r.params, r.current)) = Beginning(line, n)
<1>1. PICK N \in Nat : N = Len(line)
  BY LenProperties
<1>2. PICK f : f = Reading(line)
  OBVIOUS
<1>3. /\ \A i \in 0..N : f[i] \in Reads(S)
      /\ f[0] = NothingRead
      /\ \A i \in 1..N : f[i] = ReadOn(f[i-1], line[i])
  BY <1>1, <1>2, ReadingIs
<1> DEFINE Whole(i) == Joined(Append(f[i].params, f[i].current))
           T == { i \in 0..N : Whole(i) = Beginning(line, i) }
<1>4. 0 \in T
  <2>1. Append(f[0].params, f[0].current) = << <<>> >>
    BY <1>3 DEF NothingRead
  <2>2. Joined(<< <<>> >>) = <<>>
    BY EmptySeq, JoinedOne
  <2>3. Beginning(line, 0) = <<>>
    BY SubSeqEmpty DEF Beginning
  <2>4. Whole(0) = Beginning(line, 0)
    BY <2>1, <2>2, <2>3, Zenon
  <2> QED
    BY <1>1, <2>4
<1>5. ASSUME NEW i \in 0..(N-1), i \in T PROVE i + 1 \in T
  <2>1. i + 1 \in 1..N /\ (i + 1) - 1 = i /\ i \in 0..N /\ i + 1 \in 0..N
    BY <1>1
  <2>2. PICK c \in S : c = line[i+1]
    BY <1>1, <2>1, ElementOfSeq
  <2>3. PICK r \in Reads(S) : r = f[i]
    BY <1>3, <2>1
  <2>4. f[i+1] = ReadOn(r, c)
    BY <1>3, <2>1, <2>2, <2>3
  <2>5. Joined(Append(r.params, r.current)) = Beginning(line, i)
    BY <1>5, <2>3
  <2>6. Beginning(line, i + 1) = Append(Beginning(line, i), c)
    <3>1. SubSeq(line, 1, i + 1) = SubSeq(line, 1, (i + 1) - 1) \o <<line[i+1]>>
      BY <1>1, <2>1, SubSeqRecursiveSecond
    <3>2. SubSeq(line, 1, i) \in Seq(S)
      BY <1>1, <2>1, ElementOfSeq, SubSeqProperties
    <3>3. Append(SubSeq(line, 1, i), c) = SubSeq(line, 1, i) \o <<c>>
      BY <3>2, AppendIsConcat, Zenon
    <3> QED
      BY <2>1, <2>2, <3>1, <3>3, Zenon DEF Beginning
  <2>7. r.params \in Seq(Seq(S)) /\ r.current \in Seq(S)
    BY <2>3, ReadOnProperties
  <2>8. Whole(i + 1) = Append(Joined(Append(r.params, r.current)), c)
    <3>1. CASE c = Space
      <4>1. /\ f[i+1].params = Append(r.params, r.current)
            /\ f[i+1].current = <<>>
        BY <2>4, <3>1 DEF ReadOn
      <4>2. PICK read \in Seq(Seq(S)) : read = Append(r.params, r.current) /\ read # <<>>
        BY <2>7, AppendProperties
      <4> QED
        BY <3>1, <4>1, <4>2, JoinedSpace
    <3>2. CASE c # Space
      <4>1. /\ f[i+1].params = r.params
            /\ f[i+1].current = Append(r.current, c)
        BY <2>4, <3>2 DEF ReadOn, Reads
      <4> QED
        BY <2>7, <4>1, JoinedExtended
    <3> QED
      BY <3>1, <3>2
  <2> QED
    BY <2>1, <2>5, <2>6, <2>8
<1> HIDE DEF T
<1>6. 0..N \subseteq T
  <2>1. 0 \in Nat
    OBVIOUS
  <2> QED
    BY <1>4, <1>5, <2>1, RangeByInduction
<1> QED
  BY <1>1, <1>2, <1>6 DEF T

(* The parameters of a line, joined by spaces, are the line, or all of it  *)
(* but a space at its end.                                                 *)
LEMMA SplitJoins ==
    ASSUME NEW S, Space \in S, NEW line \in Seq(S)
    PROVE  line \in {Joined(Split(line)), Append(Joined(Split(line)), Space)}
<1>1. Len(line) \in 0..Len(line)
  BY LenProperties
<1>2. PICK r : r = Reading(line)[Len(line)]
  OBVIOUS
<1>3. r \in Reads(S)
  BY <1>1, <1>2, ReadingIs
<1>4. r.params \in Seq(Seq(S)) /\ r.current \in Seq(S)
  BY <1>3 DEF Reads
<1>5. Joined(Append(r.params, r.current)) = line
  BY <1>1, <1>2, ReadIsJoined, SubSeqFull DEF Beginning
<1>6. Split(line) = IF r.params = <<>> \/ r.current # <<>>
                      THEN Append(r.params, r.current) ELSE r.params
  BY <1>2, SplitReads
<1>7. CASE r.params = <<>> \/ r.current # <<>>
  BY <1>5, <1>6, <1>7
<1>8. CASE ~(r.params = <<>> \/ r.current # <<>>)
  BY <1>4, <1>5, <1>6, <1>8, JoinedSpace
<1> QED
  BY <1>7, <1>8

-----------------------------------------------------------------------------

(* The line so far, with the carriage return that ended it. *)
Line == Then(buffer, IF at = "run" THEN <<Return>> ELSE <<>>)

(* What CommandsAsTyped needs: the console has found a character when it   *)
(* goes to read one, and what was typed and is not run yet is the line and *)
(* what waits in the ring.                                                 *)
TypedInv ==
    /\ PortInv
    /\ txie \in BOOLEAN /\ blocking \in Builds /\ Len(tmp) <= TmpSize
    /\ at \in {"poll", "read", "run"}
    /\ buffer \in Seq(Arriving \ {Return})
    /\ typed = Then(Line, Contents(rx))
    /\ at = "read" => Contents(rx) # <<>>

(* What was typed in front of the first carriage return, and behind it. *)
LEMMA FirstLineIs ==
    ASSUME NEW S, Return \in S, NEW a \in Seq(S \ {Return}), NEW c \in Seq(S)
    PROVE  /\ FirstLine(Then(Then(a, <<Return>>), c)) = a
           /\ SubSeq(Then(Then(a, <<Return>>), c), Len(a) + 2,
                     Len(Then(Then(a, <<Return>>), c))) = c
<1>1. PICK n \in Nat : n = Len(a)
  BY LenProperties
<1>2. PICK k \in Nat : k = Len(c)
  BY LenProperties
<1>3. PICK one \in Seq(S) : one = <<Return>> /\ Len(one) = 1 /\ one[1] = Return
  <2>1. <<Return>> \in Seq(S) /\ Len(<<Return>>) = 1 /\ <<Return>>[1] = Return
    OBVIOUS
  <2> QED
    BY <2>1
<1>4. a \in Seq(S) /\ \A i \in 1..n : a[i] \in S /\ a[i] # Return
  <2>1. \A i \in 1..n : a[i] \in S \ {Return}
    BY <1>1, ElementOfSeq
  <2>2. a \in Seq(S)
    BY <1>1, <2>1
  <2> QED
    BY <2>1, <2>2
<1>5. PICK line : line = a \o one
  OBVIOUS
<1>6. /\ line \in Seq(S) /\ Len(line) = n + 1
      /\ \A i \in 1..(n+1) : line[i] = IF i <= n THEN a[i] ELSE one[i - n]
  <2>1. /\ a \o one \in Seq(S) /\ Len(a \o one) = Len(a) + Len(one)
        /\ \A i \in 1..Len(a) + Len(one) : (a \o one)[i] =
               IF i <= Len(a) THEN a[i] ELSE one[i - Len(a)]
    BY <1>3, <1>4, ConcatProperties, Zenon
  <2> QED
    BY <1>1, <1>3, <1>5, <2>1
<1>7. PICK bytes : bytes = line \o c
  OBVIOUS
<1>8. /\ bytes \in Seq(S) /\ Len(bytes) = (n + 1) + k
      /\ \A i \in 1..((n+1)+k) : bytes[i] = IF i <= n + 1 THEN line[i] ELSE c[i - (n+1)]
  <2>1. /\ line \o c \in Seq(S) /\ Len(line \o c) = Len(line) + Len(c)
        /\ \A i \in 1..Len(line) + Len(c) : (line \o c)[i] =
               IF i <= Len(line) THEN line[i] ELSE c[i - Len(line)]
    BY <1>6, ConcatProperties, Zenon
  <2> QED
    BY <1>2, <1>6, <1>7, <2>1
<1>9. Then(Then(a, <<Return>>), c) = bytes
  BY <1>3, <1>5, <1>7, Zenon DEF Then
<1>10. \A i \in 1..n : bytes[i] # Return
  <2> TAKE i \in 1..n
  <2>1. i \in 1..(n+1) /\ i \in 1..((n+1)+k) /\ i <= n /\ i <= n + 1
    OBVIOUS
  <2> QED
    BY <1>4, <1>6, <1>8, <2>1
<1>11. bytes[n+1] = Return
  <2>1. n + 1 \in 1..(n+1) /\ n + 1 \in 1..((n+1)+k) /\ ~(n + 1 <= n) /\ (n + 1) - n = 1
    OBVIOUS
  <2> QED
    BY <1>3, <1>6, <1>8, <2>1
<1> DEFINE First(m) == /\ m < Len(bytes) => bytes[m+1] = Return
                       /\ \A i \in 1..m : bytes[i] # Return
<1>12. ASSUME NEW m \in 0..Len(bytes)
       PROVE  First(m) <=> m = n
  <2>1. m \in 0..((n+1)+k) /\ n < Len(bytes)
    BY <1>8
  <2>2. CASE m < n
    <3>1. m + 1 \in 1..n /\ m < Len(bytes)
      BY <2>1, <2>2
    <3> QED
      BY <1>10, <2>2, <3>1
  <2>3. CASE m = n
    BY <1>10, <1>11, <2>3
  <2>4. CASE m > n
    <3>1. n + 1 \in 1..m
      BY <2>1, <2>4
    <3> QED
      BY <1>11, <2>4, <3>1
  <2> QED
    BY <2>1, <2>2, <2>3, <2>4
<1>13. n \in 0..Len(bytes)
  BY <1>8
<1> HIDE DEF First
<1>14. (CHOOSE m \in 0..Len(bytes) : First(m)) = n
  BY <1>12, <1>13
<1>15. FirstLine(bytes) = SubSeq(bytes, 1, n)
  BY <1>14 DEF FirstLine, First
<1>16. SubSeq(bytes, 1, n) = a
  <2>1. SubSeq(bytes, 1, n) \in Seq(S) /\ Len(SubSeq(bytes, 1, n)) = n
        /\ \A i \in 1..n : SubSeq(bytes, 1, n)[i] = bytes[i]
    <3>1. n <= Len(bytes)
      BY <1>8
    <3> QED
      BY <1>8, <3>1
  <2>2. \A i \in 1..n : bytes[i] = a[i]
    <3> TAKE i \in 1..n
    <3>1. i \in 1..(n+1) /\ i \in 1..((n+1)+k) /\ i <= n /\ i <= n + 1
      OBVIOUS
    <3> QED
      BY <1>6, <1>8, <3>1
  <2> QED
    BY <1>1, <1>4, <2>1, <2>2, SeqEqual
<1>17. SubSeq(bytes, n + 2, Len(bytes)) = c
  <2> DEFINE rest == SubSeq(bytes, n + 2, Len(bytes))
  <2>1. /\ rest \in Seq(S) /\ Len(rest) = k
        /\ \A i \in 1..k : rest[i] = bytes[(n + 1) + i]
    BY <1>8
  <2> HIDE DEF rest
  <2>2. ASSUME NEW i \in 1..k PROVE rest[i] = c[i]
    <3>1. PICK j \in 1..((n+1)+k) : j = (n + 1) + i /\ ~(j <= n + 1) /\ j - (n + 1) = i
      OBVIOUS
    <3> QED
      BY <1>8, <2>1, <3>1
  <2>3. rest = c
    BY <1>2, <2>1, <2>2, SeqEqual
  <2> QED
    BY <2>3 DEF rest
<1> QED
  BY <1>1, <1>9, <1>15, <1>16, <1>17

(* A sound ring holds as many bytes as it counts, and is empty when it     *)
(* holds none.                                                             *)
LEMMA SoundCount ==
    ASSUME NEW S, NEW size, NEW ring, SoundRing(ring, S, size)
    PROVE  /\ Len(Contents(ring)) = ringNewBytes(ring) /\ ringNewBytes(ring) \in Nat
           /\ ~ringIsEmpty(ring) => Contents(ring) # <<>>
<1>1. size \in Nat \ {0} /\ ring \in Rings(S, size) /\ Contents(ring) \in Seq(S)
  BY DEF SoundRing
<1>2. PICK n \in Nat : n = ringNewBytes(ring) /\ (ringIsEmpty(ring) <=> n = 0)
  BY <1>1, RingCountsAgree
<1>3. DOMAIN Contents(ring) = 1..n
  BY <1>2 DEF Contents
<1>4. Len(Contents(ring)) = n
  BY <1>1, <1>2, <1>3, LenProperties
<1> QED
  BY <1>1, <1>2, <1>4, EmptySeq

(* The handler adds the received byte to what was typed if and only if the *)
(* ring takes it.                                                          *)
LEMMA ReceivedIsTyped ==
    ASSUME PortInv, TakeReceived
    PROVE  IF ringNewBytes(rx') > ringNewBytes(rx)
             THEN rdr \in Arriving /\ Contents(rx') = Then(Contents(rx), <<rdr>>)
             ELSE Contents(rx') = Contents(rx)
<1>1. SoundRing(rx, Arriving, RxSize) /\ rdr \in Arriving \cup {NoByte}
  BY DEF PortInv
<1>2. SoundRing(rx', Arriving, RxSize)
  BY TakeReceivedStep
<1>3. /\ Len(Contents(rx)) = ringNewBytes(rx) /\ Len(Contents(rx)) \in Nat
      /\ Len(Contents(rx')) = ringNewBytes(rx')
      /\ Contents(rx) \in Seq(Arriving)
  BY <1>1, <1>2, SoundCount DEF SoundRing
<1>4. CASE rdr = NoByte
  BY <1>3, <1>4 DEF TakeReceived
<1>5. CASE rdr # NoByte
  <2>1. PICK one : one = <<rdr>>
    OBVIOUS
  <2>2. rdr \in Arriving /\ rx' = ringPut(rx, one) /\ one \in Seq(Arriving) /\ Len(one) = 1
    BY <1>1, <1>5, <2>1 DEF TakeReceived
  <2>3. PICK k \in 0..Len(one) :
            Contents(rx') = Then(Contents(rx), Beginning(one, k))
    <3>1. SoundRing(rx, Arriving, RxSize) /\ one \in Seq(Arriving)
      BY <1>1, <2>2
    <3>2. \E k \in 0..Len(one) :
              Contents(ringPut(rx, one)) = Then(Contents(rx), Beginning(one, k))
      BY <3>1, PutOnSound
    <3> QED
      BY <2>2, <3>2
  <2>4. CASE k = 0
    <3>1. Beginning(one, k) = <<>>
      BY <2>4, SubSeqEmpty DEF Beginning
    <3>2. Contents(rx') = Contents(rx)
      BY <1>3, <2>3, <3>1, ThenProperties
    <3> QED
      BY <1>3, <3>2
  <2>5. CASE k # 0
    <3>1. k = Len(one)
      BY <2>2, <2>5
    <3>2. Beginning(one, k) = one
      BY <2>2, <3>1, SubSeqFull, Zenon DEF Beginning
    <3>3. Contents(rx') = Then(Contents(rx), one)
      BY <2>3, <3>2
    <3>4. Then(Contents(rx), one) = Append(Contents(rx), rdr)
      BY <1>3, <2>1, <2>2, AppendIsConcat, Zenon DEF Then
    <3>5. Len(Append(Contents(rx), rdr)) = Len(Contents(rx)) + 1
      BY <1>3, <2>2, AppendProperties
    <3>6. ringNewBytes(rx') > ringNewBytes(rx)
      BY <1>3, <3>3, <3>4, <3>5
    <3> QED
      BY <2>1, <2>2, <3>3, <3>6
  <2> QED
    BY <2>4, <2>5
<1> QED
  BY <1>4, <1>5

LEMMA LineType ==
    ASSUME TypedInv
    PROVE  /\ buffer \in Seq(Arriving) /\ Contents(rx) \in Seq(Arriving)
           /\ <<Return>> \in Seq(Arriving) /\ <<>> \in Seq(Arriving)
           /\ Line \in Seq(Arriving) /\ typed \in Seq(Arriving)
<1>1. buffer \in Seq(Arriving) /\ Contents(rx) \in Seq(Arriving)
  <2>1. buffer \in Seq(Arriving \ {Return}) /\ Contents(rx) \in Seq(Arriving)
    BY DEF TypedInv, PortInv, SoundRing
  <2>2. Len(buffer) \in Nat /\ \A i \in 1..Len(buffer) : buffer[i] \in Arriving
    BY <2>1, LenProperties, ElementOfSeq
  <2> QED
    BY <2>1, <2>2
<1>2. <<Return>> \in Seq(Arriving) /\ <<>> \in Seq(Arriving)
  BY ConsoleAssumption
<1>3. Line \in Seq(Arriving)
  BY <1>1, <1>2, ThenProperties DEF Line
<1>4. typed \in Seq(Arriving)
  BY <1>1, <1>3, ThenProperties DEF TypedInv
<1> QED
  BY <1>1, <1>2, <1>3, <1>4

(* The steps that leave the ring of received bytes and the line alone.     *)
LEMMA TypedQuietStep ==
    ASSUME TypedInv, PortInv', UNCHANGED <<rx, at, buffer, typed>>,
           txie' \in BOOLEAN, blocking' = blocking, Len(tmp') <= TmpSize
    PROVE  TypedInv'
<1>1. UNCHANGED Line
  BY DEF Line
<1> QED
  BY <1>1 DEF TypedInv

(* The console takes the first byte of the ring: it ends the line or is    *)
(* its next character.                                                     *)
LEMMA TypedReadStep ==
    ASSUME TypedInv, PortInv', PortDebugRead8
    PROVE  TypedInv'
<1>1. /\ SoundRing(rx, Arriving, RxSize) /\ rx' = ringGet(rx, 1).ring
      /\ at = "read" /\ Contents(rx) # <<>>
      /\ UNCHANGED <<txie, blocking, tmp, typed>>
  BY DEF TypedInv, PortInv, PortDebugRead8, Proceeds, sio_read
<1> DEFINE got == ringGet(rx, 1).bytes
<1>2. /\ got \in Seq(Arriving) /\ Len(got) <= 1
      /\ Contents(rx') \in Seq(Arriving)
      /\ Contents(rx) = Then(got, Contents(rx'))
  BY <1>1, GetFromSound
<1>3. \E c \in IF got = <<>> THEN Arriving ELSE {Head(got)} :
          IF c = Return
            THEN at' = "run" /\ outbox' = <<NewLine>> /\ UNCHANGED buffer
            ELSE at' = "poll" /\ outbox' = <<c>> /\ buffer' = Append(buffer, c)
  BY DEF PortDebugRead8, sio_read
<1>4. got # <<>>
  <2>1. SUFFICES ASSUME got = <<>> PROVE FALSE
    OBVIOUS
  <2>2. Least(1, ringNewBytes(rx)) = 0
    <3>1. Len(got) = Least(1, ringNewBytes(rx))
      BY <1>1, RingGetTakes DEF SoundRing
    <3> QED
      BY <2>1, <3>1
  <2>3. ringNewBytes(rx) = 0
    BY <1>1, <2>2, SoundCount DEF Least
  <2>4. Contents(rx) = <<>>
    BY <1>1, <2>3, SoundCount, EmptySeq DEF SoundRing
  <2> QED
    BY <1>1, <2>4
<1>5. PICK c \in Arriving : got = <<c>> /\ c = Head(got)
  BY <1>2, <1>4, OneByte
<1>6. /\ c = Return => at' = "run" /\ UNCHANGED buffer
      /\ c # Return => at' = "poll" /\ buffer' = Append(buffer, c)
  BY <1>3, <1>4, <1>5
<1>7. Contents(rx) = Then(<<c>>, Contents(rx'))
  BY <1>2, <1>5
<1> HIDE DEF got
<1>8. buffer \in Seq(Arriving) /\ <<c>> \in Seq(Arriving) /\ Line = buffer
  <2>1. buffer \in Seq(Arriving) /\ <<c>> \in Seq(Arriving)
    BY LineType
  <2>2. Line = Then(buffer, <<>>)
    BY <1>1, Zenon DEF Line
  <2> QED
    BY <2>1, <2>2, ThenProperties
<1>9. typed' = Then(Then(buffer, <<c>>), Contents(rx'))
  <2>1. typed' = Then(buffer, Then(<<c>>, Contents(rx')))
    BY <1>1, <1>7, <1>8 DEF TypedInv
  <2>2. \A one \in Seq(Arriving) :
            Then(Then(buffer, one), Contents(rx')) = Then(buffer, Then(one, Contents(rx')))
    BY <1>2, <1>8, ThenProperties
  <2> QED
    BY <1>8, <2>1, <2>2, Zenon
<1>10. CASE c = Return
  <2>1. Line' = Then(buffer, <<c>>)
    BY <1>6, <1>10, Zenon DEF Line
  <2> QED
    BY <1>1, <1>6, <1>9, <1>10, <2>1 DEF TypedInv
<1>11. CASE c # Return
  <2>1. buffer' \in Seq(Arriving \ {Return})
    BY <1>6, <1>11, AppendProperties DEF TypedInv
  <2>2. buffer' = Then(buffer, <<c>>)
    BY <1>6, <1>8, <1>11, AppendIsConcat, Zenon DEF Then
  <2>3. Line' = Then(Then(buffer, <<c>>), <<>>)
    BY <1>6, <1>11, <2>2, Zenon DEF Line
  <2>4. Line' = Then(buffer, <<c>>)
    BY <1>8, <2>3, ThenProperties
  <2> QED
    BY <1>1, <1>6, <1>9, <1>11, <2>1, <2>4 DEF TypedInv
<1> QED
  BY <1>10, <1>11

(* The line that was run is dropped, and with it the beginning of what was *)
(* typed up to the first carriage return.                                  *)
LEMMA TypedRunStep ==
    ASSUME TypedInv, PortInv', ConsoleInput
    PROVE  TypedInv'
<1>1. /\ at = "run" /\ at' = "poll" /\ buffer' = <<>>
      /\ typed' = SubSeq(typed, Len(FirstLine(typed)) + 2, Len(typed))
      /\ UNCHANGED <<rx, txie, blocking, tmp>>
  BY DEF ConsoleInput, Proceeds, sioVars
<1>2. typed = Then(Then(buffer, <<Return>>), Contents(rx))
  BY <1>1, Zenon DEF TypedInv, Line
<1>3. /\ buffer \in Seq(Arriving \ {Return}) /\ Contents(rx) \in Seq(Arriving)
      /\ Return \in Arriving
  BY LineType, ConsoleAssumption DEF TypedInv
<1>4. FirstLine(typed) = buffer /\ SubSeq(typed, Len(buffer) + 2, Len(typed)) = Contents(rx)
  BY <1>2, <1>3, FirstLineIs
<1>5. typed' = Contents(rx)
  BY <1>1, <1>4
<1>6. Line' = Then(<<>>, <<>>)
  BY <1>1, Zenon DEF Line
<1>7. <<>> \in Seq(Arriving) /\ <<>> \in Seq(Arriving \ {Return})
  OBVIOUS
<1>8. typed' = Then(Line', Contents(rx'))
  <2>1. Then(<<>>, <<>>) = <<>> /\ Then(<<>>, Contents(rx)) = Contents(rx)
    BY <1>3, <1>7, ThenProperties
  <2>2. Contents(rx') = Contents(rx)
    BY <1>1
  <2> QED
    BY <1>5, <1>6, <2>1, <2>2
<1> QED
  BY <1>1, <1>7, <1>8 DEF TypedInv

(* The handler adds to the ring and to what was typed alike. *)
LEMMA TypedHandlerStep ==
    ASSUME TypedInv, PortInv', Port, usart2_handler
    PROVE  TypedInv'
<1>1. /\ TakeReceived /\ GiveNext /\ UNCHANGED <<tmp, blocking, at, buffer>>
      /\ typed' = IF ringNewBytes(rx') > ringNewBytes(rx) THEN Append(typed, rdr) ELSE typed
  BY DEF Port, usart2_handler, lineVars
<1>2. txie' \in BOOLEAN
  BY <1>1 DEF GiveNext, TypedInv
<1>3. IF ringNewBytes(rx') > ringNewBytes(rx)
        THEN rdr \in Arriving /\ Contents(rx') = Then(Contents(rx), <<rdr>>)
        ELSE Contents(rx') = Contents(rx)
  BY <1>1, ReceivedIsTyped DEF TypedInv
<1>4. UNCHANGED Line
  BY <1>1 DEF Line
<1>5. typed = Then(Line, Contents(rx)) /\ (at = "read" => Contents(rx) # <<>>)
  BY DEF TypedInv
<1>6. CASE ringNewBytes(rx') > ringNewBytes(rx)
  <2>1. PICK one : one = <<rdr>>
    OBVIOUS
  <2>2. one \in Seq(Arriving) /\ Contents(rx') = Then(Contents(rx), one)
    BY <1>3, <1>6, <2>1
  <2>3. /\ Line \in Seq(Arriving) /\ Contents(rx) \in Seq(Arriving)
        /\ typed \in Seq(Arriving)
    BY LineType
  <2>4. typed' = Then(typed, one)
    BY <1>1, <1>3, <1>6, <2>1, <2>3, AppendIsConcat, Zenon DEF Then
  <2>5. typed' = Then(Line', Contents(rx'))
    BY <1>4, <1>5, <2>2, <2>3, <2>4, ThenProperties
  <2>6. Contents(rx') # <<>>
    <3>1. Contents(rx') = Append(Contents(rx), rdr)
      BY <1>3, <1>6, <2>1, <2>2, <2>3, AppendIsConcat, Zenon DEF Then
    <3> QED
      BY <1>3, <1>6, <2>3, <3>1, AppendProperties
  <2> QED
    BY <1>1, <1>2, <2>5, <2>6 DEF TypedInv
<1>7. CASE ~(ringNewBytes(rx') > ringNewBytes(rx))
  BY <1>1, <1>2, <1>3, <1>4, <1>5, <1>7 DEF TypedInv
<1> QED
  BY <1>6, <1>7

LEMMA TypedPortStep ==
    ASSUME TypedInv, PortInv', Port
    PROVE  TypedInv'
<1>1. SioStep /\ UNCHANGED <<at, outbox, buffer>>
  BY DEF Port, lineVars
<1>2. ASSUME UNCHANGED rx PROVE typed' = typed
  <2>1. ringNewBytes(rx) \in Nat
    BY SoundCount DEF TypedInv, PortInv
  <2> QED
    BY <1>2, <2>1 DEF Port
<1>3. txie \in BOOLEAN /\ Len(tmp) <= TmpSize /\ tmp \in Seq(Leaving)
  BY DEF TypedInv, PortInv
<1>4. ASSUME NEW t \in Threads, usart_do_send(t)
      PROVE  TypedInv'
  <2>1. UNCHANGED <<rx, tmp, blocking>> /\ txie' \in BOOLEAN
    BY <1>3, <1>4 DEF usart_do_send
  <2> QED
    BY <1>1, <1>2, <1>3, <2>1, TypedQuietStep
<1>5. ASSUME NEW t \in Threads, TakeBytes(t)
      PROVE  TypedInv'
  <2>1. UNCHANGED <<rx, txie, blocking>> /\ tmp' = ringGet(tx, TmpSize).bytes
    BY <1>5 DEF TakeBytes
  <2>2. Len(tmp') <= TmpSize
    BY <2>1, SioAssumption, GetFromSound DEF TypedInv, PortInv
  <2> QED
    BY <1>1, <1>2, <1>3, <2>1, <2>2, TypedQuietStep
<1>6. ASSUME NEW t \in Threads, usart_send_blocking(t)
      PROVE  TypedInv'
  <2>1. UNCHANGED <<rx, txie, blocking>> /\ tmp # <<>> /\ tmp' = Tail(tmp)
    BY <1>6 DEF usart_send_blocking
  <2>2. Len(tmp') = Len(tmp) - 1 /\ Len(tmp) \in Nat
    BY <1>3, <2>1, HeadTailProperties, LenProperties
  <2>3. Len(tmp') <= TmpSize
    BY <1>3, <2>2, SioAssumption
  <2> QED
    BY <1>1, <1>2, <1>3, <2>1, <2>3, TypedQuietStep
<1>7. CASE Leave
  <2>1. UNCHANGED <<rx, txie, tmp, blocking>>
    BY <1>7 DEF Leave
  <2> QED
    BY <1>1, <1>2, <1>3, <2>1, TypedQuietStep
<1> QED
  BY <1>1, <1>4, <1>5, <1>6, <1>7, TypedHandlerStep DEF SioStep

LEMMA TypedInvStep ==
    ASSUME TypedInv, [Next]_vars
    PROVE  TypedInv'
<1>1. PortInv'
  BY PortInvStep DEF TypedInv
<1>2. txie \in BOOLEAN /\ Len(tmp) <= TmpSize
  BY DEF TypedInv
<1>3. CASE PortDebugPutChar
  BY <1>1, <1>2, <1>3, TypedQuietStep DEF PortDebugPutChar, sio_write
<1>4. CASE PortDebugIsReadable
  <2>1. /\ at = "poll" /\ at' = "read" /\ ~ringIsEmpty(rx)
        /\ UNCHANGED <<rx, txie, tmp, blocking, buffer, typed>>
    BY <1>4 DEF PortDebugIsReadable, Proceeds, RxIsEmpty, sioVars
  <2>2. Contents(rx) # <<>>
    BY <2>1, SoundCount DEF TypedInv, PortInv
  <2>3. UNCHANGED Line
    BY <2>1, Zenon DEF Line
  <2> QED
    BY <1>1, <2>1, <2>2, <2>3 DEF TypedInv
<1>5. CASE PortDebugRead8
  BY <1>1, <1>5, TypedReadStep
<1>6. CASE ConsoleInput
  BY <1>1, <1>6, TypedRunStep
<1>7. ASSUME NEW message \in AppMessages, _write(message)
      PROVE  TypedInv'
  BY <1>1, <1>2, <1>7, TypedQuietStep DEF _write, sio_write, lineVars
<1>8. CASE Port
  BY <1>1, <1>8, TypedPortStep
<1>9. ASSUME NEW b \in Arriving, Type(b)
      PROVE  TypedInv'
  BY <1>1, <1>2, <1>9, TypedQuietStep DEF Type, Arrive, lineVars
<1>10. CASE UNCHANGED vars
  BY <1>1, <1>2, <1>10, TypedQuietStep DEF vars, sioVars
<1> QED
  BY <1>3, <1>4, <1>5, <1>6, <1>7, <1>8, <1>9, <1>10 DEF Next

LEMMA TypedInvInit ==
    ASSUME Init
    PROVE  TypedInv
<1>1. PortInv /\ Contents(rx) = <<>>
  BY PortInvInit DEF Received
<1>2. /\ at = "poll" /\ buffer = <<>> /\ typed = <<>>
      /\ tmp = <<>> /\ txie = FALSE /\ blocking \in Builds
  BY DEF Init, SioInit
<1>3. Then(Line, Contents(rx)) = Then(Then(<<>>, <<>>), <<>>)
  BY <1>1, <1>2, Zenon DEF Line
<1>4. Then(Line, Contents(rx)) = <<>>
  BY <1>3, EmptySeq, ThenProperties
<1>5. Len(tmp) <= TmpSize /\ buffer \in Seq(Arriving \ {Return})
  BY <1>2, EmptySeq, SioAssumption
<1> QED
  BY <1>1, <1>2, <1>4, <1>5 DEF TypedInv

LEMMA TypedInvImplies ==
    ASSUME TypedInv
    PROVE  CommandsAsTyped
<1>1. ConsoleTypeOK
  BY LineType DEF TypedInv, PortInv, SoundRing, ConsoleTypeOK, SioTypeOK
<1>2. typed = Then(Line, Contents(rx))
  BY DEF TypedInv
<1>3. typed = buffer \o (IF at = "run" THEN <<Return>> ELSE <<>>) \o Contents(rx)
  BY <1>2, Zenon DEF Then, Line
<1>4. ASSUME at = "run"
      PROVE  FirstLine(typed) \in {Joined(Split(buffer)), Append(Joined(Split(buffer)), Space)}
  <2>1. typed = Then(Then(buffer, <<Return>>), Contents(rx))
    BY <1>2, <1>4, Zenon DEF Line
  <2>2. /\ buffer \in Seq(Arriving \ {Return}) /\ Contents(rx) \in Seq(Arriving)
        /\ Return \in Arriving /\ Space \in Arriving /\ buffer \in Seq(Arriving)
    BY LineType, ConsoleAssumption DEF TypedInv
  <2>3. FirstLine(typed) = buffer
    BY <2>1, <2>2, FirstLineIs
  <2>4. buffer \in {Joined(Split(buffer)), Append(Joined(Split(buffer)), Space)}
    BY <2>2, SplitJoins
  <2> QED
    BY <2>3, <2>4
<1> QED
  BY <1>1, <1>3, <1>4, Zenon DEF CommandsAsTyped

(* The parameters of every command are the line that was typed, however    *)
(* long it is and whatever the rings hold, and nothing that was typed is   *)
(* lost between the handler and the command, comes twice or out of order.  *)
THEOREM CommandsAsTypedHolds == FairSpec => []CommandsAsTyped
<1>1. Init => TypedInv
  BY TypedInvInit
<1>2. TypedInv /\ [Next]_vars => TypedInv'
  BY TypedInvStep
<1>3. TypedInv => CommandsAsTyped
  BY TypedInvImplies
<1> QED
  BY <1>1, <1>2, <1>3, PTL DEF FairSpec, Spec
=============================================================================
