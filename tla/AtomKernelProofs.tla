-------------------------- MODULE AtomKernelProofs --------------------------
(***************************************************************************)
(* What the list functions of TcbQueue return and keep, for every list and *)
(* every assignment of priorities, and theorems about AtomKernel.  The     *)
(* inductive invariant is stated for a set parked of threads that wait on  *)
(* primitives, so that the proofs about the modules that extend AtomKernel *)
(* can use the same lemmas.                                                *)
(***************************************************************************)
EXTENDS AtomKernel, WellFoundedInduction, SequenceTheorems, TLAPS

(* Min, of the community modules, picks the least element of a set of      *)
(* numbers.                                                                *)
LEMMA MinNat ==
    ASSUME NEW S \in SUBSET Nat, S # {}
    PROVE  Min(S) \in S /\ \A y \in S : Min(S) <= y
<1>1. PICK x \in S : \A y \in S : <<y, x>> \notin OpToRel(<, Nat)
  BY NatLessThanWellFounded, WFMin
<1>2. ASSUME NEW y \in S PROVE x <= y
  <2>1. <<y, x>> \notin {ss \in Nat \X Nat : ss[1] < ss[2]}
    BY <1>1, Zenon DEF OpToRel
  <2> QED
    BY <2>1
<1> QED
  BY <1>2 DEF Min

(* InsertAt puts one element at an index and moves the rest up.            *)
LEMMA InsertAtProperties ==
    ASSUME NEW S, NEW q \in Seq(S), NEW k \in 1..(Len(q)+1), NEW e \in S
    PROVE  /\ InsertAt(q, k, e) \in Seq(S)
           /\ Len(InsertAt(q, k, e)) = Len(q) + 1
           /\ \A i \in 1..(Len(q)+1) :
                InsertAt(q, k, e)[i] = IF i < k THEN q[i]
                                       ELSE IF i = k THEN e ELSE q[i-1]
<1> DEFINE a == SubSeq(q, 1, k-1)
           b == SubSeq(q, k, Len(q))
<1>1. /\ a \in Seq(S) /\ Len(a) = k-1
      /\ \A i \in 1..(k-1) : a[i] = q[i]
  BY SubSeqProperties
<1>2. /\ b \in Seq(S) /\ Len(b) = Len(q)-k+1
      /\ \A i \in 1..(Len(q)-k+1) : b[i] = q[k+i-1]
  BY SubSeqProperties
<1>3. /\ <<e>> \in Seq(S) /\ Len(<<e>>) = 1 /\ <<e>>[1] = e
  OBVIOUS
<1> HIDE DEF a, b
<1> DEFINE c == a \o <<e>>
<1>4. /\ c \in Seq(S) /\ Len(c) = k
      /\ \A i \in 1..k : c[i] = IF i < k THEN q[i] ELSE e
  BY <1>1, <1>3, ConcatProperties
<1>6. InsertAt(q, k, e) = c \o b
  BY DEF InsertAt, a, b
<1> HIDE DEF c
<1>5. /\ c \o b \in Seq(S) /\ Len(c \o b) = Len(q)+1
      /\ \A i \in 1..(Len(q)+1) : (c \o b)[i] =
             IF i <= k THEN c[i] ELSE b[i-k]
  <2>1. /\ c \o b \in Seq(S) /\ Len(c \o b) = Len(c) + Len(b)
        /\ \A i \in 1..Len(c) + Len(b) : (c \o b)[i] =
               IF i <= Len(c) THEN c[i] ELSE b[i - Len(c)]
    BY <1>4, <1>2, ConcatProperties, Zenon
  <2> QED
    BY <2>1, <1>4, <1>2
<1> QED
  BY <1>6, <1>5, <1>4, <1>2

(* RemoveAt takes one index out and moves the rest down.                   *)
LEMMA RemoveAtProperties ==
    ASSUME NEW S, NEW q \in Seq(S), NEW k \in 1..Len(q)
    PROVE  /\ RemoveAt(q, k) \in Seq(S)
           /\ Len(RemoveAt(q, k)) = Len(q) - 1
           /\ \A i \in 1..(Len(q)-1) :
                RemoveAt(q, k)[i] = IF i < k THEN q[i] ELSE q[i+1]
<1> DEFINE a == SubSeq(q, 1, k-1)
           b == SubSeq(q, k+1, Len(q))
<1>1. /\ a \in Seq(S) /\ Len(a) = k-1
      /\ \A i \in 1..(k-1) : a[i] = q[i]
  BY SubSeqProperties
<1>2. /\ b \in Seq(S) /\ Len(b) = Len(q)-k
      /\ \A i \in 1..(Len(q)-k) : b[i] = q[k+i]
  BY SubSeqProperties
<1> HIDE DEF a, b
<1>3. /\ a \o b \in Seq(S) /\ Len(a \o b) = Len(q)-1
      /\ \A i \in 1..(Len(q)-1) : (a \o b)[i] =
             IF i <= k-1 THEN a[i] ELSE b[i-(k-1)]
  <2>1. /\ a \o b \in Seq(S) /\ Len(a \o b) = Len(a) + Len(b)
        /\ \A i \in 1..(Len(a) + Len(b)) : (a \o b)[i] =
               IF i <= Len(a) THEN a[i] ELSE b[i - Len(a)]
    BY <1>1, <1>2, ConcatProperties
  <2>2. Len(a) = k-1 /\ Len(a) + Len(b) = Len(q)-1
    BY <1>1, <1>2
  <2> QED
    BY <2>1, <2>2
<1>4. RemoveAt(q, k) = a \o b
  BY DEF RemoveAt, a, b
<1>5. ASSUME NEW i \in 1..(Len(q)-1)
      PROVE  (a \o b)[i] = IF i < k THEN q[i] ELSE q[i+1]
  <2>1. CASE i < k
    BY <1>1, <1>3, <2>1
  <2>2. CASE ~ (i < k)
    <3>1. i-(k-1) \in 1..(Len(q)-k) /\ k + (i-(k-1)) = i+1 /\ Len(q) \in Nat /\ k \in Nat
      BY <2>2
    <3>2. (a \o b)[i] = b[i-(k-1)]
      <4>1. ~ (i <= k-1)
        BY <2>2
      <4> QED
        BY <1>3, <4>1
    <3> QED
      BY <1>2, <2>2, <3>1, <3>2
  <2> QED
    BY <2>1, <2>2
<1> QED
  BY <1>3, <1>4, <1>5

(* RemoveFirst removes the first index that holds the element.             *)
LEMMA RemoveFirstIsRemoveAt ==
    ASSUME NEW S, NEW q \in Seq(S), NEW e, Contains(q, e)
    PROVE  \E k \in 1..Len(q) : /\ q[k] = e
                                /\ \A i \in 1..(k-1) : q[i] # e
                                /\ RemoveFirst(q, e) = RemoveAt(q, k)
<1> DEFINE I == {i \in 1..Len(q) : q[i] = e}
<1>1. I \in SUBSET Nat /\ I # {}
  BY DEF Contains
<1>2. Min(I) \in I /\ \A y \in I : Min(I) <= y
  BY <1>1, MinNat
<1>3. RemoveFirst(q, e) = RemoveAt(q, Min(I))
  BY <1>1, Zenon DEF RemoveFirst, SelectInSeq
<1>4. Min(I) \in 1..Len(q) /\ q[Min(I)] = e
  BY <1>2
<1>5. \A i \in 1..(Min(I)-1) : q[i] # e
  BY <1>2
<1> HIDE DEF I
<1> QED
  BY <1>3, <1>4, <1>5

(* The priorities are numbers (PrioAssumption), for the arithmetic below.  *)
LEMMA PrioIsInt ==
    \A t \in Threads : Prio[t] \in Int /\ 0 <= Prio[t] /\ Prio[t] <= LowestPrio
  BY PrioAssumption DEF LowestPrio

(* The elements of a sequence are what its indexes hold.                   *)
LEMMA InRange ==
    ASSUME NEW S, NEW q \in Seq(S)
    PROVE  /\ Len(q) \in Nat
           /\ \A i \in 1..Len(q) : q[i] \in S
           /\ \A x : x \in Range(q) <=> \E i \in 1..Len(q) : q[i] = x
  BY DEF Range

(* The walk of tcbEnqueuePriority stops behind the threads of the same or  *)
(* a higher priority and in front of one of a lower priority.              *)
LEMMA InsertPosProperties ==
    ASSUME NEW q \in Seq(Threads), NEW t \in Threads
    PROVE  /\ InsertPos(q, t) \in 1..(Len(q)+1)
           /\ \A i \in 1..(InsertPos(q, t)-1) : Prio[q[i]] <= Prio[t]
           /\ InsertPos(q, t) <= Len(q) => Prio[q[InsertPos(q, t)]] > Prio[t]
<1> DEFINE lower == { i \in 1..Len(q) : Prio[q[i]] > Prio[t] }
<1>1. InsertPos(q, t) = IF lower = {} THEN Len(q) + 1 ELSE Min(lower)
  BY Zenon DEF InsertPos
<1>2. Len(q) \in Nat /\ \A i \in 1..Len(q) : q[i] \in Threads
  BY InRange
<1>3. \A i \in 1..Len(q) : i \in lower <=> Prio[q[i]] > Prio[t]
  OBVIOUS
<1>4. lower \in SUBSET Nat /\ lower \subseteq 1..Len(q)
  BY <1>2
<1> HIDE DEF lower
<1>5. ASSUME NEW i \in 1..Len(q), i \notin lower PROVE Prio[q[i]] <= Prio[t]
  <2>1. ~(Prio[q[i]] > Prio[t])
    BY <1>3, <1>5
  <2>2. Prio[q[i]] \in Int /\ Prio[t] \in Int
    BY <1>2, PrioIsInt
  <2> QED
    BY <2>1, <2>2
<1>6. CASE lower = {}
  BY <1>6, <1>1, <1>2, <1>5
<1>7. CASE lower # {}
  <2>1. Min(lower) \in lower /\ \A y \in lower : Min(lower) <= y
    BY <1>7, <1>4, MinNat
  <2>2. Min(lower) \in 1..Len(q)
    BY <2>1, <1>4
  <2>3. \A i \in 1..(Min(lower)-1) : i \in 1..Len(q) /\ i \notin lower
    BY <2>1, <2>2, <1>2
  <2> QED
    BY <1>7, <1>1, <1>2, <1>3, <1>5, <2>1, <2>2, <2>3
<1> QED
  BY <1>6, <1>7

(* tcbEnqueuePriority adds its thread to the list and nothing else, and    *)
(* keeps a list free of duplicates and in priority order.                  *)
LEMMA EnqueueProperties ==
    ASSUME NEW q \in Seq(Threads), NEW t \in Threads
    PROVE  /\ tcbEnqueuePriority(q, t) \in Seq(Threads)
           /\ tcbEnqueuePriority(q, t) # <<>>
           /\ Range(tcbEnqueuePriority(q, t)) = Range(q) \cup {t}
           /\ NoDuplicates(q) /\ t \notin Range(q)
                => NoDuplicates(tcbEnqueuePriority(q, t))
           /\ PriorityOrdered(q) => PriorityOrdered(tcbEnqueuePriority(q, t))
<1> DEFINE k == InsertPos(q, t)
           e == tcbEnqueuePriority(q, t)
<1>1. /\ k \in 1..(Len(q)+1)
      /\ \A i \in 1..(k-1) : Prio[q[i]] <= Prio[t]
      /\ k <= Len(q) => Prio[q[k]] > Prio[t]
  BY InsertPosProperties
<1> HIDE DEF k
<1>2. /\ e \in Seq(Threads) /\ Len(e) = Len(q) + 1
      /\ \A i \in 1..(Len(q)+1) :
            e[i] = IF i < k THEN q[i] ELSE IF i = k THEN t ELSE q[i-1]
  <2>1. e = InsertAt(q, k, t)
    BY DEF tcbEnqueuePriority, k
  <2> HIDE DEF e
  <2>2. /\ InsertAt(q, k, t) \in Seq(Threads)
        /\ Len(InsertAt(q, k, t)) = Len(q) + 1
        /\ \A i \in 1..(Len(q)+1) :
             InsertAt(q, k, t)[i] = IF i < k THEN q[i]
                                    ELSE IF i = k THEN t ELSE q[i-1]
    <3>1. k \in 1..(Len(q)+1)
      BY <1>1
    <3> QED
      BY <3>1, InsertAtProperties, SMT
  <2> QED
    BY <2>1, <2>2, Zenon
<1> HIDE DEF e
<1>r. /\ Len(q) \in Nat
      /\ \A x : x \in Range(q) <=> \E i \in 1..Len(q) : q[i] = x
      /\ \A x : x \in Range(e) <=> \E i \in 1..Len(e) : e[i] = x
      /\ \A i \in 1..Len(q) : q[i] \in Threads
  BY <1>2, InRange
<1>3. e # <<>>
  BY <1>2
<1>4. Range(e) = Range(q) \cup {t}
  <2>1. ASSUME NEW i \in 1..Len(e) PROVE e[i] \in Range(q) \cup {t}
    <3>1. CASE i < k
      BY <3>1, <1>1, <1>2, <1>r
    <3>2. CASE i = k
      BY <3>2, <1>2
    <3>3. CASE i > k
      <4>1. e[i] = q[i-1] /\ i-1 \in 1..Len(q)
        BY <3>3, <1>1, <1>2, <1>r
      <4> QED
        BY <4>1, <1>r
    <3> QED
      BY <3>1, <3>2, <3>3, <1>1
  <2>2. t \in Range(e)
    BY <1>1, <1>2, <1>r
  <2>3. ASSUME NEW i \in 1..Len(q) PROVE q[i] \in Range(e)
    <3>1. CASE i < k
      BY <3>1, <1>1, <1>2, <1>r
    <3>2. CASE i >= k
      <4>1. e[i+1] = q[i] /\ i+1 \in 1..Len(e)
        BY <3>2, <1>1, <1>2
      <4> QED
        BY <4>1, <1>r
    <3> QED
      BY <3>1, <3>2, <1>1
  <2>4. \A x : x \in Range(e) => x \in Range(q) \cup {t}
    BY <2>1, <1>r, Zenon
  <2>5. \A x : x \in Range(q) => x \in Range(e)
    BY <2>3, <1>r, Zenon
  <2> QED
    BY <2>2, <2>4, <2>5
<1>5. ASSUME NoDuplicates(q), t \notin Range(q) PROVE NoDuplicates(e)
  <2>1. \A i \in 1..Len(q) : q[i] # t
    BY <1>5, <1>r
  <2>2. \A i, j \in 1..Len(q) : q[i] = q[j] => i = j
    BY <1>5 DEF NoDuplicates
  <2>3. ASSUME NEW i \in 1..Len(e), NEW j \in 1..Len(e), e[i] = e[j]
        PROVE  i = j
    <3>1. CASE i < k /\ j < k
      BY <3>1, <2>2, <2>3, <1>1, <1>2, <1>r
    <3>2. CASE i > k /\ j > k
      <4>1. i-1 \in 1..Len(q) /\ j-1 \in 1..Len(q) /\ q[i-1] = q[j-1]
        BY <3>2, <2>3, <1>1, <1>2, <1>r
      <4> QED
        BY <4>1, <2>2
    <3>3. CASE i < k /\ j > k
      <4>1. i \in 1..Len(q) /\ j-1 \in 1..Len(q) /\ q[i] = q[j-1] /\ i # j-1
        BY <3>3, <2>3, <1>1, <1>2, <1>r
      <4> QED
        BY <4>1, <2>2
    <3>4. CASE i > k /\ j < k
      <4>1. j \in 1..Len(q) /\ i-1 \in 1..Len(q) /\ q[j] = q[i-1] /\ j # i-1
        BY <3>4, <2>3, <1>1, <1>2, <1>r
      <4> QED
        BY <4>1, <2>2
    <3>5. CASE i = k /\ j # k
      <4>1. e[j] = IF j < k THEN q[j] ELSE q[j-1]
        BY <3>5, <1>2
      <4>2. (j < k => j \in 1..Len(q)) /\ (j > k => j-1 \in 1..Len(q))
        BY <1>1, <1>2, <1>r
      <4> QED
        BY <3>5, <4>1, <4>2, <2>1, <2>3, <1>2, <1>1
    <3>6. CASE i # k /\ j = k
      <4>1. e[i] = IF i < k THEN q[i] ELSE q[i-1]
        BY <3>6, <1>2
      <4>2. (i < k => i \in 1..Len(q)) /\ (i > k => i-1 \in 1..Len(q))
        BY <1>1, <1>2, <1>r
      <4> QED
        BY <3>6, <4>1, <4>2, <2>1, <2>3, <1>2, <1>1
    <3> QED
      BY <3>1, <3>2, <3>3, <3>4, <3>5, <3>6, <1>1
  <2> QED
    BY <2>3 DEF NoDuplicates
<1>6. ASSUME PriorityOrdered(q) PROVE PriorityOrdered(e)
  <2>1. \A i \in 1..Len(q) : Prio[q[i]] \in Int /\ Prio[t] \in Int
    BY PrioIsInt, <1>r
  <2>2. \A i, j \in 1..Len(q) : i < j => Prio[q[i]] <= Prio[q[j]]
    BY <1>6 DEF PriorityOrdered
  <2>3. ASSUME NEW i \in 1..Len(q), i >= k PROVE Prio[t] <= Prio[q[i]]
    <3>1. k \in 1..Len(q) /\ Prio[q[k]] > Prio[t]
      BY <2>3, <1>1, <1>r
    <3>2. Prio[q[k]] <= Prio[q[i]]
      BY <3>1, <2>2, <2>3, <2>1
    <3> QED
      BY <3>1, <3>2, <2>1
  <2>4. ASSUME NEW i \in 1..Len(e), NEW j \in 1..Len(e), i < j
        PROVE  Prio[e[i]] <= Prio[e[j]]
    <3>1. CASE j < k
      <4>1. i \in 1..Len(q) /\ j \in 1..Len(q) /\ e[i] = q[i] /\ e[j] = q[j]
        BY <3>1, <2>4, <1>1, <1>2, <1>r
      <4> QED
        BY <4>1, <2>2, <2>4
    <3>2. CASE j = k
      BY <3>2, <2>4, <1>1, <1>2
    <3>3. CASE j > k /\ i = k
      <4>1. j-1 \in 1..Len(q) /\ j-1 >= k /\ e[j] = q[j-1] /\ e[i] = t
        BY <3>3, <1>1, <1>2, <1>r
      <4> QED
        BY <4>1, <2>3
    <3>4. CASE j > k /\ i < k
      <4>1. i \in 1..Len(q) /\ j-1 \in 1..Len(q) /\ j-1 >= k
            /\ e[j] = q[j-1] /\ e[i] = q[i]
        BY <3>4, <1>1, <1>2, <1>r
      <4>2. Prio[q[i]] <= Prio[t] /\ Prio[t] <= Prio[q[j-1]]
        BY <4>1, <2>3, <3>4, <1>1
      <4> QED
        BY <4>1, <4>2, <2>1
    <3>5. CASE j > k /\ i > k
      <4>1. i-1 \in 1..Len(q) /\ j-1 \in 1..Len(q) /\ i-1 < j-1
            /\ e[j] = q[j-1] /\ e[i] = q[i-1]
        BY <3>5, <2>4, <1>1, <1>2, <1>r
      <4> QED
        BY <4>1, <2>2
    <3> QED
      BY <3>1, <3>2, <3>3, <3>4, <3>5, <1>1
  <2> QED
    BY <2>4 DEF PriorityOrdered
<1> QED
  BY <1>2, <1>3, <1>4, <1>5, <1>6 DEF e

(* Where tcbEnqueuePriority puts a thread, and what it moves up.           *)
LEMMA EnqueuePlace ==
    ASSUME NEW q \in Seq(Threads), NEW t \in Threads, PriorityOrdered(q)
    PROVE  \E k \in 1..(Len(q)+1) :
              /\ Len(tcbEnqueuePriority(q, t)) = Len(q) + 1
              /\ \A i \in 1..(Len(q)+1) :
                    tcbEnqueuePriority(q, t)[i] = IF i < k THEN q[i]
                                                  ELSE IF i = k THEN t ELSE q[i-1]
              /\ \A i \in 1..Len(q) : k <= i => Prio[q[i]] > Prio[t]
<1>1. PICK k : k = InsertPos(q, t)
  OBVIOUS
<1>2. /\ k \in 1..(Len(q)+1) /\ Len(q) \in Nat
      /\ k <= Len(q) => Prio[q[k]] > Prio[t]
  BY <1>1, InsertPosProperties, InRange
<1>3. /\ Len(InsertAt(q, k, t)) = Len(q) + 1
      /\ \A i \in 1..(Len(q)+1) :
            InsertAt(q, k, t)[i] = IF i < k THEN q[i] ELSE IF i = k THEN t ELSE q[i-1]
  BY <1>2, InsertAtProperties, SMT
<1>4. tcbEnqueuePriority(q, t) = InsertAt(q, k, t)
  BY <1>1 DEF tcbEnqueuePriority
<1>5. ASSUME NEW i \in 1..Len(q), k <= i PROVE Prio[q[i]] > Prio[t]
  <2>1. k \in 1..Len(q) /\ (k = i \/ k < i)
    BY <1>2, <1>5
  <2>2. Prio[q[k]] \in Int /\ Prio[q[i]] \in Int /\ Prio[t] \in Int
    BY <2>1, PrioAssumption, InRange
  <2>3. Prio[q[k]] <= Prio[q[i]]
    BY <2>1, <2>2 DEF PriorityOrdered
  <2> QED
    BY <1>2, <2>1, <2>2, <2>3
<1> QED
  BY <1>2, <1>3, <1>4, <1>5

(* tcbDequeueHead removes the head from the list and nothing else.         *)
LEMMA TailProperties ==
    ASSUME NEW S, NEW q \in Seq(S), q # <<>>
    PROVE  /\ Head(q) \in S /\ Head(q) \in Range(q)
           /\ Tail(q) \in Seq(S)
           /\ Range(q) = Range(Tail(q)) \cup {Head(q)}
           /\ NoDuplicates(q) => NoDuplicates(Tail(q)) /\ Head(q) \notin Range(Tail(q))
<1>1. /\ Len(q) \in Nat /\ Len(q) > 0 /\ Head(q) = q[1] /\ Tail(q) \in Seq(S)
      /\ Len(Tail(q)) = Len(q) - 1 /\ DOMAIN q = 1..Len(q)
      /\ DOMAIN Tail(q) = 1..(Len(q)-1)
      /\ \A i \in 1..(Len(q)-1) : Tail(q)[i] = q[i+1]
  OBVIOUS
<1>2. Range(q) \subseteq Range(Tail(q)) \cup {Head(q)}
  <2>1. ASSUME NEW i \in 1..Len(q), i # 1 PROVE q[i] \in Range(Tail(q))
    <3>1. i-1 \in 1..(Len(q)-1) /\ Tail(q)[i-1] = q[i]
      BY <1>1, <2>1
    <3> QED
      BY <3>1, <1>1 DEF Range
  <2> QED
    BY <2>1, <1>1 DEF Range
<1>3. Range(Tail(q)) \cup {Head(q)} \subseteq Range(q)
  BY <1>1 DEF Range
<1>4. ASSUME NoDuplicates(q)
      PROVE  NoDuplicates(Tail(q)) /\ Head(q) \notin Range(Tail(q))
  BY <1>4, <1>1 DEF NoDuplicates, Range
<1> QED
  BY <1>1, <1>2, <1>3, <1>4

(* The head of an ordered list has the highest priority of the list, and   *)
(* what remains without it is in order.                                    *)
LEMMA TailOrdered ==
    ASSUME NEW q \in Seq(Threads), q # <<>>, PriorityOrdered(q)
    PROVE  /\ PriorityOrdered(Tail(q))
           /\ \A t \in Range(q) : Prio[Head(q)] <= Prio[t]
<1>1. /\ Len(q) \in Nat /\ Len(q) > 0 /\ Head(q) = q[1] /\ Head(q) \in Threads
      /\ Len(Tail(q)) = Len(q) - 1 /\ DOMAIN q = 1..Len(q)
      /\ \A i \in 1..(Len(q)-1) : Tail(q)[i] = q[i+1]
  OBVIOUS
<1>2. PriorityOrdered(Tail(q))
  BY <1>1 DEF PriorityOrdered
<1>3. ASSUME NEW i \in 1..Len(q) PROVE Prio[Head(q)] <= Prio[q[i]]
  <2>1. CASE i = 1
    BY <2>1, <1>1, PrioIsInt
  <2>2. CASE i # 1
    BY <2>2, <1>1 DEF PriorityOrdered
  <2> QED
    BY <2>1, <2>2
<1> QED
  BY <1>1, <1>2, <1>3 DEF Range

(* tcbDequeueEntry, and the removal of a timer from its list, remove that  *)
(* element and nothing else.                                               *)
LEMMA RemoveFirstProperties ==
    ASSUME NEW S, NEW q \in Seq(S), NEW e
    PROVE  /\ RemoveFirst(q, e) \in Seq(S)
           /\ Range(RemoveFirst(q, e)) \subseteq Range(q)
           /\ NoDuplicates(q) => /\ NoDuplicates(RemoveFirst(q, e))
                                 /\ Range(RemoveFirst(q, e)) = Range(q) \ {e}
<1> DEFINE r == RemoveFirst(q, e)
<1>1. CASE ~ Contains(q, e)
  <2>1. r = q
    BY <1>1 DEF RemoveFirst, Contains
  <2>2. e \notin Range(q)
    BY <1>1 DEF Contains, Range
  <2> QED
    BY <2>1, <2>2
<1>2. CASE Contains(q, e)
  <2>1. PICK k \in 1..Len(q) : /\ q[k] = e
                               /\ RemoveFirst(q, e) = RemoveAt(q, k)
    BY <1>2, RemoveFirstIsRemoveAt
  <2>2. /\ r \in Seq(S) /\ Len(r) = Len(q) - 1
        /\ \A i \in 1..(Len(q)-1) : r[i] = IF i < k THEN q[i] ELSE q[i+1]
    BY <2>1, RemoveAtProperties
  <2> HIDE DEF r
  <2>3. Range(r) \subseteq Range(q)
    BY <2>2 DEF Range
  <2>4. ASSUME NoDuplicates(q) PROVE NoDuplicates(r) /\ e \notin Range(r)
    <3>1. \A i, j \in 1..Len(q) : q[i] = q[j] => i = j
      BY <2>4, Zenon DEF NoDuplicates
    <3>2. ASSUME NEW i \in 1..Len(r), NEW j \in 1..Len(r), r[i] = r[j]
          PROVE  i = j
      <4>1. /\ i \in 1..Len(q) /\ i+1 \in 1..Len(q)
            /\ j \in 1..Len(q) /\ j+1 \in 1..Len(q)
            /\ r[i] = IF i < k THEN q[i] ELSE q[i+1]
            /\ r[j] = IF j < k THEN q[j] ELSE q[j+1]
        BY <2>2
      <4> DEFINE m == IF i < k THEN i ELSE i+1
                 n == IF j < k THEN j ELSE j+1
      <4>2. m \in 1..Len(q) /\ n \in 1..Len(q) /\ q[m] = r[i] /\ q[n] = r[j]
        BY <4>1
      <4>3. m = n
        BY <3>1, <3>2, <4>2, Zenon
      <4>4. i \in Int /\ j \in Int /\ k \in Int
        BY <2>2
      <4> QED
        BY <4>3, <4>4
    <3>3. ASSUME NEW i \in 1..Len(r) PROVE r[i] # e
      <4>1. /\ i \in 1..Len(q) /\ i+1 \in 1..Len(q) /\ k \in 1..Len(q)
            /\ r[i] = IF i < k THEN q[i] ELSE q[i+1]
        BY <2>2
      <4>2. (i < k => i # k) /\ (~ (i < k) => i+1 # k)
        BY <4>1
      <4> QED
        BY <3>1, <4>1, <2>1
    <3> QED
      BY <3>2, <3>3, <2>2 DEF NoDuplicates, Range
  <2>5. Range(q) \ {e} \subseteq Range(r)
    <3>1. ASSUME NEW i \in 1..Len(q), i # k PROVE q[i] \in Range(r)
      <4>1. CASE i < k
        BY <4>1, <2>2 DEF Range
      <4>2. CASE i > k
        <5>1. i-1 \in 1..(Len(q)-1) /\ r[i-1] = q[i]
          BY <4>2, <2>2
        <5> QED
          BY <5>1, <2>2 DEF Range
      <4> QED
        BY <3>1, <4>1, <4>2
    <3> QED
      BY <3>1, <2>1 DEF Range
  <2> QED
    BY <2>2, <2>3, <2>4, <2>5 DEF r
<1> QED
  BY <1>1, <1>2

(* tcbDequeueEntry keeps the priority order of the list.                   *)
LEMMA RemoveFirstOrdered ==
    ASSUME NEW q \in Seq(Threads), NEW e, PriorityOrdered(q)
    PROVE  PriorityOrdered(RemoveFirst(q, e))
<1> DEFINE r == RemoveFirst(q, e)
<1>1. CASE ~ Contains(q, e)
  BY <1>1 DEF RemoveFirst, Contains
<1>2. CASE Contains(q, e)
  <2>1. PICK k \in 1..Len(q) : RemoveFirst(q, e) = RemoveAt(q, k)
    BY <1>2, RemoveFirstIsRemoveAt
  <2>2. /\ r \in Seq(Threads) /\ Len(r) = Len(q) - 1
        /\ \A i \in 1..(Len(q)-1) : r[i] = IF i < k THEN q[i] ELSE q[i+1]
    BY <2>1, RemoveAtProperties
  <2> HIDE DEF r
  <2>3. \A i, j \in 1..Len(q) : i < j => Prio[q[i]] <= Prio[q[j]]
    BY Zenon DEF PriorityOrdered
  <2>4. ASSUME NEW i \in 1..Len(r), NEW j \in 1..Len(r), i < j
        PROVE  Prio[r[i]] <= Prio[r[j]]
    <3>1. /\ i \in 1..Len(q) /\ i+1 \in 1..Len(q)
          /\ j \in 1..Len(q) /\ j+1 \in 1..Len(q)
          /\ r[i] = IF i < k THEN q[i] ELSE q[i+1]
          /\ r[j] = IF j < k THEN q[j] ELSE q[j+1]
      BY <2>2
    <3> QED
      BY <2>3, <2>4, <3>1
  <2> QED
    BY <2>4 DEF PriorityOrdered, r
<1> QED
  BY <1>1, <1>2

-----------------------------------------------------------------------------

(* What the placement of the threads needs to be inductive: a parked       *)
(* thread is suspended and is not the idle thread, a terminated one is not *)
(* suspended, and the idle thread is always there to be switched to.       *)
SchedInv(parked) ==
    /\ readyQ \in Seq(Threads)
    /\ PriorityOrdered(readyQ)
    /\ Placement(parked)
    /\ parked \subseteq AppThreads
    /\ \A t \in parked : suspended[t]
    /\ \A t \in Threads : terminated[t] => ~ suspended[t]
    /\ pc[Idle] # "none"
    /\ ~ terminated[Idle]
    /\ started => curr \in Threads

-----------------------------------------------------------------------------

(* When the current thread cannot go on, the ready queue is not empty: the *)
(* idle thread is on it.                                                   *)
LEMMA IdleIsReady ==
    ASSUME NEW W, SchedInv(W), started, suspended[curr] \/ terminated[curr]
    PROVE  Idle \in Range(readyQ) /\ readyQ # <<>>
<1>1. Idle \in LiveThreads
  BY IdleAssumption DEF SchedInv, LiveThreads, Live
<1>2. Idle \notin RunningThreads
  BY DEF SchedInv, RunningThreads
<1>3. Idle \notin W
  BY DEF SchedInv, AppThreads
<1>4. Idle \in Range(readyQ)
  BY <1>1, <1>2, <1>3 DEF SchedInv, Placement, ReadyThreads
<1> QED
  BY <1>4 DEF Range

(* A ready or parked thread that is live is not terminated.                *)
LEMMA QueuedNotTerminated ==
    ASSUME NEW W, SchedInv(W), NEW t \in Threads,
           t \in ReadyThreads \cup W
    PROVE  ~ terminated[t] /\ pc[t] # "none" /\ t \notin RunningThreads
<1>1. t \in LiveThreads /\ t \notin RunningThreads
  BY DEF SchedInv, Placement
<1>2. CASE terminated[t]
  <2>1. curr = t /\ ~ suspended[t]
    BY <1>1, <1>2 DEF LiveThreads, Live, SchedInv
  <2> QED
    BY <2>1, <1>1 DEF RunningThreads
<1> QED
  BY <1>1, <1>2 DEF LiveThreads, Live

(* Switching to the head n of the ready queue, with the threads of back    *)
(* put on the queue, keeps every thread in one place.                      *)
LEMMA SwitchKeepsPlaces ==
    ASSUME NEW W, SchedInv(W), started, readyQ # <<>>,
           suspended \in [Threads -> BOOLEAN],
           NEW back \in SUBSET {curr},
           curr \in back <=> ~ suspended[curr] /\ ~ terminated[curr],
           atomThreadSwitch(Head(readyQ)),
           readyQ' \in Seq(Threads), NoDuplicates(readyQ'), PriorityOrdered(readyQ'),
           Range(readyQ') = Range(Tail(readyQ)) \cup back,
           UNCHANGED <<started, terminated>>,
           \A t \in Threads : pc'[t] = "none" <=> pc[t] = "none"
    PROVE  SchedInv(W)'
<1> DEFINE n == Head(readyQ)
<1>1. /\ n \in Threads /\ n \in Range(readyQ)
      /\ Range(readyQ) = Range(Tail(readyQ)) \cup {n}
      /\ n \notin Range(Tail(readyQ))
  BY TailProperties DEF SchedInv, Placement
<1>2. /\ ~ terminated[n] /\ pc[n] # "none" /\ n \notin RunningThreads /\ n \notin W
  BY <1>1, QueuedNotTerminated DEF SchedInv, Placement, ReadyThreads
<1>3. curr \in Threads
  BY DEF SchedInv
<1>4. curr' = n /\ suspended' = [suspended EXCEPT ![n] = FALSE]
  BY DEF atomThreadSwitch
<1> HIDE DEF n
<1>5. RunningThreads' = {n}
  BY <1>1, <1>4 DEF RunningThreads
<1>6. ReadyThreads' = Range(Tail(readyQ)) \cup back
  BY DEF ReadyThreads
<1>7. back \subseteq RunningThreads
  BY <1>3 DEF RunningThreads
<1>8. back \cap W = {} /\ n \notin back
  BY <1>7, <1>2 DEF SchedInv, Placement
<1>9. \A t \in Threads : t \in LiveThreads' <=> t \in {n} \cup Range(Tail(readyQ)) \cup back \cup W
  <2> SUFFICES ASSUME NEW t \in Threads
               PROVE  t \in LiveThreads' <=> t \in {n} \cup Range(Tail(readyQ)) \cup back \cup W
    OBVIOUS
  <2>1. t \in LiveThreads' <=> pc[t] # "none" /\ (terminated[t] => t = n)
    BY <1>4 DEF LiveThreads, Live
  <2>2. t \in LiveThreads <=> t \in RunningThreads \cup Range(readyQ) \cup W
    BY DEF SchedInv, Placement, ReadyThreads
  <2>3. t \in LiveThreads <=> pc[t] # "none" /\ (terminated[t] => curr = t)
    BY DEF LiveThreads, Live
  <2>4. t \in RunningThreads => curr = t /\ ~ suspended[t]
    BY DEF RunningThreads
  <2>5. t \in Range(readyQ) \cup W => ~ terminated[t] /\ pc[t] # "none"
    BY QueuedNotTerminated DEF ReadyThreads
  <2>6. CASE t = n
    BY <2>6, <2>1, <1>2
  <2>7. CASE t # n /\ t \in LiveThreads'
    <3>1. t \in RunningThreads => t \in back
      BY <2>7, <2>1, <2>4
    <3> QED
      BY <3>1, <2>7, <2>1, <2>2, <2>3, <1>1
  <2>8. CASE t # n /\ t \in Range(Tail(readyQ)) \cup W
    BY <2>8, <2>1, <2>5, <1>1
  <2>9. CASE t # n /\ t \in back
    BY <2>9, <2>1, <2>2, <2>3, <1>7
  <2> QED
    BY <2>6, <2>7, <2>8, <2>9
<1>10. Placement(W)'
  <2>1. /\ RunningThreads' \cap ReadyThreads' = {}
        /\ RunningThreads' \cap W = {}
    BY <1>1, <1>2, <1>5, <1>6, <1>8
  <2>2. ReadyThreads' \cap W = {}
    BY <1>1, <1>6, <1>8 DEF SchedInv, Placement, ReadyThreads
  <2>3. LiveThreads' = RunningThreads' \cup ReadyThreads' \cup W
    <3>1. LiveThreads' \subseteq Threads
      BY DEF LiveThreads
    <3>2. {n} \cup Range(Tail(readyQ)) \cup back \cup W \subseteq Threads
      <4>1. Range(readyQ) \subseteq Threads
        BY InRange DEF SchedInv
      <4> QED
        BY <4>1, <1>1, <1>3 DEF SchedInv, AppThreads
    <3> QED
      BY <3>1, <3>2, <1>5, <1>6, <1>9
  <2> QED
    BY <2>1, <2>2, <2>3 DEF Placement
<1>11. \A t \in W : suspended'[t]
  BY <1>2, <1>4 DEF SchedInv, AppThreads
<1>12. \A t \in Threads : terminated'[t] => ~ suspended'[t]
  BY <1>1, <1>4 DEF SchedInv
<1> QED
  BY <1>1, <1>4, <1>10, <1>11, <1>12, IdleAssumption DEF SchedInv

(* atomSched keeps every thread in one place.                              *)
LEMMA SchedPreserves ==
    ASSUME NEW W, SchedInv(W), started, NEW tick \in BOOLEAN, atomSched(tick),
           suspended \in [Threads -> BOOLEAN],
           UNCHANGED <<started, terminated>>,
           \A t \in Threads : pc'[t] = "none" <=> pc[t] = "none"
    PROVE  SchedInv(W)' /\ suspended' \in [Threads -> BOOLEAN] /\ curr' \in Threads
<1>1. CASE SchedSuspended
  <2>1. readyQ # <<>>
    BY <1>1, IdleIsReady DEF SchedSuspended
  <2>2. readyQ' = Tail(readyQ) /\ atomThreadSwitch(Head(readyQ))
    BY <1>1, <2>1 DEF SchedSuspended, tcbDequeueHead
  <2>3. /\ readyQ' \in Seq(Threads) /\ NoDuplicates(readyQ')
        /\ PriorityOrdered(readyQ') /\ Head(readyQ) \in Threads
    BY <2>1, <2>2, TailProperties, TailOrdered DEF SchedInv, Placement
  <2>4. SchedInv(W)'
    BY <1>1, <2>1, <2>2, <2>3, SwitchKeepsPlaces, {} \in SUBSET {curr} DEF SchedSuspended
  <2> QED
    BY <2>2, <2>3, <2>4 DEF atomThreadSwitch
<1>2. CASE SchedReady(tick) /\ readyQ # <<>> /\ Prio[Head(readyQ)] <= LowestAllowed(tick)
  <2>1. Head(readyQ) \in Threads /\ Head(readyQ) # Null
    BY <1>2, TailProperties, ThreadsAssumption DEF SchedInv
  <2>2. /\ readyQ' = tcbEnqueuePriority(Tail(readyQ), curr)
        /\ atomThreadSwitch(Head(readyQ))
        /\ ~ suspended[curr] /\ ~ terminated[curr]
    BY <1>2, <2>1 DEF SchedReady, tcbDequeuePriority
  <2>3. curr \in RunningThreads /\ curr \in Threads /\ curr \notin Range(readyQ)
    BY <2>2 DEF RunningThreads, SchedInv, Placement, ReadyThreads
  <2>4. /\ Tail(readyQ) \in Seq(Threads) /\ NoDuplicates(Tail(readyQ))
        /\ PriorityOrdered(Tail(readyQ)) /\ curr \notin Range(Tail(readyQ))
    BY <1>2, <2>3, TailProperties, TailOrdered DEF SchedInv, Placement
  <2>5. /\ readyQ' \in Seq(Threads) /\ NoDuplicates(readyQ') /\ PriorityOrdered(readyQ')
        /\ Range(readyQ') = Range(Tail(readyQ)) \cup {curr}
    BY <2>2, <2>3, <2>4, EnqueueProperties
  <2>6. SchedInv(W)'
    BY <1>2, <2>2, <2>3, <2>5, SwitchKeepsPlaces, {curr} \in SUBSET {curr}
  <2> QED
    BY <2>1, <2>2, <2>6 DEF atomThreadSwitch
<1>3. CASE SchedReady(tick) /\ ~ (readyQ # <<>> /\ Prio[Head(readyQ)] <= LowestAllowed(tick))
  <2>1. UNCHANGED <<readyQ, suspended, curr>>
    BY <1>3 DEF SchedReady, tcbDequeuePriority
  <2>2. LiveThreads' = LiveThreads /\ RunningThreads' = RunningThreads /\ ReadyThreads' = ReadyThreads
    BY <2>1 DEF LiveThreads, Live, RunningThreads, ReadyThreads
  <2> QED
    BY <2>1, <2>2, IdleAssumption DEF SchedInv, Placement
<1> QED
  BY <1>1, <1>2, <1>3 DEF atomSched

(* What atomSched does besides: the thread it leaves running has been      *)
(* created and is not suspended, and no ready thread has a higher          *)
(* priority.                                                               *)
LEMMA SchedEffect ==
    ASSUME NEW W, SchedInv(W), started, NEW tick \in BOOLEAN, atomSched(tick),
           suspended \in [Threads -> BOOLEAN]
    PROVE  /\ pc[curr] # "none" => pc[curr'] # "none"
           /\ ~ suspended'[curr']
           /\ \A t \in Range(readyQ') : Prio[curr'] <= Prio[t]
<1>1. CASE SchedSuspended
  <2>1. readyQ # <<>>
    BY <1>1, IdleIsReady DEF SchedSuspended
  <2>2. readyQ' = Tail(readyQ) /\ atomThreadSwitch(Head(readyQ))
    BY <1>1, <2>1 DEF SchedSuspended, tcbDequeueHead
  <2>3. Head(readyQ) \in Threads /\ Head(readyQ) \in Range(readyQ)
        /\ Range(readyQ') \subseteq Range(readyQ)
    BY <2>1, <2>2, TailProperties DEF SchedInv
  <2>4. pc[Head(readyQ)] # "none"
    BY <2>3, QueuedNotTerminated DEF ReadyThreads
  <2>5. \A t \in Range(readyQ) : Prio[Head(readyQ)] <= Prio[t]
    BY <2>1, TailOrdered DEF SchedInv
  <2> QED
    BY <2>2, <2>3, <2>4, <2>5 DEF atomThreadSwitch
<1>2. CASE SchedReady(tick) /\ readyQ # <<>> /\ Prio[Head(readyQ)] <= LowestAllowed(tick)
  <2>1. Head(readyQ) \in Threads /\ Head(readyQ) # Null /\ Head(readyQ) \in Range(readyQ)
        /\ Range(Tail(readyQ)) \subseteq Range(readyQ) /\ Tail(readyQ) \in Seq(Threads)
    BY <1>2, TailProperties, ThreadsAssumption DEF SchedInv
  <2>2. /\ readyQ' = tcbEnqueuePriority(Tail(readyQ), curr)
        /\ atomThreadSwitch(Head(readyQ))
    BY <1>2, <2>1 DEF SchedReady, tcbDequeuePriority
  <2>3. curr \in Threads
    BY DEF SchedInv
  <2>4. Range(readyQ') \subseteq Range(readyQ) \cup {curr}
    BY <2>1, <2>2, <2>3, EnqueueProperties
  <2>5. pc[Head(readyQ)] # "none"
    BY <2>1, QueuedNotTerminated DEF ReadyThreads
  <2>6. \A t \in Range(readyQ) : Prio[Head(readyQ)] <= Prio[t]
    BY <1>2, TailOrdered DEF SchedInv
  <2>7. Prio[Head(readyQ)] <= Prio[curr]
    BY <1>2, <2>1, <2>3, PrioIsInt DEF LowestAllowed
  <2> QED
    BY <2>1, <2>2, <2>4, <2>5, <2>6, <2>7 DEF atomThreadSwitch
<1>3. CASE SchedReady(tick) /\ ~ (readyQ # <<>> /\ Prio[Head(readyQ)] <= LowestAllowed(tick))
  <2>1. UNCHANGED <<readyQ, suspended, curr>>
    BY <1>3 DEF SchedReady, tcbDequeuePriority
  <2>2. ~ suspended'[curr']
    BY <1>3, <2>1 DEF SchedReady
  <2>3. CASE readyQ = <<>>
    BY <2>1, <2>2, <2>3 DEF Range
  <2>4. CASE readyQ # <<>>
    <3>1. Head(readyQ) \in Threads /\ curr \in Threads
      BY <2>4, TailProperties DEF SchedInv
    <3>2. Prio[curr] <= Prio[Head(readyQ)]
      BY <1>3, <2>4, <3>1, PrioIsInt DEF LowestAllowed
    <3>3. \A t \in Range(readyQ) : Prio[Head(readyQ)] <= Prio[t] /\ t \in Threads
      BY <2>4, TailOrdered, InRange DEF SchedInv
    <3>4. \A t \in Range(readyQ) : Prio[curr] <= Prio[t]
      BY <3>1, <3>2, <3>3, PrioIsInt
    <3> QED
      BY <2>1, <2>2, <3>4
  <2> QED
    BY <2>3, <2>4
<1> QED
  BY <1>1, <1>2, <1>3 DEF atomSched

-----------------------------------------------------------------------------

(* What the contexts need: before the OS is started nothing runs and no    *)
(* thread is suspended; the current thread is suspended only inside a      *)
(* blocking call, before its call of atomSched.                            *)
ContextInv ==
    /\ ~ started => curr = Null /\ intr = "none"
    /\ ~ started => \A t \in Threads : ~ suspended[t]
    /\ started => pc[curr] # "none"
    /\ started /\ suspended[curr] => pc[curr] \notin KernelLabels

(* The inductive invariant. *)
KernelInv(parked) == KernelTypeOK /\ SchedInv(parked) /\ ContextInv

(* The call of atomSched a thread makes on its way out of a kernel call.   *)
LEMMA CallSchedPreserves ==
    ASSUME NEW W, KernelInv(W), NEW t \in Threads, NEW from, NEW to,
           to # "none",
           CallSched(t, from, to)
    PROVE  KernelInv(W)'
<1>1. started /\ curr = t /\ intr = "none"
  BY ThreadsAssumption DEF KernelInv, ContextInv, CallSched, atomCurrentContext
<1>2. /\ pc[t] = from /\ from # "none" /\ pc' = [pc EXCEPT ![t] = to] /\ DOMAIN pc = Threads
      /\ UNCHANGED <<started, intr, terminated, wakeStatus, timoCb>>
  BY <1>1 DEF KernelInv, KernelTypeOK, ContextInv, CallSched
<1>3. /\ DOMAIN pc' = Threads
      /\ \A u \in Threads : pc'[u] = IF u = t THEN to ELSE pc[u]
  BY <1>2, Zenon
<1>4. \A u \in Threads : pc'[u] = "none" <=> pc[u] = "none"
  BY <1>2, <1>3
<1>5. SchedInv(W)' /\ suspended' \in [Threads -> BOOLEAN] /\ curr' \in Threads
  BY <1>1, <1>2, <1>4, SchedPreserves DEF KernelInv, KernelTypeOK, CallSched
<1>6. pc[curr'] # "none" /\ ~ suspended'[curr']
  BY <1>1, <1>2, SchedEffect DEF KernelInv, KernelTypeOK, CallSched
<1>7. KernelTypeOK'
  BY <1>2, <1>3, <1>5 DEF KernelInv, KernelTypeOK, SchedInv, Contexts
<1>8. ContextInv'
  BY <1>1, <1>2, <1>3, <1>4, <1>5, <1>6 DEF KernelInv, ContextInv
<1> QED
  BY <1>5, <1>7, <1>8 DEF KernelInv

(* The exit of an interrupt handler.                                       *)
LEMMA IntExitPreserves ==
    ASSUME NEW W, KernelInv(W), NEW source \in {"irq", "tick"}, NEW tick \in BOOLEAN,
           atomIntExit(source, tick)
    PROVE  KernelInv(W)'
<1>1. started /\ intr' = "none" /\ UNCHANGED <<started, terminated, wakeStatus, timoCb, pc>>
  BY DEF KernelInv, ContextInv, atomIntExit
<1>2. SchedInv(W)' /\ suspended' \in [Threads -> BOOLEAN] /\ curr' \in Threads
  BY <1>1, SchedPreserves DEF KernelInv, KernelTypeOK, atomIntExit
<1>3. (pc[curr] # "none" => pc[curr'] # "none") /\ ~ suspended'[curr']
  BY <1>1, SchedEffect DEF KernelInv, KernelTypeOK, atomIntExit
<1>4. KernelTypeOK'
  BY <1>1, <1>2 DEF KernelInv, KernelTypeOK, SchedInv, Contexts
<1>5. ContextInv'
  BY <1>1, <1>2, <1>3 DEF KernelInv, ContextInv
<1> QED
  BY <1>2, <1>4, <1>5 DEF KernelInv

(* The entry of an interrupt handler.                                      *)
LEMMA IntEnterPreserves ==
    ASSUME NEW W, KernelInv(W), NEW source \in {"irq", "tick"}, atomIntEnter(source)
    PROVE  KernelInv(W)'
<1>1. /\ started /\ intr' \in {"none", "irq", "tick"}
      /\ UNCHANGED <<readyQ, curr, started, suspended, terminated, wakeStatus, timoCb, pc>>
  BY DEF atomIntEnter
<1>2. LiveThreads' = LiveThreads /\ RunningThreads' = RunningThreads /\ ReadyThreads' = ReadyThreads
  BY <1>1 DEF LiveThreads, Live, RunningThreads, ReadyThreads
<1>3. KernelTypeOK'
  BY <1>1 DEF KernelInv, KernelTypeOK
<1>4. SchedInv(W)' /\ ContextInv'
  BY <1>1, <1>2 DEF KernelInv, SchedInv, Placement, ContextInv
<1> QED
  BY <1>3, <1>4 DEF KernelInv

(* A created thread becomes ready.                                         *)
LEMMA CreatePreserves ==
    ASSUME NEW W, KernelInv(W), NEW c \in Contexts, NEW t \in AppThreads,
           c = atomCurrentContext, c \in Threads => pc[c] = "app",
           atomThreadCreate(c, t)
    PROVE  KernelInv(W)'
<1> DEFINE q == tcbEnqueuePriority(readyQ, t)
<1>1. /\ t \in Threads /\ t # Idle
      /\ t \notin LiveThreads
      /\ t \notin RunningThreads /\ t \notin Range(readyQ) /\ t \notin W
  <2>1. t \in Threads /\ t # Idle /\ t \notin LiveThreads
    BY DEF AppThreads, LiveThreads, Live, atomThreadCreate
  <2> QED
    BY <2>1 DEF KernelInv, SchedInv, Placement, ReadyThreads
<1>2. /\ q \in Seq(Threads) /\ NoDuplicates(q) /\ PriorityOrdered(q)
      /\ Range(q) = Range(readyQ) \cup {t}
  BY <1>1, EnqueueProperties DEF KernelInv, SchedInv, Placement
<1>3. /\ readyQ' = q
      /\ suspended' = [suspended EXCEPT ![t] = FALSE]
      /\ terminated' = [terminated EXCEPT ![t] = FALSE]
      /\ timoCb' = [timoCb EXCEPT ![t] = FALSE]
      /\ UNCHANGED <<curr, started, intr, wakeStatus>>
  BY DEF atomThreadCreate
<1>4. /\ DOMAIN pc' = Threads
      /\ \A u \in Threads : pc'[u] = IF u = t THEN "app" ELSE IF u = c THEN "resched" ELSE pc[u]
  BY DEF atomThreadCreate
<1> HIDE DEF q
<1>5. started => t # curr
  <2>1. started => curr \in Threads /\ pc[curr] # "none"
    BY DEF KernelInv, SchedInv, ContextInv
  <2> QED
    BY <2>1 DEF atomThreadCreate
<1>6. t # curr
  BY <1>1, <1>5, ThreadsAssumption DEF KernelInv, ContextInv
<1>7. RunningThreads' = RunningThreads
  BY <1>3, <1>6 DEF RunningThreads, KernelInv, KernelTypeOK
<1>8. ReadyThreads' = ReadyThreads \cup {t}
  BY <1>2, <1>3 DEF ReadyThreads
<1>9. LiveThreads' = LiveThreads \cup {t}
  <2>1. \A u \in Threads : u # t => (pc'[u] = "none" <=> pc[u] = "none")
    BY <1>4
  <2>2. \A u \in Threads : u # t => terminated'[u] = terminated[u]
    BY <1>3 DEF KernelInv, KernelTypeOK
  <2>3. pc'[t] # "none" /\ ~ terminated'[t]
    BY <1>1, <1>3, <1>4 DEF KernelInv, KernelTypeOK
  <2> QED
    BY <1>1, <1>3, <2>1, <2>2, <2>3 DEF LiveThreads, Live
<1>10. SchedInv(W)'
  <2>1. Placement(W)'
    BY <1>1, <1>2, <1>3, <1>7, <1>8, <1>9 DEF KernelInv, SchedInv, Placement
  <2>2. /\ \A u \in Threads \ {t} :
              suspended'[u] = suspended[u] /\ terminated'[u] = terminated[u]
        /\ ~ suspended'[t]
    BY <1>1, <1>3 DEF KernelInv, KernelTypeOK
  <2>3. /\ \A u \in W : u \in Threads \ {t} /\ suspended[u]
        /\ \A u \in Threads : terminated[u] => ~ suspended[u]
    BY <1>1 DEF KernelInv, SchedInv, AppThreads
  <2>5. \A u \in W : suspended'[u]
    BY <2>2, <2>3
  <2>6. \A u \in Threads : terminated'[u] => ~ suspended'[u]
    BY <2>2, <2>3
  <2>4. pc'[Idle] # "none" /\ ~ terminated'[Idle]
    BY <1>1, <1>4, <2>2, IdleAssumption DEF KernelInv, SchedInv
  <2> QED
    BY <1>2, <1>3, <2>1, <2>4, <2>5, <2>6 DEF KernelInv, SchedInv
<1>11. KernelTypeOK'
  BY <1>2, <1>3, <1>4 DEF KernelInv, KernelTypeOK
<1>12. ContextInv'
  <2>1. \A u \in Threads : suspended'[u] => u # t /\ suspended[u]
    BY <1>1, <1>3 DEF KernelInv, KernelTypeOK
  <2>2. started /\ suspended'[curr] => pc'[curr] \notin KernelLabels
    BY <2>1, <1>4 DEF KernelInv, SchedInv, ContextInv, KernelLabels
  <2>3. started => pc'[curr] # "none"
    BY <1>4 DEF KernelInv, SchedInv, ContextInv
  <2> QED
    BY <1>3, <2>1, <2>2, <2>3 DEF KernelInv, ContextInv
<1> QED
  BY <1>10, <1>11, <1>12 DEF KernelInv

(* atomOSStart starts the thread of the highest priority.                  *)
LEMMA OSStartPreserves ==
    ASSUME NEW W, KernelInv(W), atomOSStart
    PROVE  KernelInv(W)'
<1>1. /\ ~ started /\ curr = Null /\ intr = "none" /\ \A t \in Threads : ~ suspended[t]
  BY DEF KernelInv, ContextInv, atomOSStart
<1>2. W = {} /\ RunningThreads = {}
  BY <1>1, ThreadsAssumption DEF KernelInv, SchedInv, AppThreads, RunningThreads
<1>3. Idle \in Range(readyQ) /\ readyQ # <<>>
  <2>1. Idle \in LiveThreads
    BY IdleAssumption DEF KernelInv, SchedInv, LiveThreads, Live
  <2>2. Idle \in Range(readyQ)
    BY <2>1, <1>2 DEF KernelInv, SchedInv, Placement, ReadyThreads
  <2> QED
    BY <2>2 DEF Range
<1> DEFINE n == Head(readyQ)
<1>4. /\ n \in Threads /\ n \in Range(readyQ)
      /\ Tail(readyQ) \in Seq(Threads) /\ NoDuplicates(Tail(readyQ))
      /\ PriorityOrdered(Tail(readyQ))
      /\ Range(readyQ) = Range(Tail(readyQ)) \cup {n} /\ n \notin Range(Tail(readyQ))
  BY <1>3, TailProperties, TailOrdered DEF KernelInv, SchedInv, Placement
<1>5. /\ readyQ' = Tail(readyQ) /\ curr' = n /\ started'
      /\ UNCHANGED <<intr, suspended, terminated, wakeStatus, timoCb, pc>>
  BY <1>3, <1>4, PrioIsInt DEF atomOSStart, tcbDequeuePriority
<1>6. /\ pc[n] # "none" /\ ~ terminated[n]
  BY <1>4, QueuedNotTerminated DEF KernelInv, ReadyThreads
<1> HIDE DEF n
<1>7. RunningThreads' = {n} /\ ReadyThreads' = Range(Tail(readyQ))
  BY <1>1, <1>4, <1>5 DEF RunningThreads, ReadyThreads
<1>8. LiveThreads' = LiveThreads
  <2>1. \A t \in Threads : t \in Range(readyQ) => ~ terminated[t]
    BY QueuedNotTerminated DEF KernelInv, ReadyThreads
  <2>2. \A t \in LiveThreads : ~ terminated[t]
    BY <1>1, ThreadsAssumption DEF LiveThreads, Live
  <2> QED
    BY <1>5, <1>6, <2>2 DEF LiveThreads, Live
<1>9. Placement(W)'
  BY <1>2, <1>4, <1>5, <1>7, <1>8 DEF KernelInv, SchedInv, Placement, ReadyThreads
<1>10. SchedInv(W)'
  BY <1>2, <1>4, <1>5, <1>9 DEF KernelInv, SchedInv
<1>11. KernelTypeOK' /\ ContextInv'
  BY <1>1, <1>4, <1>5, <1>6 DEF KernelInv, KernelTypeOK, ContextInv, Contexts
<1> QED
  BY <1>10, <1>11 DEF KernelInv

(* The thread that is started has the highest priority.                    *)
LEMMA OSStartHighest ==
    ASSUME NEW W, KernelInv(W), atomOSStart
    PROVE  \A t \in ReadyThreads' : Prio[curr'] <= Prio[t]
<1>1. started' /\ KernelInv(W)' /\ ~ started
  BY OSStartPreserves DEF atomOSStart
<1>2. readyQ # <<>>
  BY <1>1, ThreadsAssumption DEF KernelInv, SchedInv, atomOSStart, tcbDequeuePriority
<1>3. readyQ' = Tail(readyQ) /\ curr' = Head(readyQ)
  BY <1>1, <1>2, ThreadsAssumption
     DEF KernelInv, SchedInv, atomOSStart, tcbDequeuePriority
<1>4. \A t \in Range(readyQ) : Prio[Head(readyQ)] <= Prio[t]
  BY <1>2, TailOrdered DEF KernelInv, SchedInv
<1>5. Range(Tail(readyQ)) \subseteq Range(readyQ)
  BY <1>2, TailProperties DEF KernelInv, SchedInv
<1> QED
  BY <1>3, <1>4, <1>5 DEF ReadyThreads

(* A thread whose entry point returns goes on running until it is switched *)
(* out.                                                                    *)
LEMMA ThreadExitPreserves ==
    ASSUME NEW W, KernelInv(W), NEW t \in AppThreads, ThreadExit(t)
    PROVE  KernelInv(W)'
<1>1. /\ t \in Threads /\ t # Idle /\ pc[t] = "app" /\ curr = t
      /\ terminated' = [terminated EXCEPT ![t] = TRUE]
      /\ pc' = [pc EXCEPT ![t] = "exit"]
      /\ UNCHANGED <<readyQ, curr, started, intr, suspended, wakeStatus, timoCb>>
  BY ThreadsAssumption DEF AppThreads, ThreadExit, MayCall, atomCurrentContext
<1>2. ~ suspended[t]
  BY <1>1 DEF KernelInv, ContextInv, KernelLabels
<1>3. /\ \A u \in Threads : terminated'[u] = IF u = t THEN TRUE ELSE terminated[u]
      /\ \A u \in Threads : pc'[u] = IF u = t THEN "exit" ELSE pc[u]
      /\ DOMAIN pc' = Threads /\ terminated' \in [Threads -> BOOLEAN]
  BY <1>1 DEF KernelInv, KernelTypeOK
<1>4. LiveThreads' = LiveThreads /\ RunningThreads' = RunningThreads /\ ReadyThreads' = ReadyThreads
  BY <1>1, <1>3 DEF LiveThreads, Live, RunningThreads, ReadyThreads
<1>5. SchedInv(W)'
  BY <1>1, <1>2, <1>3, <1>4, IdleAssumption DEF KernelInv, SchedInv, Placement
<1>6. KernelTypeOK'
  BY <1>1, <1>3 DEF KernelInv, KernelTypeOK
<1>7. ContextInv'
  BY <1>1, <1>2, <1>3 DEF KernelInv, ContextInv
<1> QED
  BY <1>5, <1>6, <1>7 DEF KernelInv

(* A step that changes nothing of the kernel but which handler is active.  *)
LEMMA SameKernel ==
    ASSUME NEW W, KernelInv(W), intr' \in {"none", "irq", "tick"},
           ~ started => intr' = "none",
           UNCHANGED <<readyQ, curr, started, suspended, terminated, wakeStatus, timoCb, pc>>
    PROVE  KernelInv(W)'
<1>1. LiveThreads' = LiveThreads /\ RunningThreads' = RunningThreads /\ ReadyThreads' = ReadyThreads
  BY DEF LiveThreads, Live, RunningThreads, ReadyThreads
<1>2. SchedInv(W)'
  BY <1>1 DEF KernelInv, SchedInv, Placement
<1>3. KernelTypeOK'
  BY DEF KernelInv, KernelTypeOK
<1>4. ContextInv'
  BY DEF KernelInv, ContextInv
<1> QED
  BY <1>2, <1>3, <1>4 DEF KernelInv

(* A thread that blocks at label to is parked; it runs on until it calls   *)
(* atomSched.                                                              *)
LEMMA ParkPreserves ==
    ASSUME NEW W, KernelInv(W), NEW t \in AppThreads, NEW to, to \notin KernelLabels,
           started, t = curr, pc[t] = "app", ~ terminated[t],
           suspended' = [suspended EXCEPT ![t] = TRUE],
           pc' = [pc EXCEPT ![t] = to],
           wakeStatus' \in [Threads -> WakeStatus], timoCb' \in [Threads -> BOOLEAN],
           UNCHANGED <<readyQ, curr, started, intr, terminated>>
    PROVE  KernelInv(W \cup {t})'
<1>1. t \in Threads /\ t # Idle
  BY DEF AppThreads
<1>2. ~ suspended[t]
  BY DEF KernelInv, ContextInv, KernelLabels
<1>3. /\ \A u \in Threads : suspended'[u] = IF u = t THEN TRUE ELSE suspended[u]
      /\ suspended' \in [Threads -> BOOLEAN]
  BY DEF KernelInv, KernelTypeOK
<1>4. /\ \A u \in Threads : pc'[u] = IF u = t THEN to ELSE pc[u]
      /\ DOMAIN pc' = Threads
  BY DEF KernelInv, KernelTypeOK
<1>5. RunningThreads = {t} /\ RunningThreads' = {}
  BY <1>1, <1>2, <1>3 DEF RunningThreads
<1>6. ReadyThreads' = ReadyThreads
  BY DEF ReadyThreads
<1>7. LiveThreads' = LiveThreads
  BY <1>4 DEF LiveThreads, Live, KernelLabels
<1>8. Placement(W \cup {t})'
  BY <1>5, <1>6, <1>7 DEF KernelInv, SchedInv, Placement
<1>9. SchedInv(W \cup {t})'
  <2>1. \A u \in W \cup {t} : suspended'[u]
    BY <1>1, <1>3 DEF KernelInv, SchedInv, AppThreads
  <2>2. \A u \in Threads : terminated'[u] => ~ suspended'[u]
    BY <1>3 DEF KernelInv, SchedInv
  <2>3. pc'[Idle] # "none"
    BY <1>1, <1>4, IdleAssumption DEF KernelInv, SchedInv
  <2> QED
    BY <1>8, <2>1, <2>2, <2>3 DEF KernelInv, SchedInv
<1>10. KernelTypeOK'
  BY <1>3, <1>4 DEF KernelInv, KernelTypeOK
<1>11. ContextInv'
  BY <1>1, <1>4 DEF KernelInv, ContextInv, KernelLabels
<1> QED
  BY <1>9, <1>10, <1>11 DEF KernelInv

(* A thread that is woken is ready; if it has not called atomSched yet, it *)
(* is current and suspended besides.                                       *)
LEMMA UnparkPreserves ==
    ASSUME NEW W, KernelInv(W), NEW t \in W,
           readyQ' = tcbEnqueuePriority(readyQ, t),
           DOMAIN pc' = Threads,
           \A u \in Threads : pc'[u] = "none" <=> pc[u] = "none",
           started /\ suspended[curr] => pc'[curr] = pc[curr],
           wakeStatus' \in [Threads -> WakeStatus], timoCb' \in [Threads -> BOOLEAN],
           UNCHANGED <<curr, started, intr, suspended, terminated>>
    PROVE  KernelInv(W \ {t})' /\ ReadyThreads' = ReadyThreads \cup {t}
<1>1. t \in Threads /\ t # Idle /\ suspended[t]
  BY DEF KernelInv, SchedInv, AppThreads
<1>2. t \notin Range(readyQ) /\ t \notin RunningThreads
  BY DEF KernelInv, SchedInv, Placement, ReadyThreads
<1>3. /\ readyQ' \in Seq(Threads) /\ NoDuplicates(readyQ') /\ PriorityOrdered(readyQ')
      /\ Range(readyQ') = Range(readyQ) \cup {t}
  BY <1>1, <1>2, EnqueueProperties DEF KernelInv, SchedInv, Placement
<1>5. RunningThreads' = RunningThreads /\ ReadyThreads' = ReadyThreads \cup {t}
  BY <1>3 DEF RunningThreads, ReadyThreads
<1>7. LiveThreads' = LiveThreads
  BY DEF LiveThreads, Live
<1>8. Placement(W \ {t})'
  BY <1>2, <1>3, <1>5, <1>7 DEF KernelInv, SchedInv, Placement, ReadyThreads
<1>9. SchedInv(W \ {t})'
  BY <1>3, <1>8, IdleAssumption DEF KernelInv, SchedInv
<1>10. KernelTypeOK'
  BY <1>3 DEF KernelInv, KernelTypeOK
<1>11. ContextInv'
  <2>1. started => curr \in Threads
    BY DEF KernelInv, SchedInv
  <2> QED
    BY <2>1 DEF KernelInv, ContextInv
<1> QED
  BY <1>5, <1>9, <1>10, <1>11 DEF KernelInv

(* A step that only moves threads between labels.                          *)
LEMMA LabelsPreserve ==
    ASSUME NEW W, KernelInv(W),
           DOMAIN pc' = Threads,
           \A u \in Threads : pc'[u] = "none" <=> pc[u] = "none",
           started /\ suspended[curr] => pc'[curr] = pc[curr],
           UNCHANGED <<readyQ, curr, started, intr, suspended, terminated,
                       wakeStatus, timoCb>>
    PROVE  KernelInv(W)'
<1>1. LiveThreads' = LiveThreads /\ RunningThreads' = RunningThreads /\ ReadyThreads' = ReadyThreads
  BY DEF LiveThreads, Live, RunningThreads, ReadyThreads
<1>2. SchedInv(W)'
  BY <1>1, IdleAssumption DEF KernelInv, SchedInv, Placement
<1>3. KernelTypeOK'
  BY DEF KernelInv, KernelTypeOK
<1>4. ContextInv'
  <2>1. started => curr \in Threads
    BY DEF KernelInv, SchedInv
  <2> QED
    BY <2>1 DEF KernelInv, ContextInv
<1> QED
  BY <1>2, <1>3, <1>4 DEF KernelInv

-----------------------------------------------------------------------------

(* The initial state has the idle thread on the ready queue and no other.  *)
LEMMA KernelInitInv == KernelInit => KernelInv({})
<1> SUFFICES ASSUME KernelInit PROVE KernelInv({})
  OBVIOUS
<1>1. /\ <<>> \in Seq(Threads) /\ NoDuplicates(<<>>) /\ PriorityOrdered(<<>>) /\ Range(<<>>) = {}
      /\ Idle \in Threads
  BY IdleAssumption DEF NoDuplicates, PriorityOrdered, Range
<1>2. /\ readyQ \in Seq(Threads) /\ NoDuplicates(readyQ) /\ PriorityOrdered(readyQ)
      /\ Range(readyQ) = {Idle}
  BY <1>1, EnqueueProperties DEF KernelInit
<1>3. /\ RunningThreads = {} /\ ReadyThreads = {Idle} /\ LiveThreads = {Idle}
  BY <1>1, <1>2, ThreadsAssumption
     DEF KernelInit, RunningThreads, ReadyThreads, LiveThreads, Live
<1>4. SchedInv({})
  BY <1>1, <1>2, <1>3 DEF SchedInv, Placement, KernelInit
<1>5. KernelTypeOK
  BY <1>2 DEF KernelTypeOK, KernelInit, Contexts, WakeStatus
<1>6. ContextInv
  BY DEF ContextInv, KernelInit
<1> QED
  BY <1>4, <1>5, <1>6 DEF KernelInv

(* Every step of the scheduler keeps the invariant.                        *)
LEMMA KernelStepInv == KernelInv({}) /\ [KernelNext]_kernelVars => KernelInv({})'
<1> SUFFICES ASSUME KernelInv({}), [KernelNext]_kernelVars PROVE KernelInv({})'
  OBVIOUS
<1>1. CASE atomOSStart
  BY <1>1, OSStartPreserves
<1>2. ASSUME NEW c \in Contexts, NEW t \in AppThreads, MayCall(c), atomThreadCreate(c, t)
      PROVE  KernelInv({})'
  <2>1. c = atomCurrentContext /\ (c \in Threads => pc[c] = "app")
    BY <1>2, ThreadsAssumption DEF MayCall
  <2> QED
    BY <1>2, <2>1, CreatePreserves
<1>3. ASSUME NEW t \in AppThreads, Resched(t) PROVE KernelInv({})'
  BY <1>3, CallSchedPreserves DEF AppThreads, Resched, KernelLabels
<1>4. ASSUME NEW t \in AppThreads, ThreadExit(t) PROVE KernelInv({})'
  BY <1>4, ThreadExitPreserves
<1>5. ASSUME NEW t \in AppThreads, ThreadExitSched(t) PROVE KernelInv({})'
  BY <1>5, CallSchedPreserves DEF AppThreads, ThreadExitSched, KernelLabels
<1>6. CASE IrqEnter \/ TickEnter
  BY <1>6, IntEnterPreserves DEF IrqEnter, TickEnter
<1>7. CASE IrqExit \/ TickExit
  BY <1>7, IntExitPreserves DEF IrqExit, TickExit
<1>8. CASE UNCHANGED kernelVars
  BY <1>8 DEF kernelVars, KernelInv, KernelTypeOK, SchedInv, ContextInv, Placement,
              RunningThreads, ReadyThreads, LiveThreads, Live
<1> QED
  BY <1>1, <1>2, <1>3, <1>4, <1>5, <1>6, <1>7, <1>8 DEF KernelNext

(* The invariant holds in every reachable state.                           *)
THEOREM KernelInvariant == KernelSpec => []KernelInv({})
  BY KernelInitInv, KernelStepInv, PTL DEF KernelSpec

(* Type correctness of the scheduler.                                      *)
THEOREM KernelTypeCorrect == KernelSpec => []KernelTypeOK
<1>1. KernelInv({}) => KernelTypeOK
  BY DEF KernelInv
<1> QED
  BY <1>1, KernelInvariant, PTL

(* Every live thread is in exactly one place, whatever the number of       *)
(* threads and their priorities (the comment of tcbReadyQ).                *)
THEOREM KernelPlacementHolds == KernelSpec => []KernelPlacement
<1>1. KernelInv({}) => KernelPlacement
  BY DEF KernelInv, SchedInv, KernelPlacement
<1> QED
  BY <1>1, KernelInvariant, PTL

(* atomSched always finds a thread to switch to: curr_tcb is never NULL    *)
(* once the OS is started.                                                 *)
THEOREM CurrNeverNullHolds == KernelSpec => []CurrNeverNull
<1>1. KernelInv({}) => CurrNeverNull
  BY DEF KernelInv, SchedInv, CurrNeverNull
<1> QED
  BY <1>1, KernelInvariant, PTL

(* The ready queue stays in priority order.                                *)
THEOREM ReadyQueueOrderedHolds == KernelSpec => []ReadyQueueOrdered
<1>1. KernelInv({}) => ReadyQueueOrdered
  BY DEF KernelInv, SchedInv, ReadyQueueOrdered
<1> QED
  BY <1>1, KernelInvariant, PTL

-----------------------------------------------------------------------------

(* A reschedule that is not for a time slice and switches away from a      *)
(* thread that is still ready does so for a higher priority.               *)
LEMMA PreemptedByHigher ==
    ASSUME NEW W, KernelInv(W), started, atomSched(FALSE), curr' # curr,
           ~ suspended[curr], ~ terminated[curr]
    PROVE  Prio[curr'] < Prio[curr]
<1>1. SchedReady(FALSE)
  BY DEF atomSched, SchedSuspended
<1>2. readyQ # <<>> /\ Prio[Head(readyQ)] <= LowestAllowed(FALSE)
  BY <1>1 DEF SchedReady, tcbDequeuePriority
<1>3. Head(readyQ) \in Threads /\ curr \in Threads /\ Head(readyQ) # Null
  BY <1>2, TailProperties, ThreadsAssumption DEF KernelInv, SchedInv
<1>4. curr' = Head(readyQ)
  BY <1>1, <1>2, <1>3 DEF SchedReady, tcbDequeuePriority, atomThreadSwitch
<1> QED
  BY <1>2, <1>3, <1>4, PrioIsInt DEF LowestAllowed

(* The step of TimeSliceOnlyOnTick, for one step of the scheduler.         *)
LEMMA TimeSliceStep ==
    ASSUME KernelInv({}), KernelNext, started, curr' # curr, intr # "tick",
           ~ suspended[curr], ~ terminated[curr]
    PROVE  Prio[curr'] < Prio[curr]
<1>1. CASE \E t \in AppThreads : Resched(t) \/ ThreadExitSched(t)
  <2>1. atomSched(FALSE)
    BY <1>1 DEF Resched, ThreadExitSched, CallSched
  <2> QED
    BY <2>1, PreemptedByHigher
<1>2. CASE IrqExit
  <2>1. atomSched(FALSE)
    BY <1>2 DEF IrqExit, atomIntExit
  <2> QED
    BY <2>1, PreemptedByHigher
<1> QED
  BY <1>1, <1>2 DEF KernelNext, atomOSStart, atomThreadCreate, ThreadExit, IrqEnter, TickEnter,
                    atomIntEnter, TickExit, atomIntExit

(* Round-robin only on timer ticks: any other switch away from a ready     *)
(* thread is for one of higher priority.                                   *)
THEOREM TimeSliceOnlyOnTickHolds == KernelSpec => TimeSliceOnlyOnTick
<1>1. KernelInv({}) /\ [KernelNext]_kernelVars =>
        [ started /\ curr' # curr /\ intr # "tick"
             => \/ suspended[curr] \/ terminated[curr]
                \/ Prio[curr'] < Prio[curr] ]_kernelVars
  BY TimeSliceStep DEF kernelVars
<1> QED
  BY <1>1, KernelInvariant, PTL DEF KernelSpec, TimeSliceOnlyOnTick

-----------------------------------------------------------------------------

(* A step of the scheduler after which the current thread is in its own    *)
(* code leaves no ready thread of a higher priority behind.                *)
LEMMA HighestPriorityStep ==
    ASSUME KernelInv({}), HighestPriorityRuns, KernelNext
    PROVE  HighestPriorityRuns'
<1>1. CASE \/ \E t \in AppThreads : Resched(t) \/ ThreadExitSched(t)
           \/ IrqExit \/ TickExit
  <2>1. started /\ \E tick \in BOOLEAN : atomSched(tick)
    BY <1>1, ThreadsAssumption
       DEF AppThreads, Resched, ThreadExitSched, CallSched, IrqExit, TickExit, atomIntExit,
           atomCurrentContext, KernelInv, ContextInv
  <2>2. \A t \in Range(readyQ') : Prio[curr'] <= Prio[t]
    BY <2>1, SchedEffect DEF KernelInv, KernelTypeOK
  <2> QED
    BY <2>2 DEF HighestPriorityRuns, HighestPriority, ReadyThreads
<1>2. CASE atomOSStart
  BY <1>2, OSStartHighest DEF HighestPriorityRuns, HighestPriority
<1>3. ASSUME NEW c \in Contexts, NEW t \in AppThreads, MayCall(c), atomThreadCreate(c, t)
      PROVE  HighestPriorityRuns'
  <2>1. UNCHANGED <<curr, started, intr>>
    BY <1>3 DEF atomThreadCreate
  <2>2. CASE c = Null
    BY <1>3, <2>1, <2>2, ThreadsAssumption
       DEF MayCall, atomCurrentContext, KernelInv, SchedInv, HighestPriorityRuns, HighestPriority
  <2>3. CASE c # Null
    <3>1. c = curr /\ c \in Threads /\ pc[c] = "app" /\ intr = "none" /\ started
      BY <1>3, <2>3 DEF MayCall, atomCurrentContext, Contexts, KernelInv, ContextInv
    <3>2. t # c
      BY <1>3, <3>1 DEF atomThreadCreate
    <3>3. pc'[curr'] = "resched"
      BY <1>3, <2>1, <3>1, <3>2 DEF atomThreadCreate
    <3> QED
      BY <3>3 DEF HighestPriorityRuns, HighestPriority
  <2> QED
    BY <2>2, <2>3
<1>4. ASSUME NEW t \in AppThreads, ThreadExit(t) PROVE HighestPriorityRuns'
  <2>1. t = curr /\ curr' = curr /\ pc'[t] = "exit"
    BY <1>4, ThreadsAssumption
       DEF AppThreads, ThreadExit, MayCall, atomCurrentContext, KernelInv, KernelTypeOK
  <2> QED
    BY <2>1 DEF HighestPriorityRuns, HighestPriority
<1>5. CASE IrqEnter \/ TickEnter
  BY <1>5 DEF IrqEnter, TickEnter, atomIntEnter, HighestPriorityRuns, HighestPriority
<1> QED
  BY <1>1, <1>2, <1>3, <1>4, <1>5 DEF KernelNext

(* No ready thread has a higher priority than the one that runs its own    *)
(* code.                                                                   *)
THEOREM HighestPriorityRunsHolds == KernelSpec => []HighestPriorityRuns
<1>1. KernelInit => HighestPriorityRuns
  BY DEF KernelInit, HighestPriorityRuns, HighestPriority
<1>2. KernelInv({}) /\ HighestPriorityRuns /\ [KernelNext]_kernelVars => HighestPriorityRuns'
  <2>1. UNCHANGED kernelVars /\ HighestPriorityRuns => HighestPriorityRuns'
    BY DEF kernelVars, HighestPriorityRuns, HighestPriority, RunningThreads, ReadyThreads
  <2> QED
    BY <2>1, HighestPriorityStep
<1> QED
  BY <1>1, <1>2, KernelInvariant, PTL DEF KernelSpec

-----------------------------------------------------------------------------

(* Of two threads of the same priority of which the one behind was on the  *)
(* queue q already, the one in front was too, and was in front.            *)
FifoKept(q, r) ==
    \A k, l \in 1..Len(r) :
        /\ k < l
        /\ Prio[r[k]] = Prio[r[l]]
        /\ r[l] \in Range(q)
        => \E i, j \in 1..Len(q) : i < j /\ q[i] = r[k] /\ q[j] = r[l]

LEMMA FifoSame == ASSUME NEW q PROVE FifoKept(q, q)
  BY DEF FifoKept

LEMMA FifoEnqueue ==
    ASSUME NEW q \in Seq(Threads), PriorityOrdered(q), NEW t \in Threads, t \notin Range(q)
    PROVE  FifoKept(q, tcbEnqueuePriority(q, t))
<1>1. PICK r : r = tcbEnqueuePriority(q, t)
  OBVIOUS
<1>2. PICK k \in 1..(Len(q)+1) :
         /\ Len(r) = Len(q) + 1
         /\ \A i \in 1..(Len(q)+1) :
               r[i] = IF i < k THEN q[i] ELSE IF i = k THEN t ELSE q[i-1]
         /\ \A i \in 1..Len(q) : k <= i => Prio[q[i]] > Prio[t]
  BY <1>1, EnqueuePlace
<1>3. ASSUME NEW a \in 1..Len(r), NEW b \in 1..Len(r), a < b, Prio[r[a]] = Prio[r[b]],
             r[b] \in Range(q)
      PROVE  \E i, j \in 1..Len(q) : i < j /\ q[i] = r[a] /\ q[j] = r[b]
  <2>1. Len(q) \in Nat /\ a \in 1..(Len(q)+1) /\ b \in 1..(Len(q)+1)
    BY <1>2, InRange
  <2>2. b # k
    BY <1>2, <1>3, <2>1
  <2>3. a # k
    <3> SUFFICES ASSUME a = k PROVE FALSE
      OBVIOUS
    <3>1. r[a] = t /\ b - 1 \in 1..Len(q) /\ k <= b - 1 /\ r[b] = q[b-1]
      BY <1>2, <1>3, <2>1
    <3>2. Prio[q[b-1]] > Prio[t] /\ Prio[t] \in Int
      BY <1>2, <3>1, PrioAssumption
    <3> QED
      BY <1>3, <3>1, <3>2
  <2>4. PICK i \in 1..Len(q) : r[a] = q[i] /\ i = IF a < k THEN a ELSE a - 1
    BY <1>2, <1>3, <2>1, <2>3
  <2>5. PICK j \in 1..Len(q) : r[b] = q[j] /\ j = IF b < k THEN b ELSE b - 1
    BY <1>2, <1>3, <2>1, <2>2
  <2>6. i < j
    BY <1>2, <1>3, <2>1, <2>2, <2>3, <2>4, <2>5
  <2> QED
    BY <2>4, <2>5, <2>6
<1> QED
  BY <1>1, <1>3 DEF FifoKept

(* The head is taken off, and a thread that was not queued put on.         *)
LEMMA FifoDequeue ==
    ASSUME NEW q \in Seq(Threads), q # <<>>, PriorityOrdered(q)
    PROVE  /\ FifoKept(q, Tail(q))
           /\ \A t \in Threads : t \notin Range(q) =>
                  FifoKept(q, tcbEnqueuePriority(Tail(q), t))
<1>1. PICK p : p = Tail(q)
  OBVIOUS
<1>2. /\ Len(q) \in Nat /\ Len(p) = Len(q) - 1 /\ p \in Seq(Threads)
      /\ \A i \in 1..Len(p) : p[i] = q[i+1]
  BY <1>1, InRange
<1>3. \A i, j \in 1..Len(p) : i < j =>
          \E a, b \in 1..Len(q) : a < b /\ q[a] = p[i] /\ q[b] = p[j]
  <2> SUFFICES ASSUME NEW i \in 1..Len(p), NEW j \in 1..Len(p), i < j
               PROVE  \E a, b \in 1..Len(q) : a < b /\ q[a] = p[i] /\ q[b] = p[j]
    OBVIOUS
  <2>1. i + 1 \in 1..Len(q) /\ j + 1 \in 1..Len(q) /\ i + 1 < j + 1
    BY <1>2
  <2> QED
    BY <1>2, <2>1
<1>4. FifoKept(q, p)
  BY <1>3 DEF FifoKept
<1>5. PriorityOrdered(p) /\ Range(p) \subseteq Range(q)
  BY <1>1, TailOrdered, TailProperties
<1>6. ASSUME NEW t \in Threads, t \notin Range(q)
      PROVE  FifoKept(q, tcbEnqueuePriority(p, t))
  <2>1. PICK r : r = tcbEnqueuePriority(p, t)
    OBVIOUS
  <2>2. FifoKept(p, r)
    BY <1>2, <1>5, <1>6, <2>1, FifoEnqueue
  <2>3. r \in Seq(Threads) /\ Range(r) = Range(p) \cup {t}
    BY <1>2, <2>1, EnqueueProperties
  <2>4. ASSUME NEW k \in 1..Len(r), NEW l \in 1..Len(r), k < l, Prio[r[k]] = Prio[r[l]],
               r[l] \in Range(q)
        PROVE  \E i, j \in 1..Len(q) : i < j /\ q[i] = r[k] /\ q[j] = r[l]
    <3>1. r[l] \in Range(p)
      BY <1>6, <2>3, <2>4, InRange
    <3>2. PICK i, j \in 1..Len(p) : i < j /\ p[i] = r[k] /\ p[j] = r[l]
      BY <2>2, <2>4, <3>1 DEF FifoKept
    <3>3. PICK a, b \in 1..Len(q) : a < b /\ q[a] = p[i] /\ q[b] = p[j]
      BY <1>3, <3>2
    <3> QED
      BY <3>2, <3>3
  <2> QED
    BY <2>1, <2>4 DEF FifoKept
<1> QED
  BY <1>1, <1>4, <1>6

(* A reschedule.                                                           *)
LEMMA SchedFifo ==
    ASSUME NEW W, KernelInv(W), started, NEW tick \in BOOLEAN, atomSched(tick)
    PROVE  FifoKept(readyQ, readyQ')
<1>1. readyQ \in Seq(Threads) /\ PriorityOrdered(readyQ) /\ curr \in Threads
  BY DEF KernelInv, SchedInv
<1>2. readyQ # <<>> => Head(readyQ) \in Threads /\ Head(readyQ) # Null
  BY <1>1, TailProperties, ThreadsAssumption
<1>3. CASE SchedSuspended
  <2>1. readyQ' = readyQ \/ (readyQ # <<>> /\ readyQ' = Tail(readyQ))
    BY <1>3 DEF SchedSuspended, tcbDequeueHead
  <2> QED
    BY <1>1, <2>1, FifoSame, FifoDequeue
<1>4. CASE SchedReady(tick)
  <2>1. curr \notin Range(readyQ)
    BY <1>1, <1>4 DEF SchedReady, KernelInv, SchedInv, Placement, RunningThreads, ReadyThreads
  <2>2. \/ readyQ' = readyQ
        \/ readyQ # <<>> /\ readyQ' = tcbEnqueuePriority(Tail(readyQ), curr)
    BY <1>2, <1>4 DEF SchedReady, tcbDequeuePriority
  <2> QED
    BY <1>1, <2>1, <2>2, FifoSame, FifoDequeue
<1> QED
  BY <1>3, <1>4 DEF atomSched

LEMMA FifoStep ==
    ASSUME KernelInv({}), [KernelNext]_kernelVars
    PROVE  FifoKept(readyQ, readyQ')
<1>1. readyQ \in Seq(Threads) /\ PriorityOrdered(readyQ)
  BY DEF KernelInv, SchedInv
<1>2. CASE \/ \E t \in AppThreads : Resched(t) \/ ThreadExitSched(t)
           \/ IrqExit \/ TickExit
  <2>1. started /\ \E tick \in BOOLEAN : atomSched(tick)
    BY <1>2, ThreadsAssumption
       DEF AppThreads, Resched, ThreadExitSched, CallSched, IrqExit, TickExit, atomIntExit,
           atomCurrentContext, KernelInv, ContextInv
  <2> QED
    BY <2>1, SchedFifo
<1>3. CASE atomOSStart
  <2>1. readyQ' = readyQ \/ (readyQ # <<>> /\ readyQ' = Tail(readyQ))
    BY <1>3 DEF atomOSStart, tcbDequeuePriority
  <2> QED
    BY <1>1, <2>1, FifoSame, FifoDequeue
<1>4. ASSUME NEW c \in Contexts, NEW t \in AppThreads, atomThreadCreate(c, t)
      PROVE  FifoKept(readyQ, readyQ')
  <2>1. t \in Threads /\ readyQ' = tcbEnqueuePriority(readyQ, t)
    BY <1>4 DEF atomThreadCreate, AppThreads
  <2>2. t \notin Range(readyQ)
    BY <1>4, <2>1, QueuedNotTerminated DEF atomThreadCreate, KernelInv, ReadyThreads
  <2> QED
    BY <1>1, <2>1, <2>2, FifoEnqueue
<1>5. CASE \/ \E t \in AppThreads : ThreadExit(t)
           \/ IrqEnter \/ TickEnter
           \/ UNCHANGED kernelVars
  BY <1>5, FifoSame DEF ThreadExit, IrqEnter, TickEnter, atomIntEnter, kernelVars
<1> QED
  BY <1>2, <1>3, <1>4, <1>5 DEF KernelNext

(* Ready threads of the same priority are in the order in which they       *)
(* became ready, for any number of threads: no reschedule, time slice or   *)
(* creation puts one in front of another that was ready before.            *)
THEOREM ReadyFifoHolds == KernelSpec => ReadyFifo
<1>1. KernelInv({}) /\ [KernelNext]_kernelVars =>
        [ \A k, l \in 1..Len(readyQ') :
            /\ k < l
            /\ Prio[readyQ'[k]] = Prio[readyQ'[l]]
            /\ readyQ'[l] \in ReadyThreads
            => \E i, j \in 1..Len(readyQ) :
                  i < j /\ readyQ[i] = readyQ'[k] /\ readyQ[j] = readyQ'[l] ]_kernelVars
  BY FifoStep DEF FifoKept, ReadyThreads
<1> QED
  BY <1>1, KernelInvariant, PTL DEF KernelSpec, ReadyFifo
=============================================================================
