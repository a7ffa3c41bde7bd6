----------------------------- MODULE LinksProofs -----------------------------
(***************************************************************************)
(* Theorems about the lists as they are in memory: the links of the TCBs   *)
(* hold the lists of TcbQueue and those of the timers hold the timer list  *)
(* and the callback list, whatever operations were made on them; the       *)
(* countdown of the timer list lets every timer fall due on the tick it    *)
(* was registered for.                                                     *)
(***************************************************************************)
EXTENDS TcbLinks, AtomTimerLinks, AtomSuspendProofs, FiniteSetTheorems


(* What is on a list at an index, or the NULL pointer beside it.           *)
At(s, i) == IF i \in 1..Len(s) THEN s[i] ELSE Null
Pointers == Threads \cup {Null}
Links == [Threads -> Pointers]

(* The links from first on, and the back links, hold the sequence s.       *)
Linked(first, chain, s) ==
    /\ first = At(s, 1)
    /\ \A i \in 1..Len(s) : chain[s[i]] = At(s, i + 1)
BackLinked(chain, s) == \A i \in 1..Len(s) : chain[s[i]] = At(s, i - 1)

(* The heads h and the links nx and bk hold the lists Q.                   *)
Lined(Q, h, nx, bk) ==
    /\ Q \in [Queues -> Seq(Threads)]
    /\ h \in [Queues -> Pointers]
    /\ nx \in Links /\ bk \in Links
    /\ \A q \in Queues : /\ NoDuplicates(Q[q])
                         /\ Linked(h[q], nx, Q[q]) /\ BackLinked(bk, Q[q])
    /\ \A q, r \in Queues : q # r => Range(Q[q]) \cap Range(Q[r]) = {}
    /\ \A t \in Threads :
          (\A q \in Queues : t \notin Range(Q[q])) => nx[t] = Null /\ bk[t] = Null

(* The links before and after a TCB t is linked in at index k of s ...      *)
LinkingIn(s, k, t, nx, bk, nx2, bk2) ==
    /\ nx2 \in Links /\ bk2 \in Links
    /\ \A x \in Threads :
          /\ nx2[x] = IF x = At(s, k - 1) THEN t ELSE IF x = t THEN At(s, k) ELSE nx[x]
          /\ bk2[x] = IF x = At(s, k) THEN t ELSE IF x = t THEN At(s, k - 1) ELSE bk[x]

(* ... and before and after the TCB at index k of s is linked out. *)
LinkingOut(s, k, nx, bk, nx2, bk2) ==
    /\ nx2 \in Links /\ bk2 \in Links
    /\ \A x \in Threads :
          /\ nx2[x] = IF x = s[k] THEN Null
                      ELSE IF x = At(s, k - 1) THEN At(s, k + 1) ELSE nx[x]
          /\ bk2[x] = IF x = s[k] THEN Null
                      ELSE IF x = At(s, k + 1) THEN At(s, k - 1) ELSE bk[x]

(* List q changes from Q[q] to Q2[q], and nothing else in memory does.     *)
OneList(q, Q, h, nx, bk, Q2, h2, nx2, bk2) ==
    /\ Q2 \in [Queues -> Seq(Threads)] /\ h2 \in [Queues -> Pointers]
    /\ nx2 \in Links /\ bk2 \in Links
    /\ \A r \in Queues : r # q => /\ Q2[r] = Q[r] /\ h2[r] = h[r]
                                  /\ Range(Q2[q]) \cap Range(Q[r]) = {}
    /\ NoDuplicates(Q2[q]) /\ Linked(h2[q], nx2, Q2[q]) /\ BackLinked(bk2, Q2[q])
    /\ \A x \in Threads :
          /\ x \notin Range(Q[q]) /\ x \notin Range(Q2[q]) =>
                nx2[x] = nx[x] /\ bk2[x] = bk[x]
          /\ x \in Range(Q[q]) /\ x \notin Range(Q2[q]) =>
                nx2[x] = Null /\ bk2[x] = Null

(* A walk along the list s of N + 1 pointers, and where it is at NULL.     *)
WalkRule(ptr, N, first, chain) ==
    ptr = [i \in 0..N |-> IF i = 0 THEN first
                          ELSE IF ptr[i-1] = Null THEN Null ELSE chain[ptr[i-1]]]
WalkAlong(ptr, N, s) == \A i \in 0..N : ptr[i] = At(s, i + 1)
NullsOf(ends, ptr, N) ==
    ends \in SUBSET (0..N) /\ \A i \in 0..N : i \in ends <=> ptr[i] = Null

LEMMA AtOf ==
    ASSUME NEW S, Null \notin S, NEW s \in Seq(S), NEW i \in Int
    PROVE  /\ At(s, i) \in S \cup {Null}
           /\ At(s, i) # Null <=> i \in 1..Len(s)
           /\ i \in 1..Len(s) => At(s, i) = s[i] /\ s[i] \in S
           /\ i \notin 1..Len(s) => At(s, i) = Null
  BY ElementOfSeq DEF At

LEMMA AtProperties ==
    ASSUME NEW s \in Seq(Threads), NEW i \in Int
    PROVE  /\ At(s, i) \in Pointers
           /\ At(s, i) # Null <=> i \in 1..Len(s)
           /\ i \in 1..Len(s) => At(s, i) = s[i] /\ s[i] \in Threads
           /\ i \notin 1..Len(s) => At(s, i) = Null
  BY ThreadsAssumption, AtOf DEF Pointers

(* A list without duplicates is not longer than its set.                   *)
LEMMA ListFits ==
    ASSUME NEW S, IsFiniteSet(S), NEW s \in Seq(S), NoDuplicates(s)
    PROVE  Len(s) <= Cardinality(S) /\ Cardinality(S) \in Nat
<1>1. PICK n \in Nat : n = Len(s)
  BY LenProperties
<1>2. IsFiniteSet(1..n) /\ Cardinality(1..n) = n
  BY FS_Interval
<1>3. s \in Injection(1..n, S)
  <2>1. s \in [1..n -> S]
    BY <1>1
  <2>2. \A a, b \in 1..n : s[a] = s[b] => a = b
    BY <1>1 DEF NoDuplicates
  <2> QED
    BY <2>1, <2>2 DEF Injection, IsInjective
<1> QED
  BY <1>1, <1>2, <1>3, FS_Injection, FS_CardinalityType

(* A walk along links that hold a list, from its first element on, meets   *)
(* its elements, one by one, and NULL.                                     *)
LEMMA WalkedOne ==
    ASSUME NEW S, Null \notin S, NEW s \in Seq(S),
           NEW first, NEW chain, Linked(first, chain, s), NEW i \in Nat \ {0}
    PROVE  At(s, i + 1) = IF At(s, i) = Null THEN Null ELSE chain[At(s, i)]
<1>1. CASE i \in 1..Len(s)
  BY <1>1, AtOf DEF Linked
<1>2. CASE i \notin 1..Len(s)
  <2>1. i + 1 \notin 1..Len(s)
    BY <1>2
  <2> QED
    BY <1>2, <2>1 DEF At
<1> QED
  BY <1>1, <1>2

LEMMA Walked ==
    ASSUME NEW S, Null \notin S, NEW s \in Seq(S), NEW N \in Nat, Len(s) <= N,
           NEW first, NEW chain, Linked(first, chain, s),
           NEW ptr, WalkRule(ptr, N, first, chain)
    PROVE  DOMAIN ptr = 0..N /\ WalkAlong(ptr, N, s)
<1>0. /\ DOMAIN ptr = 0..N
      /\ \A i \in 0..N : ptr[i] = IF i = 0 THEN first
                                   ELSE IF ptr[i-1] = Null THEN Null ELSE chain[ptr[i-1]]
  BY DEF WalkRule
<1>1. ASSUME NEW i \in 0..N, ptr[i] # At(s, i + 1) PROVE FALSE
  <2> DEFINE Wrong == { j \in 0..N : ptr[j] # At(s, j + 1) }
  <2>1. PICK j \in Wrong : \A k \in Wrong : j <= k
    <3>1. Wrong \in SUBSET Nat
      OBVIOUS
    <3>2. i \in Wrong
      BY <1>1
    <3> HIDE DEF Wrong
    <3> QED
      BY <3>1, <3>2, MinNat
  <2>2. j \in 0..N /\ ptr[j] # At(s, j + 1) /\ j # 0
    BY <1>0, <2>1 DEF Linked
  <2>3. j - 1 \in 0..N /\ j - 1 \notin Wrong /\ (j - 1) + 1 = j
    BY <2>1, <2>2
  <2>4. ptr[j-1] = At(s, j)
    BY <2>3
  <2>5. ptr[j] = IF At(s, j) = Null THEN Null ELSE chain[At(s, j)]
    BY <1>0, <2>2, <2>4
  <2>6. ptr[j] = At(s, j + 1)
    BY <2>2, <2>5, WalkedOne
  <2> QED
    BY <2>2, <2>6
<1> QED
  BY <1>0, <1>1 DEF WalkAlong

LEMMA WalkExists ==
    ASSUME NEW S, Null \notin S, NEW s \in Seq(S), NEW N \in Nat,
           NEW first, NEW chain, Linked(first, chain, s)
    PROVE  \E ptr : WalkRule(ptr, N, first, chain)
<1>1. PICK f : f = [i \in 0..N |-> At(s, i + 1)]
  OBVIOUS
<1>2. ASSUME NEW i \in 0..N
      PROVE  At(s, i + 1) = IF i = 0 THEN first
                            ELSE IF f[i-1] = Null THEN Null ELSE chain[f[i-1]]
  <2>1. CASE i = 0
    BY <2>1 DEF Linked
  <2>2. CASE i # 0
    <3>1. i - 1 \in 0..N /\ (i - 1) + 1 = i /\ i \in Nat \ {0}
      BY <2>2
    <3>2. f[i-1] = At(s, i)
      BY <1>1, <3>1
    <3> QED
      BY <2>2, <3>1, <3>2, WalkedOne
  <2> QED
    BY <2>1, <2>2
<1>3. f = [i \in 0..N |-> IF i = 0 THEN first
                          ELSE IF f[i-1] = Null THEN Null ELSE chain[f[i-1]]]
  BY <1>1, <1>2
<1> QED
  BY <1>3 DEF WalkRule

(* It ends where the list does. *)
LEMMA WalkEnds ==
    ASSUME NEW S, Null \notin S, NEW s \in Seq(S), NEW N \in Nat, Len(s) <= N,
           NEW ptr, WalkAlong(ptr, N, s), NEW ends, NullsOf(ends, ptr, N)
    PROVE  /\ Min(ends) = Len(s) /\ N \in ends
           /\ \A i \in 1..Len(s) : ptr[i-1] = s[i]
<1>1. PICK n \in Nat : n = Len(s)
  BY LenProperties
<1>2. \A i \in 0..N : i \in ends <=> i >= n
  <2> TAKE i \in 0..N
  <2>1. At(s, i + 1) # Null <=> i + 1 \in 1..n
    BY <1>1, AtOf
  <2> QED
    BY <2>1 DEF NullsOf, WalkAlong
<1>3. Min(ends) = n /\ N \in ends
  <2>1. ends \in SUBSET Nat /\ n \in ends /\ N \in ends
    BY <1>1, <1>2 DEF NullsOf
  <2>2. Min(ends) \in ends /\ \A y \in ends : Min(ends) <= y
    BY <2>1, MinNat
  <2>3. PICK e : e = Min(ends)
    OBVIOUS
  <2>4. e \in 0..N /\ e \in ends /\ e <= n
    BY <2>1, <2>2, <2>3 DEF NullsOf
  <2>5. e \in Nat /\ e >= n
    BY <1>2, <2>4
  <2> QED
    BY <2>1, <2>3, <2>4, <2>5
<1>4. \A i \in 1..n : ptr[i-1] = s[i]
  <2> TAKE i \in 1..n
  <2>1. i - 1 \in 0..N /\ (i - 1) + 1 = i
    BY <1>1
  <2>2. ptr[i-1] = At(s, i)
    BY <2>1 DEF WalkAlong
  <2> QED
    BY <1>1, <2>2 DEF At
<1> QED
  BY <1>1, <1>3, <1>4

LEMMA WalkIs ==
    ASSUME NEW q \in Queues, NEW s \in Seq(Threads), NoDuplicates(s),
           Linked(head[q], next, s)
    PROVE  /\ DOMAIN Walk(q) = 0..Cardinality(Threads)
           /\ WalkAlong(Walk(q), Cardinality(Threads), s)
<1>1. PICK N \in Nat : N = Cardinality(Threads) /\ Len(s) <= N
  BY ListFits, TcbsAssumption
<1>2. Walk(q) = CHOOSE ptr : WalkRule(ptr, N, head[q], next)
  BY <1>1 DEF Walk, WalkRule
<1>3. \E ptr : WalkRule(ptr, N, head[q], next)
  BY ThreadsAssumption, WalkExists
<1>4. WalkRule(Walk(q), N, head[q], next)
  BY <1>2, <1>3
<1>5. PICK ptr : ptr = Walk(q)
  OBVIOUS
<1>6. DOMAIN ptr = 0..N /\ WalkAlong(ptr, N, s)
  BY <1>1, <1>4, <1>5, ThreadsAssumption, Walked
<1> QED
  BY <1>1, <1>5, <1>6

(* So the sequence that the links stand for is that list. *)
LEMMA AsSequenceIs ==
    ASSUME NEW q \in Queues, NEW s \in Seq(Threads), NoDuplicates(s),
           Linked(head[q], next, s)
    PROVE  /\ AsSequence(q) = s
           /\ OnList(q) = Range(s)
<1>1. PICK N \in Nat : N = Cardinality(Threads) /\ Len(s) <= N
  BY ListFits, TcbsAssumption
<1>2. PICK n \in Nat : n = Len(s)
  BY LenProperties
<1>3. PICK ptr : ptr = Walk(q)
  OBVIOUS
<1>4. DOMAIN ptr = 0..N /\ \A i \in 0..N : ptr[i] = At(s, i + 1)
  BY <1>1, <1>3, WalkIs DEF WalkAlong
<1>9. AsSequence(q) = s
  <2> DEFINE ends == { i \in DOMAIN Walk(q) : Walk(q)[i] = Null }
  <2>1. AsSequence(q) = [i \in 1..Min(ends) |-> Walk(q)[i-1]]
    BY DEF AsSequence
  <2>2. ends \in SUBSET (0..N) /\ \A i \in 0..N : i \in ends <=> ptr[i] = Null
    BY <1>3, <1>4
  <2> HIDE DEF ends
  <2>3. Null \notin Threads /\ N \in Nat /\ Len(s) <= N /\ WalkAlong(ptr, N, s)
    BY <1>1, <1>4, ListFits, TcbsAssumption, ThreadsAssumption DEF WalkAlong
  <2>4. PICK e : e = ends
    OBVIOUS
  <2>5. NullsOf(e, ptr, N)
    BY <2>2, <2>4 DEF NullsOf
  <2>6. Min(e) = Len(s)
    BY <2>3, <2>5, WalkEnds
  <2>7. \A i \in 1..Len(s) : ptr[i-1] = s[i]
    BY <2>3, <2>5, WalkEnds
  <2> QED
    BY <1>2, <1>3, <2>1, <2>4, <2>6, <2>7
<1>10. OnList(q) = Range(s)
  <2>1. \A x : x \in OnList(q) <=> x # Null /\ \E i \in 0..N : At(s, i + 1) = x
    BY <1>3, <1>4 DEF OnList, Range
  <2>2. ASSUME NEW x, x \in OnList(q) PROVE x \in Range(s)
    <3>1. PICK i \in 0..N : At(s, i + 1) = x /\ x # Null
      BY <2>1, <2>2
    <3>2. i + 1 \in 1..Len(s) /\ x = s[i+1]
      BY <3>1, AtProperties
    <3> QED
      BY <3>2, InRange
  <2>3. ASSUME NEW x, x \in Range(s) PROVE x \in OnList(q)
    <3>1. PICK i \in 1..Len(s) : s[i] = x
      BY <2>3, InRange
    <3>2. i - 1 \in 0..N /\ (i - 1) + 1 = i
      BY <1>1, <1>2
    <3>3. At(s, i) = x /\ x # Null
      BY <3>1, AtProperties
    <3> QED
      BY <2>1, <3>2, <3>3
  <2> QED
    BY <2>2, <2>3
<1> QED
  BY <1>9, <1>10

(* A TCB is linked in at index k ...                                       *)
LEMMA LinkedIn ==
    ASSUME NEW s \in Seq(Threads), NoDuplicates(s), NEW t \in Threads, t \notin Range(s),
           NEW k \in 1..(Len(s)+1),
           NEW first, NEW nx, NEW bk, Linked(first, nx, s), BackLinked(bk, s),
           NEW nx2, NEW bk2, LinkingIn(s, k, t, nx, bk, nx2, bk2)
    PROVE  /\ Linked(IF k = 1 THEN t ELSE first, nx2, InsertAt(s, k, t))
           /\ BackLinked(bk2, InsertAt(s, k, t))
           /\ \A x \in Threads : x # t /\ x \notin Range(s) =>
                 nx2[x] = nx[x] /\ bk2[x] = bk[x]
<1>1. PICK n \in Nat : n = Len(s)
  BY LenProperties
<1>2. PICK new : new = InsertAt(s, k, t)
  OBVIOUS
<1>3. /\ new \in Seq(Threads) /\ Len(new) = n + 1
      /\ \A i \in 1..(n+1) : new[i] = IF i < k THEN s[i] ELSE IF i = k THEN t ELSE s[i-1]
  <2>1. /\ InsertAt(s, k, t) \in Seq(Threads) /\ Len(InsertAt(s, k, t)) = Len(s) + 1
        /\ \A i \in 1..(Len(s)+1) :
              InsertAt(s, k, t)[i] = IF i < k THEN s[i] ELSE IF i = k THEN t ELSE s[i-1]
    BY InsertAtProperties
  <2> QED
    BY <1>1, <1>2, <2>1
<1>4. PICK p \in Pointers : p = At(s, k - 1)
  BY AtProperties
<1>5. PICK m \in Pointers : m = At(s, k)
  BY AtProperties
<1>6. /\ \A i \in 1..n : s[i] \in Threads /\ s[i] # t /\ s[i] # Null
      /\ t # Null
      /\ \A i, j \in 1..n : s[i] = s[j] => i = j
  BY <1>1, InRange, ThreadsAssumption DEF NoDuplicates
<1>7. /\ k \in 1..(n+1)
      /\ k = 1 => p = Null
      /\ k # 1 => k - 1 \in 1..n /\ p = s[k-1]
      /\ k = n + 1 => m = Null
      /\ k # n + 1 => k \in 1..n /\ m = s[k]
  BY <1>1, <1>4, <1>5 DEF At
<1>11. p # t /\ m # t
  BY <1>6, <1>7
<1>8. \A x \in Threads : nx2[x] = IF x = p THEN t ELSE IF x = t THEN m ELSE nx[x]
  BY <1>4, <1>5 DEF LinkingIn
<1>9. \A x \in Threads : bk2[x] = IF x = m THEN t ELSE IF x = t THEN p ELSE bk[x]
  BY <1>4, <1>5 DEF LinkingIn
<1>10. \A i \in 1..n : nx[s[i]] = At(s, i + 1) /\ bk[s[i]] = At(s, i - 1)
  BY <1>1 DEF Linked, BackLinked
<1>12. ASSUME NEW i \in 1..(n+1) PROVE nx2[new[i]] = At(new, i + 1)
  <2>1. CASE i = k
    <3>1. nx2[new[i]] = m
      <4>1. new[i] = t
        BY <1>3, <1>7, <2>1
      <4> QED
        BY <1>8, <1>11, <4>1
    <3>2. At(new, i + 1) = m
      BY <1>3, <1>7, <2>1 DEF At
    <3> QED
      BY <3>1, <3>2
  <2>2. CASE i < k
    <3>1. i \in 1..n /\ new[i] = s[i] /\ s[i] \in Threads /\ s[i] # t
      BY <1>3, <1>6, <1>7, <2>2
    <3>2. CASE i = k - 1
      <4>1. s[i] = p /\ At(new, i + 1) = t
        BY <1>3, <1>7, <2>2, <3>1, <3>2 DEF At
      <4> QED
        BY <1>8, <3>1, <4>1
    <3>3. CASE i # k - 1
      <4>1. k # 1 /\ k - 1 \in 1..n /\ s[i] # p
        BY <1>6, <1>7, <2>2, <3>1, <3>3
      <4>2. At(new, i + 1) = s[i+1] /\ At(s, i + 1) = s[i+1]
        BY <1>1, <1>3, <2>2, <3>1, <3>3 DEF At
      <4> QED
        BY <1>8, <1>10, <3>1, <4>1, <4>2
    <3> QED
      BY <3>2, <3>3
  <2>3. CASE i > k
    <3>1. i - 1 \in 1..n /\ new[i] = s[i-1] /\ s[i-1] \in Threads /\ s[i-1] # t
      BY <1>3, <1>6, <2>3
    <3>2. s[i-1] # p
      <4>1. CASE k = 1
        BY <1>6, <1>7, <3>1, <4>1
      <4>2. CASE k # 1
        BY <1>6, <1>7, <2>3, <3>1, <4>2
      <4> QED
        BY <4>1, <4>2
    <3>3. nx2[new[i]] = At(s, i)
      <4>1. (i - 1) + 1 = i
        OBVIOUS
      <4>2. nx2[new[i]] = nx[s[i-1]]
        BY <1>8, <3>1, <3>2
      <4>3. nx[s[i-1]] = At(s, (i - 1) + 1)
        BY <1>10, <3>1
      <4> QED
        BY <4>1, <4>2, <4>3
    <3>4. At(new, i + 1) = At(s, i)
      <4>1. CASE i = n + 1
        BY <1>1, <1>3, <4>1 DEF At
      <4>2. CASE i # n + 1
        <5>1. i + 1 \in 1..(n+1) /\ i \in 1..n /\ (i + 1) - 1 = i /\ i + 1 > k
          BY <2>3, <4>2
        <5>2. new[i+1] = s[i]
          BY <1>3, <1>6, <5>1
        <5> QED
          BY <1>1, <1>3, <5>1, <5>2 DEF At
      <4> QED
        BY <4>1, <4>2
    <3> QED
      BY <3>3, <3>4
  <2> QED
    BY <2>1, <2>2, <2>3
<1>13. ASSUME NEW i \in 1..(n+1) PROVE bk2[new[i]] = At(new, i - 1)
  <2>1. CASE i = k
    <3>1. bk2[new[i]] = p
      <4>1. new[i] = t
        BY <1>3, <1>7, <2>1
      <4> QED
        BY <1>9, <1>11, <4>1
    <3>2. At(new, i - 1) = p
      BY <1>3, <1>7, <2>1 DEF At
    <3> QED
      BY <3>1, <3>2
  <2>2. CASE i < k
    <3>1. i \in 1..n /\ new[i] = s[i] /\ s[i] \in Threads /\ s[i] # t
      BY <1>3, <1>6, <1>7, <2>2
    <3>2. s[i] # m
      <4>1. CASE k = n + 1
        BY <1>6, <1>7, <3>1, <4>1
      <4>2. CASE k # n + 1
        BY <1>6, <1>7, <2>2, <3>1, <4>2
      <4> QED
        BY <4>1, <4>2
    <3>3. At(new, i - 1) = At(s, i - 1)
      BY <1>1, <1>3, <1>7, <2>2 DEF At
    <3> QED
      BY <1>9, <1>10, <3>1, <3>2, <3>3
  <2>3. CASE i > k
    <3>1. i - 1 \in 1..n /\ new[i] = s[i-1] /\ s[i-1] \in Threads /\ s[i-1] # t
      BY <1>3, <1>6, <2>3
    <3>2. CASE i = k + 1
      <4>1. s[i-1] = m /\ At(new, i - 1) = t
        BY <1>3, <1>7, <2>3, <3>1, <3>2 DEF At
      <4> QED
        BY <1>9, <3>1, <4>1
    <3>3. CASE i # k + 1
      <4>1. k # n + 1 /\ k \in 1..n /\ s[i-1] # m
        BY <1>6, <1>7, <2>3, <3>1, <3>3
      <4>2. At(new, i - 1) = At(s, (i - 1) - 1)
        BY <1>1, <1>3, <2>3, <3>1, <3>3 DEF At
      <4>3. bk[s[i-1]] = At(s, (i - 1) - 1)
        BY <1>10, <3>1
      <4>4. bk2[new[i]] = bk[s[i-1]]
        BY <1>9, <3>1, <4>1
      <4> QED
        BY <4>2, <4>3, <4>4
    <3> QED
      BY <3>2, <3>3
  <2> QED
    BY <2>1, <2>2, <2>3
<1>14. (IF k = 1 THEN t ELSE first) = At(new, 1)
  <2>1. CASE k = 1
    BY <1>3, <2>1 DEF At
  <2>2. CASE k # 1
    <3>1. first = At(s, 1)
      BY DEF Linked
    <3>2. At(new, 1) = At(s, 1)
      BY <1>1, <1>3, <1>7, <2>2 DEF At
    <3> QED
      BY <2>2, <3>1, <3>2
  <2> QED
    BY <2>1, <2>2
<1>15. ASSUME NEW x \in Threads, x # t, x \notin Range(s)
       PROVE  nx2[x] = nx[x] /\ bk2[x] = bk[x]
  <2>1. x # p /\ x # m
    BY <1>1, <1>7, <1>15, InRange, ThreadsAssumption
  <2> QED
    BY <1>8, <1>9, <1>15, <2>1
<1> QED
  BY <1>2, <1>3, <1>12, <1>13, <1>14, <1>15 DEF Linked, BackLinked

(* ... or linked out. *)
LEMMA LinkedOut ==
    ASSUME NEW s \in Seq(Threads), NoDuplicates(s), NEW k \in 1..Len(s),
           NEW first, NEW nx, NEW bk, Linked(first, nx, s), BackLinked(bk, s),
           NEW nx2, NEW bk2, LinkingOut(s, k, nx, bk, nx2, bk2)
    PROVE  /\ Linked(IF k = 1 THEN At(s, 2) ELSE first, nx2, RemoveAt(s, k))
           /\ BackLinked(bk2, RemoveAt(s, k))
           /\ \A x \in Threads : x \notin Range(s) => nx2[x] = nx[x] /\ bk2[x] = bk[x]
<1>1. PICK n \in Nat : n = Len(s)
  BY LenProperties
<1>2. PICK new : new = RemoveAt(s, k)
  OBVIOUS
<1>3. /\ new \in Seq(Threads) /\ Len(new) = n - 1
      /\ \A i \in 1..(n-1) : new[i] = IF i < k THEN s[i] ELSE s[i+1]
  <2>1. /\ RemoveAt(s, k) \in Seq(Threads) /\ Len(RemoveAt(s, k)) = Len(s) - 1
        /\ \A i \in 1..(Len(s)-1) : RemoveAt(s, k)[i] = IF i < k THEN s[i] ELSE s[i+1]
    BY RemoveAtProperties
  <2> QED
    BY <1>1, <1>2, <2>1
<1>4. PICK p \in Pointers : p = At(s, k - 1)
  BY AtProperties
<1>5. PICK m \in Pointers : m = At(s, k + 1)
  BY AtProperties
<1>6. PICK t \in Threads : t = s[k]
  BY InRange
<1>7. /\ \A i \in 1..n : s[i] \in Threads /\ s[i] # Null
      /\ \A i, j \in 1..n : s[i] = s[j] => i = j
      /\ t # Null /\ k \in 1..n
  BY <1>1, <1>6, InRange, ThreadsAssumption DEF NoDuplicates
<1>8. /\ k = 1 => p = Null
      /\ k # 1 => k - 1 \in 1..n /\ p = s[k-1]
      /\ k = n => m = Null
      /\ k # n => k + 1 \in 1..n /\ m = s[k+1]
  BY <1>1, <1>4, <1>5 DEF At
<1>9. \A x \in Threads : nx2[x] = IF x = t THEN Null ELSE IF x = p THEN m ELSE nx[x]
  BY <1>4, <1>5, <1>6 DEF LinkingOut
<1>10. \A x \in Threads : bk2[x] = IF x = t THEN Null ELSE IF x = m THEN p ELSE bk[x]
  BY <1>4, <1>5, <1>6 DEF LinkingOut
<1>11. \A i \in 1..n : nx[s[i]] = At(s, i + 1) /\ bk[s[i]] = At(s, i - 1)
  BY <1>1 DEF Linked, BackLinked
<1>12. ASSUME NEW i \in 1..(n-1) PROVE nx2[new[i]] = At(new, i + 1)
  <2>1. CASE i < k
    <3>1. i \in 1..n /\ new[i] = s[i] /\ s[i] \in Threads /\ s[i] # t
      BY <1>3, <1>6, <1>7, <2>1
    <3>2. CASE i = k - 1
      <4>1. s[i] = p /\ At(new, i + 1) = m
        BY <1>3, <1>8, <2>1, <3>1, <3>2 DEF At
      <4> QED
        BY <1>9, <3>1, <4>1
    <3>3. CASE i # k - 1
      <4>1. k # 1 /\ k - 1 \in 1..n /\ s[i] # p
        BY <1>7, <1>8, <2>1, <3>1, <3>3
      <4>2. At(new, i + 1) = s[i+1] /\ At(s, i + 1) = s[i+1]
        <5>1. i + 1 \in 1..(n-1) /\ i + 1 < k /\ i + 1 \in 1..n
          BY <1>7, <2>1, <3>1, <3>3
        <5>2. new[i+1] = s[i+1]
          BY <1>3, <5>1
        <5> QED
          BY <1>1, <1>3, <5>1, <5>2 DEF At
      <4> QED
        BY <1>9, <1>11, <3>1, <4>1, <4>2
    <3> QED
      BY <3>2, <3>3
  <2>2. CASE i >= k
    <3>1. i + 1 \in 1..n /\ new[i] = s[i+1] /\ s[i+1] \in Threads /\ s[i+1] # t
      BY <1>3, <1>6, <1>7, <2>2
    <3>2. s[i+1] # p
      <4>1. CASE k = 1
        BY <1>7, <1>8, <3>1, <4>1
      <4>2. CASE k # 1
        BY <1>7, <1>8, <2>2, <3>1, <4>2
      <4> QED
        BY <4>1, <4>2
    <3>3. At(new, i + 1) = At(s, (i + 1) + 1)
      BY <1>1, <1>3, <2>2 DEF At
    <3>4. nx[s[i+1]] = At(s, (i + 1) + 1)
      BY <1>11, <3>1
    <3>5. nx2[new[i]] = nx[s[i+1]]
      BY <1>9, <3>1, <3>2
    <3> QED
      BY <3>3, <3>4, <3>5
  <2> QED
    BY <2>1, <2>2
<1>13. ASSUME NEW i \in 1..(n-1) PROVE bk2[new[i]] = At(new, i - 1)
  <2>1. CASE i < k
    <3>1. i \in 1..n /\ new[i] = s[i] /\ s[i] \in Threads /\ s[i] # t
      BY <1>3, <1>6, <1>7, <2>1
    <3>2. s[i] # m
      <4>1. CASE k = n
        BY <1>7, <1>8, <3>1, <4>1
      <4>2. CASE k # n
        BY <1>7, <1>8, <2>1, <3>1, <4>2
      <4> QED
        BY <4>1, <4>2
    <3>3. At(new, i - 1) = At(s, i - 1)
      BY <1>1, <1>3, <1>7, <2>1 DEF At
    <3> QED
      BY <1>10, <1>11, <3>1, <3>2, <3>3
  <2>2. CASE i >= k
    <3>1. i + 1 \in 1..n /\ new[i] = s[i+1] /\ s[i+1] \in Threads /\ s[i+1] # t
      BY <1>3, <1>6, <1>7, <2>2
    <3>2. CASE i = k
      <4>1. s[i+1] = m /\ At(new, i - 1) = p
        BY <1>3, <1>8, <3>1, <3>2 DEF At
      <4> QED
        BY <1>10, <3>1, <4>1
    <3>3. CASE i # k
      <4>1. k # n /\ k + 1 \in 1..n /\ s[i+1] # m
        BY <1>7, <1>8, <2>2, <3>1, <3>3
      <4>2. At(new, i - 1) = At(s, (i + 1) - 1)
        BY <1>1, <1>3, <2>2, <3>1, <3>3 DEF At
      <4>3. bk[s[i+1]] = At(s, (i + 1) - 1)
        BY <1>11, <3>1
      <4>4. bk2[new[i]] = bk[s[i+1]]
        BY <1>10, <3>1, <4>1
      <4> QED
        BY <4>2, <4>3, <4>4
    <3> QED
      BY <3>2, <3>3
  <2> QED
    BY <2>1, <2>2
<1>14. (IF k = 1 THEN At(s, 2) ELSE first) = At(new, 1)
  <2>1. CASE k = 1
    BY <1>1, <1>3, <2>1 DEF At
  <2>2. CASE k # 1
    <3>1. first = At(s, 1)
      BY DEF Linked
    <3>2. At(new, 1) = At(s, 1)
      BY <1>1, <1>3, <1>7, <2>2 DEF At
    <3> QED
      BY <2>2, <3>1, <3>2
  <2> QED
    BY <2>1, <2>2
<1>15. ASSUME NEW x \in Threads, x \notin Range(s)
       PROVE  nx2[x] = nx[x] /\ bk2[x] = bk[x]
  <2>1. x # p /\ x # m /\ x # t
    BY <1>1, <1>6, <1>7, <1>8, <1>15, InRange, ThreadsAssumption
  <2> QED
    BY <1>9, <1>10, <1>15, <2>1
<1> QED
  BY <1>2, <1>3, <1>6, <1>9, <1>10, <1>12, <1>13, <1>14, <1>15 DEF Linked, BackLinked

LEMMA RemovedFrom ==
    ASSUME NEW s \in Seq(Threads), NoDuplicates(s), NEW k \in 1..Len(s)
    PROVE  /\ RemoveAt(s, k) \in Seq(Threads) /\ NoDuplicates(RemoveAt(s, k))
           /\ Range(RemoveAt(s, k)) = Range(s) \ {s[k]}
<1>1. PICK n \in Nat : n = Len(s)
  BY LenProperties
<1>2. PICK new : new = RemoveAt(s, k)
  OBVIOUS
<1>3. /\ new \in Seq(Threads) /\ Len(new) = n - 1
      /\ \A i \in 1..(n-1) : new[i] = IF i < k THEN s[i] ELSE s[i+1]
  <2>1. /\ RemoveAt(s, k) \in Seq(Threads) /\ Len(RemoveAt(s, k)) = Len(s) - 1
        /\ \A i \in 1..(Len(s)-1) : RemoveAt(s, k)[i] = IF i < k THEN s[i] ELSE s[i+1]
    BY RemoveAtProperties
  <2> QED
    BY <1>1, <1>2, <2>1
<1>4. k \in 1..n /\ \A i, j \in 1..n : s[i] = s[j] => i = j
  BY <1>1 DEF NoDuplicates
<1>5. NoDuplicates(new)
  <2> SUFFICES ASSUME NEW i \in 1..(n-1), NEW j \in 1..(n-1), new[i] = new[j] PROVE i = j
    BY <1>3 DEF NoDuplicates
  <2>1. ASSUME NEW l \in 1..(n-1)
        PROVE  \E m \in 1..n : new[l] = s[m] /\ m = IF l < k THEN l ELSE l + 1
    BY <1>3, <2>1
  <2>2. PICK a \in 1..n : new[i] = s[a] /\ a = IF i < k THEN i ELSE i + 1
    BY <2>1
  <2>3. PICK b \in 1..n : new[j] = s[b] /\ b = IF j < k THEN j ELSE j + 1
    BY <2>1
  <2>4. a = b
    BY <1>4, <2>2, <2>3
  <2> QED
    BY <1>4, <2>2, <2>3, <2>4
<1>6. ASSUME NEW x, x \in Range(new) PROVE x \in Range(s) \ {s[k]}
  <2>1. PICK i \in 1..(n-1) : new[i] = x
    BY <1>3, <1>6, InRange
  <2>2. PICK j \in 1..n : x = s[j] /\ j # k
    <3>1. CASE i < k
      <4>1. i \in 1..n /\ x = s[i]
        BY <1>3, <1>4, <2>1, <3>1
      <4> QED
        BY <3>1, <4>1
    <3>2. CASE ~ (i < k)
      <4>1. i + 1 \in 1..n /\ x = s[i+1] /\ i + 1 # k
        BY <1>3, <1>4, <2>1, <3>2
      <4> QED
        BY <4>1
    <3> QED
      BY <3>1, <3>2
  <2> QED
    BY <1>1, <1>4, <2>2, InRange
<1>7. ASSUME NEW x, x \in Range(s), x # s[k] PROVE x \in Range(new)
  <2>1. PICK j \in 1..n : s[j] = x /\ j # k
    BY <1>1, <1>7, InRange
  <2>2. PICK i \in 1..(n-1) : new[i] = x
    <3>1. CASE j < k
      <4>1. j \in 1..(n-1) /\ new[j] = x
        BY <1>3, <1>4, <2>1, <3>1
      <4> QED
        BY <4>1
    <3>2. CASE j > k
      <4>1. j - 1 \in 1..(n-1) /\ new[j-1] = x
        BY <1>3, <1>4, <2>1, <3>2
      <4> QED
        BY <4>1
    <3> QED
      BY <1>4, <2>1, <3>1, <3>2
  <2> QED
    BY <1>3, <2>2, InRange
<1> QED
  BY <1>2, <1>3, <1>5, <1>6, <1>7

LEMMA InsertedInto ==
    ASSUME NEW s \in Seq(Threads), NoDuplicates(s), NEW t \in Threads, t \notin Range(s),
           NEW k \in 1..(Len(s)+1)
    PROVE  /\ InsertAt(s, k, t) \in Seq(Threads) /\ NoDuplicates(InsertAt(s, k, t))
           /\ Range(InsertAt(s, k, t)) = Range(s) \cup {t}
<1>1. PICK n \in Nat : n = Len(s)
  BY LenProperties
<1>2. PICK new : new = InsertAt(s, k, t)
  OBVIOUS
<1>3. /\ new \in Seq(Threads) /\ Len(new) = n + 1
      /\ \A i \in 1..(n+1) : new[i] = IF i < k THEN s[i] ELSE IF i = k THEN t ELSE s[i-1]
  <2>1. /\ InsertAt(s, k, t) \in Seq(Threads)
        /\ Len(InsertAt(s, k, t)) = Len(s) + 1
        /\ \A i \in 1..(Len(s)+1) :
              InsertAt(s, k, t)[i] = IF i < k THEN s[i] ELSE IF i = k THEN t ELSE s[i-1]
    BY InsertAtProperties
  <2> QED
    BY <1>1, <1>2, <2>1
<1>4. /\ k \in 1..(n+1) /\ \A i, j \in 1..n : s[i] = s[j] => i = j
      /\ \A i \in 1..n : s[i] # t
  BY <1>1, InRange DEF NoDuplicates
<1>5. NoDuplicates(new)
  <2>1. ASSUME NEW i \in 1..(n+1), NEW j \in 1..(n+1), new[i] = new[j], i < j PROVE FALSE
    <3>1. CASE j < k
      BY <1>3, <1>4, <2>1, <3>1
    <3>2. CASE j = k
      BY <1>3, <1>4, <2>1, <3>2
    <3>3. CASE j > k
      <4>1. j - 1 \in 1..n /\ new[j] = s[j-1]
        BY <1>3, <1>4, <3>3
      <4>2. CASE i < k
        <5>1. i \in 1..n /\ new[i] = s[i] /\ i # j - 1
          BY <1>3, <1>4, <3>3, <4>2
        <5> QED
          BY <1>4, <2>1, <4>1, <5>1
      <4>3. CASE i = k
        BY <1>3, <1>4, <2>1, <4>1, <4>3
      <4>4. CASE i > k
        <5>1. i - 1 \in 1..n /\ new[i] = s[i-1] /\ i - 1 # j - 1
          BY <1>3, <1>4, <2>1, <4>4
        <5> QED
          BY <1>4, <2>1, <4>1, <5>1
      <4> QED
        BY <1>4, <4>2, <4>3, <4>4
    <3> QED
      BY <1>4, <3>1, <3>2, <3>3
  <2>2. SUFFICES ASSUME NEW i \in 1..Len(new), NEW j \in 1..Len(new), new[i] = new[j]
                 PROVE  i = j
    BY DEF NoDuplicates
  <2>3. i \in 1..(n+1) /\ j \in 1..(n+1) /\ (i < j \/ j < i \/ i = j)
    BY <1>3
  <2> QED
    BY <2>1, <2>2, <2>3
<1>6. ASSUME NEW x, x \in Range(new) PROVE x \in Range(s) \cup {t}
  <2>1. PICK i \in 1..(n+1) : new[i] = x
    BY <1>3, <1>6, InRange
  <2>2. CASE i < k
    <3>1. i \in 1..n /\ x = s[i]
      BY <1>3, <1>4, <2>1, <2>2
    <3> QED
      BY <1>1, <3>1, InRange
  <2>3. CASE i = k
    BY <1>3, <2>1, <2>3
  <2>4. CASE i > k
    <3>1. i - 1 \in 1..n /\ x = s[i-1]
      BY <1>3, <1>4, <2>1, <2>4
    <3> QED
      BY <1>1, <3>1, InRange
  <2> QED
    BY <1>4, <2>2, <2>3, <2>4
<1>7. t \in Range(new)
  BY <1>3, <1>4, InRange
<1>8. ASSUME NEW x, x \in Range(s) PROVE x \in Range(new)
  <2>1. PICK j \in 1..n : s[j] = x
    BY <1>1, <1>8, InRange
  <2>2. PICK i \in 1..(n+1) : new[i] = x
    <3>1. CASE j < k
      <4>1. j \in 1..(n+1) /\ new[j] = x
        BY <1>3, <1>4, <2>1, <3>1
      <4> QED
        BY <4>1
    <3>2. CASE j >= k
      <4>1. j + 1 \in 1..(n+1) /\ (j + 1) - 1 = j /\ new[j+1] = s[(j + 1) - 1]
        BY <1>3, <1>4, <3>2
      <4> QED
        BY <2>1, <4>1
    <3> QED
      BY <1>4, <2>1, <3>1, <3>2
  <2> QED
    BY <1>3, <2>2, InRange
<1> QED
  BY <1>2, <1>3, <1>5, <1>6, <1>7, <1>8

(* An operation on one list leaves the others as they were.                *)
LEMMA OneListChanges ==
    ASSUME NEW q \in Queues, NEW Q, NEW h, NEW nx, NEW bk, Lined(Q, h, nx, bk),
           NEW Q2, NEW h2, NEW nx2, NEW bk2, OneList(q, Q, h, nx, bk, Q2, h2, nx2, bk2)
    PROVE  Lined(Q2, h2, nx2, bk2)
<1> USE DEF OneList
<1>3. ASSUME NEW r \in Queues
      PROVE  NoDuplicates(Q2[r]) /\ Linked(h2[r], nx2, Q2[r]) /\ BackLinked(bk2, Q2[r])
  <2>1. CASE r = q
    BY <2>1
  <2>2. CASE r # q
    <3>1. PICK s \in Seq(Threads) : s = Q[r] /\ s = Q2[r]
      BY <2>2 DEF Lined
    <3>2. /\ NoDuplicates(s) /\ Linked(h[r], nx, s) /\ BackLinked(bk, s)
          /\ Range(s) \cap Range(Q[q]) = {} /\ Range(s) \cap Range(Q2[q]) = {}
      BY <2>2, <3>1 DEF Lined
    <3>3. \A i \in 1..Len(s) : nx2[s[i]] = nx[s[i]] /\ bk2[s[i]] = bk[s[i]]
      BY <3>2, InRange
    <3> QED
      BY <2>2, <3>1, <3>2, <3>3 DEF Linked, BackLinked
  <2> QED
    BY <2>1, <2>2
<1>4. ASSUME NEW r1 \in Queues, NEW r2 \in Queues, r1 # r2
      PROVE  Range(Q2[r1]) \cap Range(Q2[r2]) = {}
  BY <1>4 DEF Lined
<1>5. ASSUME NEW t \in Threads, \A r \in Queues : t \notin Range(Q2[r])
      PROVE  nx2[t] = Null /\ bk2[t] = Null
  <2>1. t \notin Range(Q2[q]) /\ \A r \in Queues : r # q => t \notin Range(Q[r])
    BY <1>5
  <2>2. CASE t \in Range(Q[q])
    BY <2>1, <2>2
  <2>3. CASE t \notin Range(Q[q])
    BY <2>1, <2>3 DEF Lined
  <2> QED
    BY <2>2, <2>3
<1> QED
  BY <1>3, <1>4, <1>5 DEF Lined

(* A TCB of a list is linked out of it ...                                 *)
LEMMA Unlinked ==
    ASSUME NEW Q, NEW h, NEW nx, NEW bk, Lined(Q, h, nx, bk), NEW q \in Queues,
           NEW s, s = Q[q], NEW k \in 1..Len(s),
           NEW h2, h2 = (IF k = 1 THEN [h EXCEPT ![q] = At(s, 2)] ELSE h),
           NEW nx2, NEW bk2, LinkingOut(s, k, nx, bk, nx2, bk2)
    PROVE  Lined([Q EXCEPT ![q] = RemoveAt(s, k)], h2, nx2, bk2)
<1>1. /\ s \in Seq(Threads) /\ NoDuplicates(s) /\ Linked(h[q], nx, s) /\ BackLinked(bk, s)
      /\ h \in [Queues -> Pointers] /\ Q \in [Queues -> Seq(Threads)]
  BY DEF Lined
<1>2. PICK new : new = RemoveAt(s, k)
  OBVIOUS
<1>3. new \in Seq(Threads) /\ NoDuplicates(new) /\ Range(new) = Range(s) \ {s[k]}
  BY <1>1, <1>2, RemovedFrom
<1>4. /\ Linked(IF k = 1 THEN At(s, 2) ELSE h[q], nx2, new)
      /\ BackLinked(bk2, new)
      /\ nx2[s[k]] = Null /\ bk2[s[k]] = Null
      /\ \A x \in Threads : x \notin Range(s) => nx2[x] = nx[x] /\ bk2[x] = bk[x]
  <2> HIDE <1>1
  <2>1. PICK first : first = h[q]
    OBVIOUS
  <2>2. s \in Seq(Threads) /\ NoDuplicates(s) /\ Linked(first, nx, s) /\ BackLinked(bk, s)
    BY <1>1, <2>1
  <2>3. /\ Linked(IF k = 1 THEN At(s, 2) ELSE first, nx2, RemoveAt(s, k))
        /\ BackLinked(bk2, RemoveAt(s, k))
        /\ nx2[s[k]] = Null /\ bk2[s[k]] = Null
        /\ \A x \in Threads : x \notin Range(s) => nx2[x] = nx[x] /\ bk2[x] = bk[x]
    <3>1. Linked(IF k = 1 THEN At(s, 2) ELSE first, nx2, RemoveAt(s, k))
      BY <2>2, LinkedOut
    <3>2. BackLinked(bk2, RemoveAt(s, k))
      BY <2>2, LinkedOut
    <3>3. nx2[s[k]] = Null /\ bk2[s[k]] = Null
      BY <2>2, InRange DEF LinkingOut
    <3>4. \A x \in Threads : x \notin Range(s) => nx2[x] = nx[x] /\ bk2[x] = bk[x]
      BY <2>2, LinkedOut
    <3> QED
      BY <3>1, <3>2, <3>3, <3>4
  <2> QED
    BY <1>2, <2>1, <2>3
<1>5. /\ h2 \in [Queues -> Pointers]
      /\ h2[q] = IF k = 1 THEN At(s, 2) ELSE h[q]
      /\ \A r \in Queues : r # q => h2[r] = h[r]
  <2>1. At(s, 2) \in Pointers
    BY <1>1, AtProperties
  <2> QED
    BY <1>1, <2>1
<1>6. PICK Q2 : Q2 = [Q EXCEPT ![q] = new]
  OBVIOUS
<1>7. /\ Q2 \in [Queues -> Seq(Threads)] /\ Q2[q] = new
      /\ \A r \in Queues : r # q => /\ Q2[r] = Q[r] /\ h2[r] = h[r]
                                    /\ Range(Q2[q]) \cap Range(Q[r]) = {}
  <2>1. Q2 \in [Queues -> Seq(Threads)] /\ Q2[q] = new
        /\ \A r \in Queues : r # q => Q2[r] = Q[r]
    BY <1>1, <1>3, <1>6
  <2>2. ASSUME NEW r \in Queues, r # q PROVE Range(new) \cap Range(Q[r]) = {}
    <3>1. Range(s) \cap Range(Q[r]) = {}
      BY <2>2 DEF Lined
    <3> QED
      BY <1>3, <3>1
  <2> QED
    BY <1>5, <2>1, <2>2
<1>8. Linked(h2[q], nx2, Q2[q]) /\ BackLinked(bk2, Q2[q]) /\ NoDuplicates(Q2[q])
  BY <1>3, <1>4, <1>5, <1>7
<1>9. \A x \in Threads :
         /\ x \notin Range(Q[q]) /\ x \notin Range(Q2[q]) => nx2[x] = nx[x] /\ bk2[x] = bk[x]
         /\ x \in Range(Q[q]) /\ x \notin Range(Q2[q]) => nx2[x] = Null /\ bk2[x] = Null
  BY <1>3, <1>4, <1>7
<1>10. OneList(q, Q, h, nx, bk, Q2, h2, nx2, bk2)
  BY <1>5, <1>7, <1>8, <1>9 DEF OneList, LinkingOut
<1>11. Lined(Q2, h2, nx2, bk2)
  BY <1>10, OneListChanges
<1> QED
  BY <1>2, <1>6, <1>11

(* ... or a TCB of no list is linked in.                                   *)
LEMMA Inserted ==
    ASSUME NEW Q, NEW h, NEW nx, NEW bk, Lined(Q, h, nx, bk), NEW q \in Queues,
           NEW s, s = Q[q], NEW t \in Threads, \A r \in Queues : t \notin Range(Q[r]),
           NEW k \in 1..(Len(s)+1),
           NEW h2, h2 = (IF k = 1 THEN [h EXCEPT ![q] = t] ELSE h),
           NEW nx2, NEW bk2, LinkingIn(s, k, t, nx, bk, nx2, bk2)
    PROVE  Lined([Q EXCEPT ![q] = InsertAt(s, k, t)], h2, nx2, bk2)
<1>1. /\ s \in Seq(Threads) /\ NoDuplicates(s) /\ Linked(h[q], nx, s) /\ BackLinked(bk, s)
      /\ h \in [Queues -> Pointers] /\ Q \in [Queues -> Seq(Threads)] /\ t \notin Range(s)
  BY DEF Lined
<1>2. PICK new : new = InsertAt(s, k, t)
  OBVIOUS
<1>3. new \in Seq(Threads) /\ NoDuplicates(new) /\ Range(new) = Range(s) \cup {t}
  BY <1>1, <1>2, InsertedInto
<1>4. /\ Linked(IF k = 1 THEN t ELSE h[q], nx2, new)
      /\ BackLinked(bk2, new)
      /\ \A x \in Threads : x # t /\ x \notin Range(s) => nx2[x] = nx[x] /\ bk2[x] = bk[x]
  <2> HIDE <1>1
  <2>1. PICK first : first = h[q]
    OBVIOUS
  <2>2. /\ s \in Seq(Threads) /\ NoDuplicates(s) /\ Linked(first, nx, s) /\ BackLinked(bk, s)
        /\ t \notin Range(s)
    BY <1>1, <2>1
  <2>3. /\ Linked(IF k = 1 THEN t ELSE first, nx2, InsertAt(s, k, t))
        /\ BackLinked(bk2, InsertAt(s, k, t))
        /\ \A x \in Threads : x # t /\ x \notin Range(s) =>
              nx2[x] = nx[x] /\ bk2[x] = bk[x]
    BY <2>2, LinkedIn
  <2> QED
    BY <1>2, <2>1, <2>3
<1>5. /\ h2 \in [Queues -> Pointers]
      /\ h2[q] = IF k = 1 THEN t ELSE h[q]
      /\ \A r \in Queues : r # q => h2[r] = h[r]
  BY <1>1 DEF Pointers
<1>6. PICK Q2 : Q2 = [Q EXCEPT ![q] = new]
  OBVIOUS
<1>7. /\ Q2 \in [Queues -> Seq(Threads)] /\ Q2[q] = new
      /\ \A r \in Queues : r # q => /\ Q2[r] = Q[r] /\ h2[r] = h[r]
                                    /\ Range(Q2[q]) \cap Range(Q[r]) = {}
  <2>1. Q2 \in [Queues -> Seq(Threads)] /\ Q2[q] = new
        /\ \A r \in Queues : r # q => Q2[r] = Q[r]
    BY <1>1, <1>3, <1>6
  <2>2. ASSUME NEW r \in Queues, r # q PROVE Range(new) \cap Range(Q[r]) = {}
    <3>1. Range(s) \cap Range(Q[r]) = {}
      BY <2>2 DEF Lined
    <3> QED
      BY <1>3, <3>1
  <2> QED
    BY <1>5, <2>1, <2>2
<1>8. Linked(h2[q], nx2, Q2[q]) /\ BackLinked(bk2, Q2[q]) /\ NoDuplicates(Q2[q])
  BY <1>3, <1>4, <1>5, <1>7
<1>9. \A x \in Threads :
         /\ x \notin Range(Q[q]) /\ x \notin Range(Q2[q]) => nx2[x] = nx[x] /\ bk2[x] = bk[x]
         /\ x \in Range(Q[q]) /\ x \notin Range(Q2[q]) => nx2[x] = Null /\ bk2[x] = Null
  BY <1>3, <1>4, <1>7
<1>10. OneList(q, Q, h, nx, bk, Q2, h2, nx2, bk2)
  BY <1>5, <1>7, <1>8, <1>9 DEF OneList, LinkingIn
<1>11. Lined(Q2, h2, nx2, bk2)
  BY <1>10, OneListChanges
<1> QED
  BY <1>2, <1>6, <1>11

LEMMA SetLink ==
    ASSUME NEW chain \in Links, NEW p \in Pointers, NEW n \in Pointers
    PROVE  /\ SetPrev(chain, p, n) = SetNext(chain, p, n)
           /\ SetNext(chain, p, n) \in Links
           /\ \A x \in Threads : SetNext(chain, p, n)[x] = IF x = p THEN n ELSE chain[x]
<1>1. CASE p = Null
  BY <1>1, ThreadsAssumption DEF SetNext, SetPrev, Links
<1>2. CASE p # Null
  <2>1. p \in Threads
    BY <1>2 DEF Pointers
  <2> QED
    BY <1>2, <2>1 DEF SetNext, SetPrev, Links
<1> QED
  BY <1>1, <1>2

(* The assignments of the code are these changes of the links.             *)
LEMMA CodeLinksIn ==
    ASSUME NEW s \in Seq(Threads), NEW t \in Threads, t \notin Range(s), NEW k \in Int,
           NEW nx \in Links, NEW bk \in Links
    PROVE  LinkingIn(s, k, t, nx, bk, SetNext([nx EXCEPT ![t] = At(s, k)], At(s, k - 1), t),
                                      SetPrev([bk EXCEPT ![t] = At(s, k - 1)], At(s, k), t))
<1>1. PICK p \in Pointers : p = At(s, k - 1)
  BY AtProperties
<1>2. PICK m \in Pointers : m = At(s, k)
  BY AtProperties
<1>4. PICK a : a = [nx EXCEPT ![t] = m]
  OBVIOUS
<1>5. PICK b : b = [bk EXCEPT ![t] = p]
  OBVIOUS
<1>6. /\ a \in Links /\ b \in Links /\ t \in Pointers
      /\ \A x \in Threads : /\ a[x] = IF x = t THEN m ELSE nx[x]
                            /\ b[x] = IF x = t THEN p ELSE bk[x]
  BY <1>4, <1>5 DEF Pointers, Links
<1>7. LinkingIn(s, k, t, nx, bk, SetNext(a, p, t), SetPrev(b, m, t))
  <2>0. a \in Links /\ b \in Links /\ t \in Pointers
    BY <1>6
  <2>1. /\ SetNext(a, p, t) \in Links
        /\ \A x \in Threads : SetNext(a, p, t)[x] = IF x = p THEN t ELSE a[x]
    BY <2>0, SetLink
  <2>2. /\ SetPrev(b, m, t) \in Links
        /\ \A x \in Threads : SetPrev(b, m, t)[x] = IF x = m THEN t ELSE b[x]
    <3>1. /\ SetNext(b, m, t) \in Links
          /\ \A x \in Threads : SetNext(b, m, t)[x] = IF x = m THEN t ELSE b[x]
      BY <2>0, SetLink
    <3>2. SetPrev(b, m, t) = SetNext(b, m, t)
      BY <2>0, SetLink
    <3> QED
      BY <3>1, <3>2
  <2> QED
    BY <1>1, <1>2, <1>6, <2>1, <2>2 DEF LinkingIn
<1> QED
  BY <1>1, <1>2, <1>4, <1>5, <1>7

LEMMA CodeLinksOut ==
    ASSUME NEW s \in Seq(Threads), NEW k \in 1..Len(s),
           NEW nx \in Links, NEW bk \in Links
    PROVE  LinkingOut(s, k, nx, bk,
                      [SetNext(nx, At(s, k - 1), At(s, k + 1)) EXCEPT ![s[k]] = Null],
                      [SetPrev(bk, At(s, k + 1), At(s, k - 1)) EXCEPT ![s[k]] = Null])
<1>1. PICK p \in Pointers : p = At(s, k - 1)
  BY AtProperties
<1>2. PICK m \in Pointers : m = At(s, k + 1)
  BY AtProperties
<1>3. PICK t \in Threads : t = s[k]
  BY InRange
<1>4. PICK a : a = SetNext(nx, p, m)
  OBVIOUS
<1>5. PICK b : b = SetPrev(bk, m, p)
  OBVIOUS
<1>6. /\ a \in Links /\ b \in Links /\ Null \in Pointers
      /\ \A x \in Threads : /\ a[x] = IF x = p THEN m ELSE nx[x]
                            /\ b[x] = IF x = m THEN p ELSE bk[x]
  <2>1. /\ a \in Links
        /\ \A x \in Threads : a[x] = IF x = p THEN m ELSE nx[x]
    BY <1>4, SetLink
  <2>2. b = SetNext(bk, m, p)
    BY <1>5, SetLink
  <2>3. /\ b \in Links
        /\ \A x \in Threads : b[x] = IF x = m THEN p ELSE bk[x]
    BY <2>2, SetLink
  <2> QED
    BY <2>1, <2>3 DEF Pointers
<1>7. LinkingOut(s, k, nx, bk, [a EXCEPT ![t] = Null], [b EXCEPT ![t] = Null])
  BY <1>1, <1>2, <1>3, <1>6 DEF LinkingOut, Links
<1> QED
  BY <1>1, <1>2, <1>3, <1>4, <1>5, <1>7

(* A list and the walk along it. *)
LEMMA ListOf ==
    ASSUME NEW Q, Lined(Q, head, next, prev), NEW q \in Queues
    PROVE  /\ Q[q] \in Seq(Threads) /\ NoDuplicates(Q[q])
           /\ Linked(head[q], next, Q[q]) /\ BackLinked(prev, Q[q])
           /\ AsSequence(q) = Q[q] /\ OnList(q) = Range(Q[q])
<1>1. /\ Q[q] \in Seq(Threads) /\ NoDuplicates(Q[q])
      /\ Linked(head[q], next, Q[q]) /\ BackLinked(prev, Q[q])
  BY DEF Lined
<1> QED
  BY <1>1, AsSequenceIs

LEMMA EnqueueStep ==
    ASSUME NEW Q, Lined(Q, head, next, prev), NEW q \in Queues, NEW t \in Threads,
           \A r \in Queues : t \notin OnList(r), EnqueuePriority(q, t)
    PROVE  /\ Lined([Q EXCEPT ![q] = tcbEnqueuePriority(Q[q], t)], head', next', prev')
           /\ \A r \in Queues : t \notin Range(Q[r])
           /\ ret' = Null
<1>1. PICK s \in Seq(Threads) : s = Q[q]
  BY ListOf
<1>2. /\ NoDuplicates(s) /\ Linked(head[q], next, s)
      /\ next \in Links /\ prev \in Links
      /\ \A r \in Queues : t \notin Range(Q[r])
      /\ t \notin Range(s)
  BY <1>1, ListOf DEF Lined
<1>3. PICK N \in Nat : N = Cardinality(Threads) /\ Len(s) <= N
  BY <1>2, ListFits, TcbsAssumption
<1>4. PICK ptr : ptr = Walk(q)
  OBVIOUS
<1>5. DOMAIN ptr = 0..N /\ \A i \in 0..N : ptr[i] = At(s, i + 1)
  BY <1>1, <1>2, <1>3, <1>4, WalkIs DEF WalkAlong
<1>6. PICK k \in 1..(Len(s)+1) : /\ k = InsertPos(s, t)
                                 /\ \A i \in 1..(k-1) : Prio[s[i]] <= Prio[t]
                                 /\ k <= Len(s) => Prio[s[k]] > Prio[t]
  BY InsertPosProperties
<1> DEFINE stops == { i \in DOMAIN ptr : ptr[i] = Null \/ Prio[ptr[i]] > Prio[t] }
<1>7. Min(stops) = k - 1
  <2>1. k - 1 \in stops
    <3>1. k - 1 \in 0..N /\ (k - 1) + 1 = k
      BY <1>3
    <3>2. ptr[k-1] = At(s, k)
      BY <1>5, <3>1
    <3>3. CASE k <= Len(s)
      BY <1>5, <1>6, <3>1, <3>2, <3>3 DEF At
    <3>4. CASE k > Len(s)
      BY <1>5, <3>1, <3>2, <3>4 DEF At
    <3> QED
      BY <3>3, <3>4
  <2>2. ASSUME NEW i \in stops PROVE i >= k - 1
    <3>1. SUFFICES ASSUME i < k - 1 PROVE FALSE
      BY <1>5
    <3>2. i \in 0..N /\ i + 1 \in 1..(k-1) /\ i + 1 \in 1..Len(s)
      BY <1>5, <3>1
    <3>3. ptr[i] = s[i+1] /\ s[i+1] \in Threads
      BY <1>5, <3>2, AtProperties
    <3> QED
      BY <1>6, <3>2, <3>3, PrioIsInt, ThreadsAssumption
  <2>3. stops \in SUBSET Nat
    BY <1>5
  <2> HIDE DEF stops
  <2>4. PICK e : e = Min(stops)
    OBVIOUS
  <2>5. e \in stops /\ \A y \in stops : e <= y
    BY <2>1, <2>3, <2>4, MinNat
  <2>6. e \in Nat /\ e <= k - 1 /\ e >= k - 1
    BY <2>1, <2>2, <2>3, <2>5
  <2> QED
    BY <2>4, <2>6
<1>8. /\ ptr[k-1] = At(s, k)
      /\ (IF k - 1 = 0 THEN Null ELSE ptr[k-2]) = At(s, k - 1)
  <2>1. k - 1 \in 0..N /\ (k - 1) + 1 = k
    BY <1>3
  <2>2. CASE k = 1
    BY <1>5, <2>1, <2>2 DEF At
  <2>3. CASE k # 1
    <3>1. k - 2 \in 0..N /\ (k - 2) + 1 = k - 1 /\ k - 1 # 0
      BY <1>3, <2>3
    <3> QED
      BY <1>5, <2>1, <3>1
  <2> QED
    BY <2>2, <2>3
<1>9. At(s, k) = head[q] <=> k = 1
  <2>1. head[q] = At(s, 1)
    BY <1>2 DEF Linked
  <2>2. CASE k = 1
    BY <2>1, <2>2
  <2>3. CASE k # 1
    <3>1. 1 \in 1..Len(s) /\ At(s, 1) = s[1] /\ s[1] \in Threads
      BY <2>3, AtProperties
    <3>2. CASE k \in 1..Len(s)
      BY <1>2, <2>1, <2>3, <3>1, <3>2 DEF At, NoDuplicates
    <3>3. CASE k \notin 1..Len(s)
      BY <2>1, <2>3, <3>1, <3>3, ThreadsAssumption DEF At
    <3> QED
      BY <3>2, <3>3
  <2> QED
    BY <2>2, <2>3
<1>10. /\ head' = (IF At(s, k) = head[q] THEN [head EXCEPT ![q] = t] ELSE head)
       /\ prev' = SetPrev([prev EXCEPT ![t] = At(s, k - 1)], At(s, k), t)
       /\ next' = SetNext([next EXCEPT ![t] = At(s, k)], At(s, k - 1), t)
       /\ ret' = Null
  <2> DEFINE wstops == { i \in DOMAIN Walk(q) : Walk(q)[i] = Null \/ Prio[Walk(q)[i]] > Prio[t] }
             stop == Min(wstops)
             nextPtr == Walk(q)[stop]
             prevPtr == IF stop = 0 THEN Null ELSE Walk(q)[stop - 1]
  <2>1. /\ head' = (IF nextPtr = head[q] THEN [head EXCEPT ![q] = t] ELSE head)
        /\ prev' = SetPrev([prev EXCEPT ![t] = prevPtr], nextPtr, t)
        /\ next' = SetNext([next EXCEPT ![t] = nextPtr], prevPtr, t)
        /\ ret' = Null
    BY DEF EnqueuePriority
  <2>2. wstops = stops
    BY <1>4
  <2> HIDE DEF wstops, stops
  <2>3. stop = k - 1
    BY <1>7, <2>2
  <2>4. nextPtr = At(s, k) /\ prevPtr = At(s, k - 1)
    BY <1>4, <1>8, <2>3
  <2> HIDE DEF nextPtr, prevPtr, stop
  <2> QED
    BY <2>1, <2>4
<1>11. LinkingIn(s, k, t, next, prev, next', prev')
  <2>1. LinkingIn(s, k, t, next, prev,
                  SetNext([next EXCEPT ![t] = At(s, k)], At(s, k - 1), t),
                  SetPrev([prev EXCEPT ![t] = At(s, k - 1)], At(s, k), t))
    BY <1>2, CodeLinksIn
  <2> QED
    BY <1>10, <2>1
<1>12. head' = (IF k = 1 THEN [head EXCEPT ![q] = t] ELSE head)
  BY <1>9, <1>10
<1>13. Lined([Q EXCEPT ![q] = InsertAt(s, k, t)], head', next', prev')
  BY <1>1, <1>2, <1>11, <1>12, Inserted
<1> QED
  BY <1>1, <1>2, <1>6, <1>10, <1>13 DEF tcbEnqueuePriority

(* The head of a list is linked out: the code that the two functions that  *)
(* dequeue it share, whether it clears the link of the TCB or leaves a     *)
(* link that is NULL already.                                              *)
LEMMA HeadOut ==
    ASSUME NEW Q, Lined(Q, head, next, prev), NEW q \in Queues, Q[q] # <<>>
    PROVE  /\ head[q] \in Threads /\ head[q] = Q[q][1] /\ 1 \in 1..Len(Q[q])
           /\ next[head[q]] = At(Q[q], 2) /\ prev[head[q]] = Null
           /\ At(Q[q], 1 - 1) = Null /\ At(Q[q], 1 + 1) = At(Q[q], 2)
           /\ Head(Q[q]) = head[q] /\ Tail(Q[q]) = RemoveAt(Q[q], 1)
<1>1. PICK s \in Seq(Threads) : s = Q[q]
  BY ListOf
<1>2. NoDuplicates(s) /\ Linked(head[q], next, s) /\ BackLinked(prev, s) /\ s # <<>>
  BY <1>1, ListOf
<1>3. PICK n \in Nat : n = Len(s) /\ n # 0
  BY <1>2
<1>4. 1 \in 1..n /\ head[q] = s[1] /\ s[1] \in Threads
  BY <1>2, <1>3, AtProperties DEF Linked
<1>5. next[s[1]] = At(s, 1 + 1) /\ prev[s[1]] = At(s, 1 - 1)
  BY <1>2, <1>3, <1>4 DEF Linked, BackLinked
<1>6. At(s, 1 - 1) = Null /\ At(s, 1 + 1) = At(s, 2)
  BY DEF At
<1>7. Tail(s) = RemoveAt(s, 1)
  <2>1. PICK r : r = RemoveAt(s, 1)
    OBVIOUS
  <2>2. /\ r \in Seq(Threads) /\ Len(r) = n - 1
        /\ \A i \in 1..(n-1) : r[i] = s[i+1]
    BY <1>3, <1>4, <2>1, RemoveAtProperties
  <2>3. /\ Tail(s) \in Seq(Threads) /\ Len(Tail(s)) = n - 1
        /\ \A i \in 1..(n-1) : Tail(s)[i] = s[i+1]
    BY <1>2, <1>3
  <2>4. PICK u \in Seq(Threads) : u = Tail(s)
    BY <2>3
  <2> HIDE <1>1, <1>2
  <2>5. r = u
    BY <1>3, <2>2, <2>3, <2>4
  <2> QED
    BY <2>1, <2>4, <2>5
<1> QED
  BY <1>1, <1>2, <1>3, <1>4, <1>5, <1>6, <1>7

LEMMA EmptyList ==
    ASSUME NEW Q, Lined(Q, head, next, prev), NEW q \in Queues
    PROVE  /\ Q[q] = <<>> <=> head[q] = Null
           /\ [Q EXCEPT ![q] = Q[q]] = Q
<1>1. CASE Q[q] = <<>>
  <2>1. head[q] = At(<<>>, 1)
    BY <1>1, ListOf DEF Linked
  <2> QED
    BY <1>1, <2>1 DEF At, Lined
<1>2. CASE Q[q] # <<>>
  BY <1>2, HeadOut, ThreadsAssumption DEF Lined
<1> QED
  BY <1>1, <1>2

LEMMA DequeueHeadStep ==
    ASSUME NEW Q, Lined(Q, head, next, prev), NEW q \in Queues, DequeueHead(q)
    PROVE  /\ Lined([Q EXCEPT ![q] = tcbDequeueHead(Q[q]).queue], head', next', prev')
           /\ ret' = tcbDequeueHead(Q[q]).tcb
<1>1. CASE Q[q] = <<>>
  <2>1. UNCHANGED <<head, next, prev>> /\ ret' = Null
    BY <1>1, EmptyList DEF DequeueHead
  <2>2. tcbDequeueHead(Q[q]).queue = Q[q] /\ tcbDequeueHead(Q[q]).tcb = Null
    BY <1>1 DEF tcbDequeueHead
  <2> QED
    BY <2>1, <2>2, EmptyList
<1>2. CASE Q[q] # <<>>
  <2>1. PICK s \in Seq(Threads) : s = Q[q]
    BY ListOf
  <2>2. /\ head[q] = s[1] /\ 1 \in 1..Len(s) /\ next[head[q]] = At(s, 2)
        /\ At(s, 1 - 1) = Null /\ At(s, 1 + 1) = At(s, 2)
        /\ Head(s) = head[q] /\ Tail(s) = RemoveAt(s, 1)
        /\ next \in Links /\ prev \in Links
    BY <1>2, <2>1, HeadOut DEF Lined
  <2>3. /\ ret' = head[q]
        /\ head' = [head EXCEPT ![q] = At(s, 2)]
        /\ next' = [next EXCEPT ![s[1]] = Null]
        /\ prev' = [SetPrev(prev, At(s, 2), Null) EXCEPT ![s[1]] = Null]
    BY <1>2, <2>2, EmptyList DEF DequeueHead
  <2>4. LinkingOut(s, 1, next, prev,
                   [SetNext(next, At(s, 1 - 1), At(s, 1 + 1)) EXCEPT ![s[1]] = Null],
                   [SetPrev(prev, At(s, 1 + 1), At(s, 1 - 1)) EXCEPT ![s[1]] = Null])
    BY <2>2, CodeLinksOut
  <2>5. LinkingOut(s, 1, next, prev, next', prev')
    BY <2>2, <2>3, <2>4 DEF SetNext
  <2>6. Lined([Q EXCEPT ![q] = RemoveAt(s, 1)], head', next', prev')
    BY <2>1, <2>2, <2>3, <2>5, Unlinked
  <2>7. tcbDequeueHead(s).queue = RemoveAt(s, 1) /\ tcbDequeueHead(s).tcb = head[q]
    BY <1>2, <2>1, <2>2 DEF tcbDequeueHead
  <2> QED
    BY <2>1, <2>3, <2>6, <2>7
<1> QED
  BY <1>1, <1>2

LEMMA DequeuePriorityStep ==
    ASSUME NEW Q, Lined(Q, head, next, prev), NEW q \in Queues, NEW lowest,
           DequeuePriority(q, lowest)
    PROVE  /\ Lined([Q EXCEPT ![q] = tcbDequeuePriority(Q[q], lowest).queue],
                    head', next', prev')
           /\ ret' = tcbDequeuePriority(Q[q], lowest).tcb
<1>1. CASE head[q] # Null /\ Prio[head[q]] <= lowest
  <2>1. PICK s \in Seq(Threads) : s = Q[q] /\ s # <<>>
    BY <1>1, ListOf, EmptyList
  <2>2. /\ head[q] = s[1] /\ 1 \in 1..Len(s) /\ next[head[q]] = At(s, 2) /\ prev[head[q]] = Null
        /\ At(s, 1 - 1) = Null /\ At(s, 1 + 1) = At(s, 2)
        /\ Head(s) = head[q] /\ Tail(s) = RemoveAt(s, 1)
    BY <2>1, HeadOut
  <2>20. next \in Links /\ prev \in Links
    BY DEF Lined
  <2>3. /\ ret' = head[q]
        /\ head' = [head EXCEPT ![q] = At(s, 2)]
        /\ prev' = SetPrev(prev, At(s, 2), Null)
        /\ next' = IF At(s, 2) # Null THEN [next EXCEPT ![s[1]] = Null] ELSE next
    BY <1>1, <2>2 DEF DequeuePriority
  <2>4. At(s, 2) \in Pointers /\ At(s, 2) # s[1] /\ Null \in Pointers /\ s[1] \in Threads
    <3>1. NoDuplicates(s)
      BY <2>1, ListOf
    <3>2. s[1] \in Threads /\ At(s, 2) \in Pointers
      BY <2>2, InRange, AtProperties
    <3>3. CASE 2 \in 1..Len(s)
      BY <2>2, <3>1, <3>2, <3>3 DEF At, NoDuplicates, Pointers
    <3>4. CASE 2 \notin 1..Len(s)
      BY <3>2, <3>4, ThreadsAssumption DEF At, Pointers
    <3> QED
      BY <3>2, <3>3, <3>4 DEF Pointers
  <2>5. PICK m \in Pointers : m = At(s, 2)
    BY <2>4
  <2>6. /\ next' \in Links
        /\ \A x \in Threads : next'[x] = IF x = s[1] THEN Null ELSE next[x]
    <3>1. CASE m # Null
      BY <2>2, <2>20, <2>3, <2>4, <2>5, <3>1 DEF Links
    <3>2. CASE m = Null
      BY <2>2, <2>20, <2>3, <2>4, <2>5, <3>2
    <3> QED
      BY <3>1, <3>2
  <2>7. /\ prev' \in Links
        /\ \A x \in Threads : prev'[x] = IF x = m THEN Null ELSE prev[x]
    <3>1. prev' = SetNext(prev, m, Null)
      BY <2>20, <2>3, <2>4, <2>5, SetLink
    <3>2. prev \in Links /\ Null \in Pointers
      BY <2>20, <2>4
    <3>3. /\ SetNext(prev, m, Null) \in Links
          /\ \A x \in Threads : SetNext(prev, m, Null)[x] = IF x = m THEN Null ELSE prev[x]
      BY <3>2, SetLink
    <3> QED
      BY <3>1, <3>3
  <2>8. LinkingOut(s, 1, next, prev, next', prev')
    BY <2>2, <2>4, <2>5, <2>6, <2>7, ThreadsAssumption DEF LinkingOut
  <2>9. Lined([Q EXCEPT ![q] = RemoveAt(s, 1)], head', next', prev')
    BY <2>1, <2>2, <2>3, <2>8, Unlinked
  <2>10. tcbDequeuePriority(s, lowest) = [tcb |-> Head(s), queue |-> Tail(s)]
    BY <1>1, <2>1, <2>2 DEF tcbDequeuePriority
  <2>11. /\ tcbDequeuePriority(s, lowest).queue = RemoveAt(s, 1)
         /\ tcbDequeuePriority(s, lowest).tcb = head[q]
    BY <2>2, <2>10
  <2> QED
    BY <2>1, <2>3, <2>9, <2>11
<1>2. CASE ~ (head[q] # Null /\ Prio[head[q]] <= lowest)
  <2>1. UNCHANGED <<head, next, prev>> /\ ret' = Null
    BY <1>2 DEF DequeuePriority
  <2>2. tcbDequeuePriority(Q[q], lowest) = [tcb |-> Null, queue |-> Q[q]]
    <3>1. CASE Q[q] = <<>>
      BY <3>1 DEF tcbDequeuePriority
    <3>2. CASE Q[q] # <<>>
      <4>1. Head(Q[q]) = head[q] /\ head[q] # Null
        BY <3>2, HeadOut, ThreadsAssumption
      <4> QED
        BY <1>2, <4>1 DEF tcbDequeuePriority
    <3> QED
      BY <3>1, <3>2
  <2> QED
    BY <2>1, <2>2, EmptyList
<1> QED
  BY <1>1, <1>2

LEMMA DequeueEntryStep ==
    ASSUME NEW Q, Lined(Q, head, next, prev), NEW q \in Queues, NEW t \in Threads,
           DequeueEntry(q, t)
    PROVE  /\ Lined([Q EXCEPT ![q] = tcbDequeueEntry(Q[q], t).queue], head', next', prev')
           /\ ret' = tcbDequeueEntry(Q[q], t).tcb
<1>1. PICK s \in Seq(Threads) : s = Q[q]
  BY ListOf
<1>2. /\ NoDuplicates(s) /\ Linked(head[q], next, s) /\ OnList(q) = Range(s)
      /\ next \in Links /\ prev \in Links
  BY <1>1, ListOf DEF Lined
<1>3. PICK N \in Nat : N = Cardinality(Threads) /\ Len(s) <= N
  BY <1>2, ListFits, TcbsAssumption
<1>4. PICK ptr : ptr = Walk(q)
  OBVIOUS
<1>5. DOMAIN ptr = 0..N /\ \A i \in 0..N : ptr[i] = At(s, i + 1)
  BY <1>1, <1>2, <1>3, <1>4, WalkIs DEF WalkAlong
<1>6. (\E i \in DOMAIN Walk(q) : Walk(q)[i] = t) <=> Contains(s, t)
  <2>1. t \in Range(s) <=> Contains(s, t)
    BY InRange DEF Contains
  <2>2. t \in OnList(q) <=> \E i \in DOMAIN Walk(q) : Walk(q)[i] = t
    BY ThreadsAssumption DEF OnList, Range
  <2> QED
    BY <1>2, <2>1, <2>2
<1>7. CASE ~ Contains(s, t)
  <2>1. UNCHANGED <<head, next, prev>> /\ ret' = Null
    BY <1>6, <1>7 DEF DequeueEntry
  <2>2. RemoveFirst(s, t) = s
    BY <1>7 DEF RemoveFirst, Contains
  <2>3. tcbDequeueEntry(s, t).queue = s /\ tcbDequeueEntry(s, t).tcb = Null
    BY <1>7, <2>2 DEF tcbDequeueEntry
  <2> QED
    BY <1>1, <2>1, <2>3, EmptyList
<1>8. CASE Contains(s, t)
  <2>1. PICK k \in 1..Len(s) : /\ s[k] = t /\ \A i \in 1..(k-1) : s[i] # t
                               /\ RemoveFirst(s, t) = RemoveAt(s, k)
    BY <1>8, RemoveFirstIsRemoveAt
  <2> DEFINE ats == { i \in DOMAIN ptr : ptr[i] = t }
  <2>2. Min(ats) = k - 1
    <3>1. k - 1 \in ats
      <4>1. k - 1 \in 0..N /\ (k - 1) + 1 = k
        BY <1>3
      <4> QED
        BY <1>5, <2>1, <4>1 DEF At
    <3>2. ASSUME NEW i \in ats PROVE i >= k - 1
      <4>1. i \in 0..N /\ At(s, i + 1) = t
        BY <1>5
      <4>2. i + 1 \in 1..Len(s) /\ s[i+1] = t
        BY <4>1, AtProperties, ThreadsAssumption
      <4> QED
        BY <2>1, <4>1, <4>2
    <3>3. ats \in SUBSET Nat
      BY <1>5
    <3> HIDE DEF ats
    <3>4. PICK e : e = Min(ats)
      OBVIOUS
    <3>5. e \in ats /\ \A y \in ats : e <= y
      BY <3>1, <3>3, <3>4, MinNat
    <3>6. e \in Nat /\ e <= k - 1 /\ e >= k - 1
      BY <3>1, <3>2, <3>3, <3>5
    <3> QED
      BY <3>4, <3>6
  <2>3. (IF k - 1 = 0 THEN Null ELSE ptr[k-2]) = At(s, k - 1)
    <3>1. CASE k = 1
      BY <3>1 DEF At
    <3>2. CASE k # 1
      <4>1. k - 2 \in 0..N /\ (k - 2) + 1 = k - 1 /\ k - 1 # 0
        BY <1>3, <3>2
      <4> QED
        BY <1>5, <4>1
    <3> QED
      BY <3>1, <3>2
  <2>4. next[t] = At(s, k + 1)
    BY <1>2, <2>1 DEF Linked
  <2>5. t = head[q] <=> k = 1
    <3>1. 1 \in 1..Len(s) /\ head[q] = s[1]
      BY <1>2 DEF Linked, At
    <3> QED
      BY <1>2, <2>1, <3>1 DEF NoDuplicates
  <2>6. /\ ret' = t
        /\ head' = (IF t = head[q] THEN [head EXCEPT ![q] = At(s, k + 1)] ELSE head)
        /\ next' = [SetNext(next, At(s, k - 1), At(s, k + 1)) EXCEPT ![s[k]] = Null]
        /\ prev' = [SetPrev(prev, At(s, k + 1), At(s, k - 1)) EXCEPT ![s[k]] = Null]
    <3> DEFINE wats == { i \in DOMAIN Walk(q) : Walk(q)[i] = t }
               at == Min(wats)
               prevPtr == IF at = 0 THEN Null ELSE Walk(q)[at - 1]
    <3>1. /\ ret' = t
          /\ head' = (IF t = head[q] THEN [head EXCEPT ![q] = next[t]] ELSE head)
          /\ next' = [SetNext(next, prevPtr, next[t]) EXCEPT ![t] = Null]
          /\ prev' = [SetPrev(prev, next[t], prevPtr) EXCEPT ![t] = Null]
      BY <1>6, <1>8 DEF DequeueEntry
    <3>2. wats = ats
      BY <1>4
    <3> HIDE DEF wats, ats
    <3>3. at = k - 1
      BY <2>2, <3>2
    <3>4. prevPtr = At(s, k - 1)
      BY <1>4, <2>3, <3>3
    <3> HIDE DEF prevPtr, at
    <3> QED
      BY <2>1, <2>4, <3>1, <3>4
  <2>7. LinkingOut(s, k, next, prev, next', prev')
    <3>1. LinkingOut(s, k, next, prev,
                     [SetNext(next, At(s, k - 1), At(s, k + 1)) EXCEPT ![s[k]] = Null],
                     [SetPrev(prev, At(s, k + 1), At(s, k - 1)) EXCEPT ![s[k]] = Null])
      BY <1>2, CodeLinksOut
    <3> QED
      BY <2>6, <3>1
  <2>8. head' = (IF k = 1 THEN [head EXCEPT ![q] = At(s, 2)] ELSE head)
    <3>1. k = 1 => At(s, k + 1) = At(s, 2)
      BY DEF At
    <3>2. head' = (IF t = head[q] THEN [head EXCEPT ![q] = At(s, k + 1)] ELSE head)
      BY <2>6
    <3> QED
      BY <2>5, <3>1, <3>2
  <2>9. Lined([Q EXCEPT ![q] = RemoveAt(s, k)], head', next', prev')
    BY <1>1, <2>7, <2>8, Unlinked
  <2>10. tcbDequeueEntry(s, t).queue = RemoveAt(s, k) /\ tcbDequeueEntry(s, t).tcb = t
    BY <1>8, <2>1 DEF tcbDequeueEntry
  <2> QED
    BY <1>1, <2>6, <2>9, <2>10
<1> QED
  BY <1>7, <1>8

-----------------------------------------------------------------------------

(* The invariant: the links hold lists, the ones that a walk along them    *)
(* reads.                                                                  *)
ListsInMemory == [q \in Queues |-> AsSequence(q)]
LinksInv == ret \in Pointers /\ Lined(ListsInMemory, head, next, prev)

LEMMA ListsAre == \A Q : Lined(Q, head, next, prev) => Q = ListsInMemory
<1> SUFFICES ASSUME NEW Q, Lined(Q, head, next, prev) PROVE Q = ListsInMemory
  OBVIOUS
<1>1. \A q \in Queues : AsSequence(q) = Q[q]
  BY ListOf
<1>2. Q \in [Queues -> Seq(Threads)]
  BY DEF Lined
<1> QED
  BY <1>1, <1>2 DEF ListsInMemory

LEMMA ListsAreNext == \A Q : Lined(Q, head', next', prev') => Q = ListsInMemory'
<1>1. (\A Q : Lined(Q, head, next, prev) => Q = ListsInMemory)'
  BY ListsAre, PTL
<1> QED
  BY <1>1 DEF Lined, Linked, BackLinked

LEMMA LinksInvInit == TcbInit => LinksInv
<1> SUFFICES ASSUME TcbInit PROVE LinksInv
  OBVIOUS
<1>1. PICK Q : Q = [q \in Queues |-> <<>>]
  OBVIOUS
<1>2. Q \in [Queues -> Seq(Threads)] /\ \A q \in Queues : Q[q] = <<>> /\ Range(Q[q]) = {}
  BY <1>1 DEF Range
<1>3. Lined(Q, head, next, prev)
  <2>1. /\ head \in [Queues -> Pointers] /\ next \in Links /\ prev \in Links
        /\ \A q \in Queues : head[q] = Null
        /\ \A t \in Threads : next[t] = Null /\ prev[t] = Null
    BY DEF TcbInit, Pointers, Links
  <2>2. At(<<>>, 1) = Null /\ NoDuplicates(<<>>)
    BY DEF At, NoDuplicates
  <2>3. ASSUME NEW q \in Queues
        PROVE  NoDuplicates(Q[q]) /\ Linked(head[q], next, Q[q]) /\ BackLinked(prev, Q[q])
    BY <1>2, <2>1, <2>2 DEF Linked, BackLinked
  <2> QED
    BY <1>2, <2>1, <2>3 DEF Lined
<1>4. Q = ListsInMemory
  BY <1>3, ListsAre
<1> QED
  BY <1>3, <1>4 DEF LinksInv, TcbInit, Pointers

(* What one operation does: the links hold the lists after the operation   *)
(* of TcbQueue on one of them, with the TCB returned that it returns.      *)
ListOp(Q, Q2, result) ==
    \E q \in Queues :
        \/ /\ Q2 = [Q EXCEPT ![q] = tcbDequeueHead(Q[q]).queue]
           /\ result = tcbDequeueHead(Q[q]).tcb
        \/ \E t \in Threads :
              \/ /\ \A r \in Queues : t \notin Range(Q[r])
                 /\ Q2 = [Q EXCEPT ![q] = tcbEnqueuePriority(Q[q], t)]
                 /\ result = Null
              \/ /\ Q2 = [Q EXCEPT ![q] = tcbDequeueEntry(Q[q], t).queue]
                 /\ result = tcbDequeueEntry(Q[q], t).tcb
              \/ /\ Q2 = [Q EXCEPT ![q] = tcbDequeuePriority(Q[q], Prio[t]).queue]
                 /\ result = tcbDequeuePriority(Q[q], Prio[t]).tcb

LEMMA TcbStep ==
    ASSUME NEW Q, Lined(Q, head, next, prev), TcbNext
    PROVE  /\ ret' \in Pointers
           /\ \E Q2 : Lined(Q2, head', next', prev') /\ ListOp(Q, Q2, ret')
<1>1. ASSUME NEW q \in Queues, DequeueHead(q)
      PROVE  /\ ret' \in Pointers
             /\ \E Q2 : Lined(Q2, head', next', prev') /\ ListOp(Q, Q2, ret')
  <2>1. PICK Q2 : Q2 = [Q EXCEPT ![q] = tcbDequeueHead(Q[q]).queue]
    OBVIOUS
  <2>2. Lined(Q2, head', next', prev') /\ ret' = tcbDequeueHead(Q[q]).tcb
    BY <1>1, <2>1, DequeueHeadStep
  <2>3. ListOp(Q, Q2, ret')
    BY <2>1, <2>2 DEF ListOp
  <2>4. ret' \in Pointers
    BY <1>1 DEF DequeueHead, Lined
  <2> QED
    BY <2>2, <2>3, <2>4
<1>2. ASSUME NEW q \in Queues, NEW t \in Threads, \A r \in Queues : t \notin OnList(r),
             EnqueuePriority(q, t)
      PROVE  /\ ret' \in Pointers
             /\ \E Q2 : Lined(Q2, head', next', prev') /\ ListOp(Q, Q2, ret')
  <2>1. PICK Q2 : Q2 = [Q EXCEPT ![q] = tcbEnqueuePriority(Q[q], t)]
    OBVIOUS
  <2>2. /\ Lined(Q2, head', next', prev') /\ ret' = Null
        /\ \A r \in Queues : t \notin Range(Q[r])
    BY <1>2, <2>1, EnqueueStep
  <2>3. ListOp(Q, Q2, ret')
    BY <2>1, <2>2 DEF ListOp
  <2> QED
    BY <2>2, <2>3 DEF Pointers
<1>3. ASSUME NEW q \in Queues, NEW t \in Threads, DequeueEntry(q, t)
      PROVE  /\ ret' \in Pointers
             /\ \E Q2 : Lined(Q2, head', next', prev') /\ ListOp(Q, Q2, ret')
  <2>1. PICK Q2 : Q2 = [Q EXCEPT ![q] = tcbDequeueEntry(Q[q], t).queue]
    OBVIOUS
  <2>2. Lined(Q2, head', next', prev') /\ ret' = tcbDequeueEntry(Q[q], t).tcb
    BY <1>3, <2>1, DequeueEntryStep
  <2>3. ListOp(Q, Q2, ret')
    BY <2>1, <2>2 DEF ListOp
  <2>4. ret' \in Pointers
    BY <2>2 DEF tcbDequeueEntry, Pointers
  <2> QED
    BY <2>2, <2>3, <2>4
<1>4. ASSUME NEW q \in Queues, NEW t \in Threads, DequeuePriority(q, Prio[t])
      PROVE  /\ ret' \in Pointers
             /\ \E Q2 : Lined(Q2, head', next', prev') /\ ListOp(Q, Q2, ret')
  <2>1. PICK Q2 : Q2 = [Q EXCEPT ![q] = tcbDequeuePriority(Q[q], Prio[t]).queue]
    OBVIOUS
  <2>2. Lined(Q2, head', next', prev') /\ ret' = tcbDequeuePriority(Q[q], Prio[t]).tcb
    BY <1>4, <2>1, DequeuePriorityStep
  <2>3. ListOp(Q, Q2, ret')
    BY <2>1, <2>2 DEF ListOp
  <2>4. ret' \in Pointers
    BY <1>4 DEF DequeuePriority, Lined, Pointers
  <2> QED
    BY <2>2, <2>3, <2>4
<1> QED
  BY <1>1, <1>2, <1>3, <1>4 DEF TcbNext

LEMMA LinksInvNext ==
    ASSUME LinksInv, [TcbNext]_tcbVars
    PROVE  LinksInv'
<1>1. CASE TcbNext
  <2>1. PICK Q2 : Lined(Q2, head', next', prev') /\ ret' \in Pointers
    BY <1>1, TcbStep DEF LinksInv
  <2>2. Q2 = ListsInMemory'
    BY <2>1, ListsAreNext
  <2>3. Lined(ListsInMemory', head', next', prev')
    BY <2>1, <2>2
  <2> QED
    BY <2>1, <2>3 DEF LinksInv, Lined, Linked, BackLinked
<1>2. CASE UNCHANGED tcbVars
  <2>1. head' = head /\ next' = next /\ prev' = prev /\ ret' = ret
    BY <1>2 DEF tcbVars
  <2>2. Lined(ListsInMemory, head', next', prev')
    BY <2>1 DEF LinksInv
  <2>3. Lined(ListsInMemory', head', next', prev')
    BY <2>2, ListsAreNext
  <2> QED
    BY <2>1, <2>3 DEF LinksInv, Lined, Linked, BackLinked
<1> QED
  BY <1>1, <1>2

(* Whatever is done with the list functions, in any order and on any       *)
(* number of lists, the links hold lists without a TCB twice and without   *)
(* one on two lists, and a TCB on no list has no link.                     *)
THEOREM LinksInvariant == TcbSpec => []LinksInv
<1>1. LinksInv /\ [TcbNext]_tcbVars => LinksInv'
  BY LinksInvNext
<1> QED
  BY <1>1, LinksInvInit, PTL DEF TcbSpec

(* Every list ends, prev_tcb mirrors next_tcb, no two lists share a TCB,   *)
(* and a dequeued TCB keeps no link.                                       *)
LEMMA LinksInvSound == LinksInv => LinksSound
<1> SUFFICES ASSUME LinksInv PROVE LinksSound
  OBVIOUS
<1>1. PICK Q : Q = ListsInMemory /\ Lined(Q, head, next, prev) /\ ret \in Pointers
  BY DEF LinksInv
<1>2. TcbTypeOK
  BY <1>1 DEF TcbTypeOK, Lined, Pointers, Links
<1>3. ASSUME NEW q \in Queues PROVE Walk(q)[Cardinality(Threads)] = Null
  <2>1. PICK s \in Seq(Threads) : s = Q[q] /\ NoDuplicates(s) /\ Linked(head[q], next, s)
    BY <1>1, ListOf
  <2>2. PICK N \in Nat : N = Cardinality(Threads) /\ Len(s) <= N
    BY <2>1, ListFits, TcbsAssumption
  <2>3. Walk(q)[N] = At(s, N + 1)
    BY <2>1, <2>2, WalkIs DEF WalkAlong
  <2>4. N + 1 \notin 1..Len(s)
    BY <2>2
  <2> QED
    BY <2>2, <2>3, <2>4 DEF At
<1>4. ASSUME NEW q \in Queues, head[q] # Null PROVE prev[head[q]] = Null
  BY <1>1, <1>4, HeadOut, EmptyList
<1>5. ASSUME NEW t \in Threads, next[t] # Null \/ prev[t] # Null
      PROVE  \E q \in Queues : \E i \in 1..Len(Q[q]) : Q[q][i] = t
  <2>1. PICK q \in Queues : t \in Range(Q[q])
    BY <1>1, <1>5 DEF Lined
  <2>2. Q[q] \in Seq(Threads)
    BY <1>1, ListOf
  <2> QED
    BY <2>1, <2>2, InRange
<1>6. ASSUME NEW t \in Threads, next[t] # Null PROVE prev[next[t]] = t
  <2>1. PICK q \in Queues : \E i \in 1..Len(Q[q]) : Q[q][i] = t
    BY <1>5, <1>6
  <2>2. PICK s \in Seq(Threads) : s = Q[q] /\ Linked(head[q], next, s) /\ BackLinked(prev, s)
    BY <1>1, ListOf
  <2>3. PICK i \in 1..Len(s) : s[i] = t
    BY <2>1, <2>2
  <2>4. next[t] = At(s, i + 1)
    BY <2>2, <2>3 DEF Linked
  <2>5. i + 1 \in 1..Len(s) /\ next[t] = s[i+1]
    BY <1>6, <2>4 DEF At
  <2>6. prev[s[i+1]] = At(s, (i + 1) - 1) /\ (i + 1) - 1 = i
    BY <2>2, <2>5 DEF BackLinked
  <2> QED
    BY <2>3, <2>5, <2>6 DEF At
<1>7. ASSUME NEW t \in Threads, prev[t] # Null PROVE next[prev[t]] = t
  <2>1. PICK q \in Queues : \E i \in 1..Len(Q[q]) : Q[q][i] = t
    BY <1>5, <1>7
  <2>2. PICK s \in Seq(Threads) : s = Q[q] /\ Linked(head[q], next, s) /\ BackLinked(prev, s)
    BY <1>1, ListOf
  <2>3. PICK i \in 1..Len(s) : s[i] = t
    BY <2>1, <2>2
  <2>4. prev[t] = At(s, i - 1)
    BY <2>2, <2>3 DEF BackLinked
  <2>5. i - 1 \in 1..Len(s) /\ prev[t] = s[i-1]
    BY <1>7, <2>4 DEF At
  <2>6. next[s[i-1]] = At(s, (i - 1) + 1) /\ (i - 1) + 1 = i
    BY <2>2, <2>5 DEF Linked
  <2> QED
    BY <2>3, <2>5, <2>6 DEF At
<1>8. \A q \in Queues : OnList(q) = Range(Q[q])
  BY <1>1, ListOf
<1>9. \A q, r \in Queues : q # r => OnList(q) \cap OnList(r) = {}
  BY <1>1, <1>8 DEF Lined
<1>10. ASSUME NEW t \in Threads, \A q \in Queues : t \notin OnList(q)
       PROVE  next[t] = Null /\ prev[t] = Null
  BY <1>1, <1>8, <1>10 DEF Lined
<1> QED
  BY <1>2, <1>3, <1>4, <1>6, <1>7, <1>9, <1>10 DEF LinksSound

(* The invariant of the model: no list is ever closed into a cycle or runs *)
(* into another, and prev_tcb is the way back of next_tcb.                 *)
THEOREM LinksSoundHolds == TcbSpec => []LinksSound
  BY LinksInvariant, LinksInvSound, PTL

(* The pointer manipulation of tcbEnqueuePriority, tcbDequeueHead,         *)
(* tcbDequeueEntry and tcbDequeuePriority implements the operations on     *)
(* sequences that the rest of the project uses: step by step, with the     *)
(* same TCB returned.                                                      *)
THEOREM ListsImplemented == TcbSpec => ImplementsLists
<1>1. TcbInit /\ LinksInv => Lists!ListsInit
  <2> SUFFICES ASSUME TcbInit, LinksInv PROVE Lists!ListsInit
    OBVIOUS
  <2>1. ASSUME NEW q \in Queues PROVE ListsInMemory[q] = <<>>
    BY <2>1, EmptyList DEF LinksInv, TcbInit
  <2> QED
    BY <2>1 DEF Lists!ListsInit, TcbInit, ListsInMemory
<1>2. ASSUME NEW s, NEW t
      PROVE  /\ Lists!tcbDequeueHead(s) = tcbDequeueHead(s)
             /\ Lists!tcbEnqueuePriority(s, t) = tcbEnqueuePriority(s, t)
             /\ Lists!tcbDequeueEntry(s, t) = tcbDequeueEntry(s, t)
             /\ Lists!tcbDequeuePriority(s, t) = tcbDequeuePriority(s, t)
  <2>1. Lists!tcbDequeueHead(s) = tcbDequeueHead(s)
    BY DEF Lists!tcbDequeueHead, tcbDequeueHead
  <2>2. Lists!tcbEnqueuePriority(s, t) = tcbEnqueuePriority(s, t)
    <3>1. Lists!InsertPos(s, t) = InsertPos(s, t)
      <4>1. ASSUME NEW S PROVE Lists!Min(S) = Min(S)
        BY DEF Lists!Min, Min
      <4> QED
        BY <4>1, Zenon DEF Lists!InsertPos, InsertPos
    <3> QED
      BY <3>1 DEF Lists!tcbEnqueuePriority, tcbEnqueuePriority, Lists!InsertAt, InsertAt
  <2>3. Lists!tcbDequeueEntry(s, t) = tcbDequeueEntry(s, t)
    <3>1. Lists!Contains(s, t) = Contains(s, t)
      BY DEF Lists!Contains, Contains
    <3>2. Lists!RemoveFirst(s, t) = RemoveFirst(s, t)
      <4> DEFINE at == { i \in 1..Len(s) : s[i] = t }
      <4>1. /\ Lists!SelectInSeq(s, LAMBDA v : v = t) = IF at = {} THEN 0 ELSE Lists!Min(at)
            /\ SelectInSeq(s, LAMBDA v : v = t) = IF at = {} THEN 0 ELSE Min(at)
        BY Zenon DEF Lists!SelectInSeq, SelectInSeq
      <4>2. Lists!Min(at) = Min(at)
        BY DEF Lists!Min, Min
      <4> HIDE DEF at
      <4> QED
        BY <4>1, <4>2, Zenon DEF Lists!RemoveFirst, RemoveFirst, Lists!RemoveAt, RemoveAt
    <3> QED
      BY <3>1, <3>2 DEF Lists!tcbDequeueEntry, tcbDequeueEntry
  <2>4. Lists!tcbDequeuePriority(s, t) = tcbDequeuePriority(s, t)
    BY DEF Lists!tcbDequeuePriority, tcbDequeuePriority
  <2> QED
    BY <2>1, <2>2, <2>3, <2>4
<1>3. Lists!Listed = UNION { Range(ListsInMemory[q]) : q \in Queues }
  BY DEF Lists!Listed, ListsInMemory, Lists!Range, Range
<1>4. LinksInv /\ LinksInv' /\ [TcbNext]_tcbVars => [Lists!ListsNext]_(Lists!listVars)
  <2> SUFFICES ASSUME LinksInv, LinksInv', [TcbNext]_tcbVars
               PROVE  [Lists!ListsNext]_(Lists!listVars)
    OBVIOUS
  <2>1. CASE TcbNext
    <3>1. PICK Q : Q = ListsInMemory
      OBVIOUS
    <3>2. PICK Q2 : Lined(Q2, head', next', prev') /\ ListOp(Q, Q2, ret')
      BY <2>1, <3>1, TcbStep DEF LinksInv
    <3>3. Q2 = ListsInMemory'
      BY <3>2, ListsAreNext
    <3>4. ASSUME NEW q \in Queues, NEW r, Q2 = [Q EXCEPT ![q] = r.queue], ret' = r.tcb
          PROVE  Lists!Dequeued(q, r)
      BY <3>1, <3>3, <3>4 DEF Lists!Dequeued, ListsInMemory
    <3>5. PICK q \in Queues :
            \/ /\ Q2 = [Q EXCEPT ![q] = tcbDequeueHead(Q[q]).queue]
               /\ ret' = tcbDequeueHead(Q[q]).tcb
            \/ \E t \in Threads :
                  \/ /\ \A r \in Queues : t \notin Range(Q[r])
                     /\ Q2 = [Q EXCEPT ![q] = tcbEnqueuePriority(Q[q], t)]
                     /\ ret' = Null
                  \/ /\ Q2 = [Q EXCEPT ![q] = tcbDequeueEntry(Q[q], t).queue]
                     /\ ret' = tcbDequeueEntry(Q[q], t).tcb
                  \/ /\ Q2 = [Q EXCEPT ![q] = tcbDequeuePriority(Q[q], Prio[t]).queue]
                     /\ ret' = tcbDequeuePriority(Q[q], Prio[t]).tcb
      BY <3>2 DEF ListOp
    <3>6. Q[q] = ListsInMemory[q]
      BY <3>1
    <3>7. CASE /\ Q2 = [Q EXCEPT ![q] = tcbDequeueHead(Q[q]).queue]
               /\ ret' = tcbDequeueHead(Q[q]).tcb
      <4>1. Lists!Dequeued(q, Lists!tcbDequeueHead(ListsInMemory[q]))
        BY <1>2, <3>4, <3>6, <3>7
      <4> QED
        BY <4>1 DEF Lists!ListsNext, ListsInMemory
    <3>8. ASSUME NEW t \in Threads, \A r \in Queues : t \notin Range(Q[r]),
                 Q2 = [Q EXCEPT ![q] = tcbEnqueuePriority(Q[q], t)], ret' = Null
          PROVE  Lists!ListsNext
      <4>1. t \notin Lists!Listed
        BY <1>3, <3>1, <3>8
      <4>2. ListsInMemory' = [ListsInMemory EXCEPT ![q] = Lists!tcbEnqueuePriority(ListsInMemory[q], t)]
        BY <1>2, <3>1, <3>3, <3>8
      <4>3. Lists!Enqueue(q, t)
        BY <3>8, <4>1, <4>2 DEF Lists!Enqueue, ListsInMemory
      <4> QED
        BY <4>3 DEF Lists!ListsNext
    <3>9. ASSUME NEW t \in Threads, Q2 = [Q EXCEPT ![q] = tcbDequeueEntry(Q[q], t).queue],
                 ret' = tcbDequeueEntry(Q[q], t).tcb
          PROVE  Lists!ListsNext
      <4>1. Lists!Dequeued(q, Lists!tcbDequeueEntry(ListsInMemory[q], t))
        BY <1>2, <3>4, <3>6, <3>9
      <4> QED
        BY <4>1 DEF Lists!ListsNext, ListsInMemory
    <3>10. ASSUME NEW t \in Threads,
                  Q2 = [Q EXCEPT ![q] = tcbDequeuePriority(Q[q], Prio[t]).queue],
                  ret' = tcbDequeuePriority(Q[q], Prio[t]).tcb
           PROVE  Lists!ListsNext
      <4>1. Lists!Dequeued(q, Lists!tcbDequeuePriority(ListsInMemory[q], Prio[t]))
        BY <1>2, <3>4, <3>6, <3>10
      <4> QED
        BY <4>1 DEF Lists!ListsNext, ListsInMemory
    <3> QED
      BY <3>5, <3>7, <3>8, <3>9, <3>10
  <2>2. CASE UNCHANGED tcbVars
    <3>1. head' = head /\ next' = next /\ prev' = prev /\ ret' = ret
      BY <2>2 DEF tcbVars
    <3>2. Lined(ListsInMemory, head', next', prev')
      BY <3>1 DEF LinksInv
    <3>3. ListsInMemory' = ListsInMemory
      BY <3>2, ListsAreNext
    <3> QED
      BY <3>1, <3>3 DEF Lists!listVars, ListsInMemory
  <2> QED
    BY <2>1, <2>2
<1> QED
  BY <1>1, <1>4, LinksInvInit, LinksInvariant, PTL DEF TcbSpec, ImplementsLists, Lists!ListsSpec

-----------------------------------------------------------------------------

(* How many ticks a timer has to run.  While the tick handler walks the    *)
(* list, the timers it has not come to are one tick behind.                *)
TicksLeft(tm) == IF tm \in Range(walk) THEN cbTicks[tm] - 1 ELSE cbTicks[tm]
OnTime(tm) == deadline[tm] = TicksAhead(TicksLeft(tm))

(* The inductive invariant: what is counted down is in step with the time. *)
OnTimeInv ==
    /\ TimerInv
    /\ deadline \in [Timers -> 0..(TickMod - 1)]
    /\ \A tm \in Range(timerQ) : OnTime(tm)

-----------------------------------------------------------------------------

(* Counting modulo m.                                                      *)
LEMMA Remainder ==
    ASSUME NEW m \in Nat \ {0}, NEW a \in Int
    PROVE  \E q \in Int, r \in 0..(m-1) : a = (m * q) + r /\ a % m = r
<1>1. a \div m \in Int /\ a = (m * (a \div m)) + (a % m)
  OBVIOUS
<1>2. a % m \in 0..(m-1)
  OBVIOUS
<1> QED
  BY <1>1, <1>2

LEMMA RemainderIsUnique ==
    ASSUME NEW m \in Nat \ {0}, NEW k \in Int, NEW r \in 0..(m-1), NEW s \in 0..(m-1),
           r = (m * k) + s
    PROVE  r = s
<1>1. CASE k >= 1
  <2>1. m * k >= m
    BY <1>1
  <2> QED
    BY <2>1
<1>2. CASE k <= -1
  <2>1. m * k <= -m
    BY <1>2
  <2> QED
    BY <2>1
<1>3. CASE k = 0
  BY <1>3
<1> QED
  BY <1>1, <1>2, <1>3

LEMMA RemainderOfSum ==
    ASSUME NEW m \in Nat \ {0}, NEW a \in Int, NEW b \in Int
    PROVE  ((a % m) + b) % m = (a + b) % m
<1>1. PICK q \in Int, r \in 0..(m-1) : a = (m * q) + r /\ a % m = r
  BY Remainder
<1>2. PICK p \in Int, c \in 0..(m-1) : r + b = (m * p) + c /\ (r + b) % m = c
  <2>1. r + b \in Int
    OBVIOUS
  <2> QED
    BY <2>1, Remainder
<1>3. PICK s \in Int, d \in 0..(m-1) : a + b = (m * s) + d /\ (a + b) % m = d
  <2>1. a + b \in Int
    OBVIOUS
  <2> QED
    BY <2>1, Remainder
<1>4. PICK k \in Int : k = (q + p) - s
  OBVIOUS
<1>5. d = (((m * q) + (m * p)) - (m * s)) + c
  <2>1. m * q \in Int /\ m * p \in Int /\ m * s \in Int
    OBVIOUS
  <2> QED
    BY <1>1, <1>2, <1>3, <2>1
<1>6. m * k = ((m * q) + (m * p)) - (m * s)
  BY <1>4
<1>7. d = c
  BY <1>5, <1>6, RemainderIsUnique
<1> QED
  BY <1>1, <1>2, <1>3, <1>7

(* A deadline n ticks ahead of the time s is one tick closer on the next.  *)
LEMMA DeadlineCloser ==
    ASSUME NEW m \in Nat \ {0}, NEW s \in Int, NEW n \in Int
    PROVE  (((s + 1) % m) + (n - 1)) % m = (s + n) % m
<1>1. PICK a \in Int : a = s + 1
  OBVIOUS
<1>2. PICK b \in Int : b = n - 1
  OBVIOUS
<1>3. a + b = s + n
  BY <1>1, <1>2
<1>4. ((a % m) + b) % m = (a + b) % m
  BY RemainderOfSum
<1> QED
  BY <1>1, <1>2, <1>3, <1>4

LEMMA SmallRemainder ==
    ASSUME NEW m \in Nat \ {0}, NEW a \in 0..(m-1)
    PROVE  a % m = a
<1>1. PICK q \in Int, r \in 0..(m-1) : a = (m * q) + r /\ a % m = r
  <2>1. a \in Int
    OBVIOUS
  <2> QED
    BY <2>1, Remainder
<1> QED
  BY <1>1, RemainderIsUnique

-----------------------------------------------------------------------------

(* The timers that stay on the list are counted down by the walk only.     *)
ListKept ==
    /\ Range(timerQ') \subseteq Range(timerQ)
    /\ \A tm \in Range(timerQ') : cbTicks'[tm] = cbTicks[tm]
    /\ walk' = walk
    /\ Range(due') \subseteq Range(due)
    /\ systemTicks' = systemTicks \/ intr' = intr

Registers(tm) ==
    /\ tm \notin Range(timerQ)
    /\ Range(timerQ') = Range(timerQ) \cup {tm}
    /\ \A u \in Range(timerQ) : cbTicks'[u] = cbTicks[u]
    /\ Range(walk) = {}
    /\ UNCHANGED <<walk, due, systemTicks>>

LEMMA ListFacts ==
    ASSUME TimerInv
    PROVE  /\ timerQ \in Seq(Timers) /\ Range(timerQ) \subseteq Timers
           /\ cbTicks \in [Timers -> Nat] /\ systemTicks \in 0..(TickMod - 1)
           /\ Range(walk) \subseteq Range(timerQ)
           /\ intr # "tick" => Range(walk) = {}
<1>1. timerQ \in Seq(Timers)
  BY DEF TimerInv, SuspendInv, TimerListInv, TimerLibTypeOK
<1>2. Range(timerQ) \subseteq Timers
  BY <1>1, InRange
<1>3. intr # "tick" => Range(walk) = {}
  BY DEF TimerInv, SuspendInv, TimerListInv, Range
<1> QED
  BY <1>1, <1>2, <1>3 DEF TimerInv, SuspendInv, TimerListInv, TimerLibTypeOK

LEMMA NextFacts ==
    ASSUME TimerInv'
    PROVE  /\ timerQ' \in Seq(Timers) /\ Range(timerQ') \subseteq Timers
           /\ cbTicks' \in [Timers -> Nat]
           /\ systemTicks' \in 0..(TickMod - 1) /\ systemTicks' \in Int
<1>1. /\ timerQ' \in Seq(Timers) /\ cbTicks' \in [Timers -> Nat]
      /\ systemTicks' \in 0..(TickMod - 1)
  BY DEF TimerInv, SuspendInv, TimerListInv, TimerLibTypeOK
<1>2. Range(timerQ') \subseteq Timers
  BY <1>1, InRange
<1>3. 0..(TickMod - 1) \subseteq Int
  BY TickModAssumption
<1> QED
  BY <1>1, <1>2, <1>3

(* Who calls the timers interrupts no walk.                                *)
LEMMA NoWalk ==
    ASSUME TimerInv, NEW c, MayCallTimer(c)
    PROVE  walk = <<>> /\ Range(walk) = {}
<1>1. intr = "tick" => walk = <<>>
  BY DEF MayCallTimer, MayCall, InAppCallback, atomCurrentContext
<1> QED
  BY <1>1 DEF TimerInv, SuspendInv, TimerListInv, Range

(* The four kinds of steps.                                                *)
LEMMA StepKinds ==
    ASSUME TimerInv, TimerNext
    PROVE  ListKept \/ (\E tm \in Timers : Registers(tm)) \/ atomTimerTick \/ TimerWalk
<1>1. CASE UNCHANGED timerVars
  BY <1>1 DEF timerVars, ListKept
<1>2. ASSUME NEW t \in AppThreads, NEW ticks \in Ticks, MayCall(t), atomTimerDelay(t, ticks)
      PROVE  Registers(t) /\ t \in Timers
  <2>1. /\ t \in Threads /\ atomCurrentContext = t /\ pc[t] = "app"
    BY <1>2, ThreadsAssumption DEF AppThreads, MayCall
  <2>2. t \notin Range(timerQ)
    BY <2>1, RunningFacts DEF TimerInv, PendingTimers
  <2>3. Range(walk) = {}
    BY <1>2, NoWalk DEF MayCallTimer
  <2>4. Range(timerQ') = Range(timerQ) \cup {t} /\ t \in Timers
    BY <1>2, ListFacts, PrependedProperties DEF atomTimerDelay, Register, Timers
  <2> QED
    BY <1>2, <2>2, <2>3, <2>4, ListFacts DEF atomTimerDelay, Register, Registers
<1>3. ASSUME NEW c \in Contexts, NEW tm \in AppTimers, MayCallTimer(c), NEW ticks \in Ticks,
             AppTimerRegister(tm, ticks)
      PROVE  Registers(tm) /\ tm \in Timers
  <2>1. tm \in Timers
    BY DEF Timers
  <2>2. Range(timerQ') = Range(timerQ) \cup {tm}
    BY <1>3, <2>1, ListFacts, PrependedProperties DEF AppTimerRegister, Register
  <2> QED
    BY <1>3, <2>1, <2>2, NoWalk, ListFacts DEF AppTimerRegister, Register, Registers
<1>4. ASSUME NEW tm \in AppTimers, AppTimerCancel(tm)
      PROVE  ListKept
  <2>1. Range(timerQ') \subseteq Range(timerQ)
    BY <1>4, ListFacts, RemoveFirstProperties DEF AppTimerCancel, CancelTimer
  <2> QED
    BY <1>4, <2>1 DEF AppTimerCancel, ListKept
<1>5. ASSUME NEW t \in AppThreads, DelayReturn(t)
      PROVE  ListKept
  <2>1. /\ t \in Threads /\ atomCurrentContext = t /\ pc[t] = "delayed"
    BY <1>5 DEF AppThreads, DelayReturn
  <2>2. t \notin Range(timerQ)
    BY <2>1, RunningFacts DEF TimerInv, PendingTimers
  <2> QED
    BY <1>5, <2>2, ListFacts DEF DelayReturn, DropStackTimer, ListKept
<1>6. ASSUME due # <<>>, due' = Tail(due), UNCHANGED <<timerQ, cbTicks, walk, systemTicks>>
      PROVE  ListKept
  <2>1. Range(due') \subseteq Range(due)
    BY <1>6, TailProperties DEF TimerInv, SuspendInv, TimerListInv, TimerLibTypeOK
  <2> QED
    BY <1>6, <2>1 DEF ListKept
<1>7. ASSUME NEW now \in NewTimes, atomTimeSet(now) PROVE ListKept
  BY <1>7 DEF atomTimeSet, kernelVars, ListKept
<1>8. CASE KernelStep
  BY <1>1, <1>8 DEF KernelStep
<1>9. CASE TimerCall
  BY <1>1, <1>2, <1>3, <1>4, <1>5, <1>7, <1>9 DEF TimerCall, DelaySched
<1>10. CASE TickHandler
  BY <1>1, <1>6, <1>10
     DEF TickHandler, atomTimerDelayCallback, CallbackDue, AppCallbackReturn, InAppCallback,
         TimerTickExit
<1> QED
  BY <1>8, <1>9, <1>10 DEF TimerNext

-----------------------------------------------------------------------------

(* The deadline of a timer that has as many ticks left as before moves     *)
(* with the time.                                                          *)
LEMMA StaysOnTime ==
    ASSUME OnTimeInv, TimerInv', NEW tm \in Range(timerQ),
           NEW shift \in Int, shift = systemTicks' - systemTicks,
           deadline'[tm] = (deadline[tm] + shift) % TickMod,
           TicksLeft(tm)' = TicksLeft(tm)
    PROVE  OnTime(tm)'
<1>1. /\ tm \in Timers /\ cbTicks[tm] \in Nat
      /\ systemTicks \in Int /\ systemTicks' \in Int
  <2>1. systemTicks' \in Int
    BY NextFacts
  <2> QED
    BY <2>1, ListFacts DEF OnTimeInv
<1>2. TicksLeft(tm) \in Int /\ deadline[tm] \in Int
  BY <1>1 DEF TicksLeft, OnTimeInv
<1>3. deadline[tm] = (systemTicks + TicksLeft(tm)) % TickMod
  BY DEF OnTimeInv, OnTime, TicksAhead
<1>4. deadline'[tm] = (systemTicks' + TicksLeft(tm)) % TickMod
  <2>1. PICK n \in Int : n = TicksLeft(tm)
    BY <1>2
  <2>2. PICK d \in Int : d = deadline[tm]
    BY <1>2
  <2>3. d = (systemTicks + n) % TickMod
    BY <1>3, <2>1, <2>2
  <2>4. PICK a \in Int : a = systemTicks + n
    BY <1>1
  <2>5. a + shift = systemTicks' + n
    BY <1>1, <2>4
  <2>6. ((a % TickMod) + shift) % TickMod = (a + shift) % TickMod
    BY TickModAssumption, RemainderOfSum
  <2> QED
    BY <2>1, <2>2, <2>3, <2>4, <2>5, <2>6
<1> QED
  BY <1>4 DEF OnTime, TicksAhead

(* Every step keeps the deadlines.                                         *)
LEMMA OnTimeStep ==
    ASSUME OnTimeInv, HistoryNext
    PROVE  OnTimeInv'
<1>1. TimerInv /\ TimerNext /\ TimerInv'
  BY TimerStepInv DEF OnTimeInv, HistoryNext
<1>2. \A tm \in Timers :
          deadline'[tm] = IF Registered(tm) THEN TicksAhead(cbTicks'[tm])
                          ELSE (deadline[tm] + Shift) % TickMod
  BY DEF HistoryNext
<1>3. /\ Range(timerQ) \subseteq Timers /\ Range(timerQ') \subseteq Timers
      /\ cbTicks \in [Timers -> Nat] /\ cbTicks' \in [Timers -> Nat]
      /\ systemTicks \in 0..(TickMod - 1) /\ systemTicks' \in 0..(TickMod - 1)
  BY <1>1, ListFacts, NextFacts
<1>4. Shift \in Int
  BY <1>3 DEF Shift
<1>5. deadline' \in [Timers -> 0..(TickMod - 1)]
  <2>1. ASSUME NEW tm \in Timers PROVE deadline'[tm] \in 0..(TickMod - 1)
    <3>1. systemTicks + cbTicks'[tm] \in Int /\ deadline[tm] + Shift \in Int
      BY <1>3, <1>4 DEF OnTimeInv
    <3>2. \A a \in Int : a % TickMod \in 0..(TickMod - 1)
      BY TickModAssumption
    <3> QED
      BY <1>2, <3>1, <3>2 DEF TicksAhead
  <2>2. deadline' = [tm \in Timers |-> deadline'[tm]]
    BY DEF HistoryNext
  <2> QED
    BY <2>1, <2>2
<1>6. ASSUME NEW tm \in Range(timerQ) PROVE deadline'[tm] = (deadline[tm] + Shift) % TickMod
  BY <1>2, <1>3, <1>6 DEF Registered
<1>7. ASSUME NEW tm \in Range(timerQ), systemTicks' = systemTicks \/ intr' = intr,
             TicksLeft(tm)' = TicksLeft(tm)
      PROVE  OnTime(tm)'
  <2>1. Shift = systemTicks' - systemTicks
    <3>1. CASE systemTicks' = systemTicks
      <4>1. systemTicks' - systemTicks = 0
        BY <1>3, <3>1
      <4> QED
        BY <4>1 DEF Shift
    <3>2. CASE intr' = intr
      BY <3>2 DEF Shift
    <3> QED
      BY <1>7, <3>1, <3>2
  <2> QED
    BY <1>1, <1>4, <1>6, <1>7, <2>1, StaysOnTime
<1>8. ASSUME ListKept PROVE \A tm \in Range(timerQ') : OnTime(tm)'
  BY <1>7, <1>8 DEF ListKept, OnTimeInv, TicksLeft
<1>9. ASSUME NEW tm \in Timers, Registers(tm) PROVE \A u \in Range(timerQ') : OnTime(u)'
  <2>1. OnTime(tm)'
    <3>1. deadline'[tm] = TicksAhead(cbTicks'[tm])
      BY <1>2, <1>9 DEF Registers, Registered
    <3> QED
      BY <1>9, <3>1 DEF Registers, OnTime, TicksAhead, TicksLeft
  <2>2. ASSUME NEW u \in Range(timerQ) PROVE OnTime(u)'
    BY <1>7, <1>9, <2>2 DEF Registers, TicksLeft
  <2> QED
    BY <1>9, <2>1, <2>2 DEF Registers
<1>10. ASSUME atomTimerTick PROVE \A tm \in Range(timerQ') : OnTime(tm)'
  <2>1. /\ intr = "none" /\ intr' = "tick" /\ walk' = timerQ /\ UNCHANGED <<timerQ, cbTicks>>
        /\ systemTicks' = (systemTicks + 1) % TickMod
    BY <1>10 DEF atomTimerTick, TickEnter, atomIntEnter
  <2>2. Range(walk) = {} /\ Shift = 0
    BY <1>1, <2>1, ListFacts DEF Shift
  <2>3. ASSUME NEW tm \in Range(timerQ) PROVE OnTime(tm)'
    <3>1. PICK n \in Int : n = cbTicks[tm]
      BY <1>3, <2>3
    <3>2. deadline[tm] \in 0..(TickMod - 1) /\ deadline[tm] = (systemTicks + n) % TickMod
      BY <1>3, <2>2, <2>3, <3>1 DEF OnTimeInv, OnTime, TicksAhead, TicksLeft
    <3>3. deadline'[tm] = deadline[tm]
      BY <1>6, <2>2, <2>3, <3>2, TickModAssumption, SmallRemainder
    <3>4. TicksLeft(tm)' = n - 1
      BY <2>1, <2>3, <3>1 DEF TicksLeft
    <3>5. (systemTicks' + (n - 1)) % TickMod = (systemTicks + n) % TickMod
      BY <1>3, <2>1, TickModAssumption, DeadlineCloser
    <3> QED
      BY <3>2, <3>3, <3>4, <3>5 DEF OnTime, TicksAhead
  <2> QED
    BY <2>1, <2>3
<1>11. ASSUME TimerWalk PROVE \A tm \in Range(timerQ') : OnTime(tm)'
  <2> DEFINE tm == Head(walk)
  <2>1. /\ intr = "tick" /\ walk # <<>> /\ walk' = Tail(walk) /\ systemTicks' = systemTicks
        /\ cbTicks' = [cbTicks EXCEPT ![tm] = cbTicks[tm] - 1]
        /\ timerQ' = timerQ \/ timerQ' = RemoveFirst(timerQ, tm)
    BY <1>11 DEF TimerWalk
  <2>2. Range(walk) = Range(walk') \cup {tm} /\ tm \notin Range(walk')
    BY <1>1, <2>1, TailProperties DEF TimerInv, SuspendInv, TimerListInv, TimerLibTypeOK
  <2> HIDE DEF tm
  <2>3. Range(timerQ') \subseteq Range(timerQ)
    BY <1>1, <2>1, ListFacts, RemoveFirstProperties
  <2>4. ASSUME NEW u \in Range(timerQ) PROVE TicksLeft(u)' = TicksLeft(u)
    BY <1>3, <2>1, <2>2, <2>4 DEF TicksLeft
  <2> QED
    BY <1>7, <2>1, <2>3, <2>4
<1>12. \A tm \in Range(timerQ') : OnTime(tm)'
  BY <1>1, <1>8, <1>9, <1>10, <1>11, StepKinds
<1> QED
  BY <1>1, <1>5, <1>12 DEF OnTimeInv

LEMMA OnTimeInit == HistoryInit => OnTimeInv
<1> SUFFICES ASSUME HistoryInit PROVE OnTimeInv
  OBVIOUS
<1>1. TimerInv
  BY TimerInitInv DEF HistoryInit
<1>2. Range(timerQ) = {}
  BY DEF HistoryInit, TimerInit, TimerLibInit, Range
<1> QED
  BY <1>1, <1>2, TickModAssumption DEF HistoryInit, OnTimeInv

LEMMA OnTimeStutter ==
    ASSUME OnTimeInv, UNCHANGED <<vars, deadline>>
    PROVE  OnTimeInv'
<1>1. TimerInv'
  BY TimerStepInv DEF OnTimeInv
<1> QED
  BY <1>1 DEF OnTimeInv, OnTime, TicksAhead, TicksLeft, vars, timerVars

THEOREM OnTimeInvariant == HistorySpec => []OnTimeInv
<1>1. OnTimeInv /\ [HistoryNext]_<<vars, deadline>> => OnTimeInv'
  BY OnTimeStep, OnTimeStutter
<1> QED
  BY <1>1, OnTimeInit, PTL DEF HistorySpec

(* A callback that a step makes due is that of a timer whose last tick is  *)
(* this one.                                                               *)
LEMMA DueOnTime ==
    ASSUME OnTimeInv, TimerNext
    PROVE  \A tm \in Range(due') \ Range(due) : deadline[tm] = systemTicks
<1>1. TimerInv
  BY DEF OnTimeInv
<1>2. CASE ListKept \/ (\E tm \in Timers : Registers(tm)) \/ atomTimerTick
  BY <1>2 DEF ListKept, Registers, atomTimerTick
<1>3. CASE TimerWalk
  <2> DEFINE tm == Head(walk)
  <2>1. /\ walk # <<>>
        /\ due' = due \/ (cbTicks[tm] = 1 /\ due' = Append(due, tm))
    BY <1>3 DEF TimerWalk
  <2>2. tm \in Range(walk) /\ tm \in Timers /\ due \in Seq(Timers)
    BY <1>1, <2>1, TailProperties DEF TimerInv, SuspendInv, TimerListInv, TimerLibTypeOK
  <2> HIDE DEF tm
  <2>3. CASE cbTicks[tm] = 1 /\ due' = Append(due, tm)
    <3>1. deadline[tm] = (systemTicks + 0) % TickMod
      BY <1>1, <2>2, <2>3, ListFacts DEF OnTimeInv, OnTime, TicksAhead, TicksLeft
    <3>2. deadline[tm] = systemTicks
      BY <1>1, <3>1, ListFacts, TickModAssumption, SmallRemainder
    <3>3. Range(due') \subseteq Range(due) \cup {tm}
      BY <2>2, <2>3 DEF Range
    <3> QED
      BY <3>2, <3>3
  <2> QED
    BY <2>1, <2>3
<1> QED
  BY <1>1, <1>2, <1>3, StepKinds

(* A callback falls due on the tick its timer was registered for, for any  *)
(* number of timers and ticks, in any order of registrations and           *)
(* cancellations, across the roll-over of system_ticks and when it is set. *)
THEOREM FiresOnTimeHolds == HistorySpec => FiresOnTime
<1>1. OnTimeInv /\ [HistoryNext]_<<vars, deadline>> =>
        [ \A tm \in Range(due') \ Range(due) : deadline[tm] = systemTicks ]_<<vars, deadline>>
  BY DueOnTime DEF HistoryNext
<1> QED
  BY <1>1, OnTimeInvariant, PTL DEF HistorySpec, FiresOnTime

-----------------------------------------------------------------------------

(* The pointers of the timer library.                                      *)
TimerPointers == Timers \cup {Null}
TimerChains == [Timers -> TimerPointers]

(* list holds the timers of s; calls holds those of s, the last of them at *)
(* its tail.                                                               *)
ChainOf(list, s) ==
    /\ list = [head |-> list.head, next |-> list.next]
    /\ list.head \in TimerPointers /\ list.next \in TimerChains
    /\ Linked(list.head, list.next, s)
CallsOf(list, s) ==
    /\ list = [head |-> list.head, tail |-> list.tail, next |-> list.next]
    /\ list.head \in TimerPointers /\ list.tail \in TimerPointers /\ list.next \in TimerChains
    /\ Linked(list.head, list.next, s)
    /\ s # <<>> => list.tail = s[Len(s)]

LEMMA TimerAt ==
    ASSUME NEW s \in Seq(Timers), NEW i \in Int
    PROVE  /\ At(s, i) \in TimerPointers
           /\ At(s, i) # Null <=> i \in 1..Len(s)
           /\ i \in 1..Len(s) => At(s, i) = s[i] /\ s[i] \in Timers
           /\ i \notin 1..Len(s) => At(s, i) = Null
  BY LinkedTimersAssumption, AtOf DEF TimerPointers

(* The timers that are read along the links of a list are the list.        *)
LEMMA ListFromIs ==
    ASSUME NEW s \in Seq(Timers), NoDuplicates(s), NEW first, NEW chain, Linked(first, chain, s)
    PROVE  TL!ListFrom(first, chain) = s
<1>1. PICK N \in Nat : N = Cardinality(Timers) /\ Len(s) <= N
  BY ListFits, LinkedTimersAssumption
<1>2. TL!Cardinality(Timers) = N
  BY <1>1 DEF TL!Cardinality, Cardinality
<1>3. PICK ptr : ptr = TL!WalkFrom(first, chain)
  OBVIOUS
<1>4. WalkRule(ptr, N, first, chain)
  <2>1. ptr = CHOOSE p : WalkRule(p, N, first, chain)
    BY <1>2, <1>3 DEF TL!WalkFrom, WalkRule
  <2>2. \E p : WalkRule(p, N, first, chain)
    BY LinkedTimersAssumption, WalkExists
  <2> QED
    BY <2>1, <2>2
<1>5. DOMAIN ptr = 0..N /\ WalkAlong(ptr, N, s)
  BY <1>1, <1>4, LinkedTimersAssumption, Walked
<1>6. PICK ends : ends = { i \in DOMAIN ptr : ptr[i] = Null }
  OBVIOUS
<1>7. NullsOf(ends, ptr, N)
  BY <1>5, <1>6 DEF NullsOf
<1>8. Min(ends) = Len(s) /\ N \in ends /\ \A i \in 1..Len(s) : ptr[i-1] = s[i]
  <2>1. Null \notin Timers /\ N \in Nat /\ Len(s) <= N /\ WalkAlong(ptr, N, s)
    BY <1>1, <1>5, ListFits, LinkedTimersAssumption
  <2>2. Min(ends) = Len(s) /\ N \in ends
    BY <1>7, <2>1, WalkEnds
  <2>3. \A i \in 1..Len(s) : ptr[i-1] = s[i]
    BY <1>7, <2>1, WalkEnds
  <2> QED
    BY <2>2, <2>3
<1>9. TL!ListFrom(first, chain) = [i \in 1..Min(ends) |-> ptr[i-1]]
  <2> DEFINE ends0 == { i \in DOMAIN TL!WalkFrom(first, chain) :
                           TL!WalkFrom(first, chain)[i] = Null }
                       \cup {TL!Cardinality(Timers)}
  <2>1. TL!ListFrom(first, chain) = [i \in 1..TL!Min(ends0) |-> TL!WalkFrom(first, chain)[i-1]]
    BY DEF TL!ListFrom
  <2>2. ends0 = ends
    BY <1>2, <1>3, <1>6, <1>8
  <2>3. TL!Min(ends) = Min(ends)
    BY DEF TL!Min, Min
  <2> HIDE DEF ends0
  <2> QED
    BY <1>3, <2>1, <2>2, <2>3
<1> QED
  BY <1>8, <1>9

(* A timer is linked in at the head ...                                    *)
LEMMA LinkedFirst ==
    ASSUME NEW s \in Seq(Timers), NEW tm \in Timers, tm \notin Range(s),
           NEW list, ChainOf(list, s)
    PROVE  ChainOf(TL!LinkFirst(list, tm), <<tm>> \o s)
<1>0. PICK first \in TimerPointers, chain \in TimerChains :
         list = [head |-> first, next |-> chain] /\ Linked(first, chain, s)
  BY DEF ChainOf
<1>1. PICK n \in Nat : n = Len(s)
  BY LenProperties
<1>2. PICK new : new = <<tm>> \o s
  OBVIOUS
<1>3. Len(new) = n + 1 /\ \A i \in 1..(n+1) : new[i] = IF i = 1 THEN tm ELSE s[i-1]
  BY <1>1, <1>2
<1>4. PICK nx : nx = [chain EXCEPT ![tm] = first]
  OBVIOUS
<1>5. nx \in TimerChains /\ \A x \in Timers : nx[x] = IF x = tm THEN first ELSE chain[x]
  BY <1>4 DEF TimerChains
<1>6. ASSUME NEW i \in 1..(n+1) PROVE nx[new[i]] = At(new, i + 1)
  <2>1. CASE i = 1
    <3>1. At(new, 2) = At(s, 1)
      BY <1>1, <1>3 DEF At
    <3> QED
      BY <1>0, <1>3, <1>5, <2>1, <3>1 DEF Linked
  <2>2. CASE i # 1
    <3>1. i - 1 \in 1..n /\ new[i] = s[i-1] /\ (i - 1) + 1 = i
      BY <1>3, <2>2
    <3>2. s[i-1] \in Timers /\ s[i-1] # tm
      BY <1>1, <3>1, InRange
    <3>3. chain[s[i-1]] = At(s, i)
      BY <1>0, <1>1, <3>1 DEF Linked
    <3>4. At(new, i + 1) = At(s, i)
      <4>1. CASE i = n + 1
        BY <1>1, <1>3, <4>1 DEF At
      <4>2. CASE i # n + 1
        <5>1. i + 1 \in 1..(n+1) /\ i \in 1..n /\ (i + 1) - 1 = i /\ i + 1 # 1
          BY <4>2
        <5>2. new[i+1] = s[i]
          BY <1>3, <5>1
        <5> QED
          BY <1>1, <1>3, <5>1, <5>2 DEF At
      <4> QED
        BY <4>1, <4>2
    <3> QED
      BY <1>5, <3>1, <3>2, <3>3, <3>4
  <2> QED
    BY <2>1, <2>2
<1>7. tm = At(new, 1)
  BY <1>3 DEF At
<1>8. Linked(tm, nx, new)
  BY <1>3, <1>6, <1>7 DEF Linked
<1>9. PICK list2 : list2 = TL!LinkFirst(list, tm)
  OBVIOUS
<1>10. list2 = [head |-> tm, next |-> nx]
  BY <1>0, <1>4, <1>9 DEF TL!LinkFirst
<1> QED
  BY <1>2, <1>5, <1>8, <1>9, <1>10 DEF ChainOf, TimerPointers

(* ... and linked out at index k, where prev_ptr is at the timer before it *)
(* if there is one; the timer keeps its own link.                          *)
LEMMA UnlinkedAt ==
    ASSUME NEW s \in Seq(Timers), NoDuplicates(s), NEW k \in 1..Len(s),
           NEW before, k > 1 => before = s[k-1],
           NEW list, ChainOf(list, s)
    PROVE  ChainOf(TL!Unlink(list, before, s[k]), RemoveAt(s, k))
<1>0. PICK first \in TimerPointers, chain \in TimerChains :
         list = [head |-> first, next |-> chain] /\ Linked(first, chain, s)
  BY DEF ChainOf
<1>1. PICK n \in Nat : n = Len(s)
  BY LenProperties
<1>2. PICK new : new = RemoveAt(s, k)
  OBVIOUS
<1>3. /\ Len(new) = n - 1
      /\ \A i \in 1..(n-1) : new[i] = IF i < k THEN s[i] ELSE s[i+1]
  <2>1. /\ Len(RemoveAt(s, k)) = Len(s) - 1
        /\ \A i \in 1..(Len(s)-1) : RemoveAt(s, k)[i] = IF i < k THEN s[i] ELSE s[i+1]
    BY RemoveAtProperties
  <2> QED
    BY <1>1, <1>2, <2>1
<1>4. PICK tm \in Timers : tm = s[k]
  BY InRange
<1>5. /\ \A i \in 1..n : s[i] \in Timers /\ chain[s[i]] = At(s, i + 1)
      /\ \A i, j \in 1..n : s[i] = s[j] => i = j
      /\ k \in 1..n /\ first = s[1] /\ chain[tm] = At(s, k + 1)
  <2>1. k \in 1..n /\ 1 \in 1..n
    BY <1>1
  <2>2. \A i \in 1..n : s[i] \in Timers /\ chain[s[i]] = At(s, i + 1)
    BY <1>0, <1>1, InRange DEF Linked
  <2>3. first = s[1]
    BY <1>0, <1>1, <2>1 DEF Linked, At
  <2> QED
    BY <1>1, <1>4, <2>1, <2>2, <2>3 DEF NoDuplicates
<1>6. PICK m \in TimerPointers : m = At(s, k + 1)
  BY TimerAt
<1>7. tm = first <=> k = 1
  <2>1. 1 \in 1..n
    BY <1>5
  <2> QED
    BY <1>4, <1>5, <2>1
<1>8. PICK list2 : list2 = TL!Unlink(list, before, tm)
  OBVIOUS
<1>9. /\ list2 = [head |-> list2.head, next |-> list2.next]
      /\ list2.head = IF k = 1 THEN m ELSE first
      /\ list2.next = IF k = 1 THEN chain ELSE [chain EXCEPT ![before] = m]
  <2>1. list.head = first /\ list.next = chain /\ chain[tm] = m
    BY <1>0, <1>5, <1>6
  <2>2. CASE k = 1
    <3>1. list2 = [list EXCEPT !.head = m]
      BY <1>7, <1>8, <2>1, <2>2 DEF TL!Unlink
    <3>2. list2 = [head |-> m, next |-> chain]
      BY <1>0, <3>1
    <3> QED
      BY <2>2, <3>2
  <2>3. CASE k # 1
    <3>1. list2 = [list EXCEPT !.next[before] = m]
      BY <1>7, <1>8, <2>1, <2>3 DEF TL!Unlink
    <3>2. list2 = [head |-> first, next |-> [chain EXCEPT ![before] = m]]
      BY <1>0, <3>1
    <3> QED
      BY <2>3, <3>2
  <2> QED
    BY <2>2, <2>3
<1>10. PICK nx : nx = list2.next
  OBVIOUS
<1>11. /\ nx \in TimerChains
       /\ \A x \in Timers : nx[x] = IF k > 1 /\ x = s[k-1] THEN m ELSE chain[x]
  <2>1. CASE k = 1
    BY <1>9, <1>10, <2>1
  <2>2. CASE k # 1
    <3>1. k > 1 /\ before = s[k-1]
      BY <1>5, <2>2
    <3> QED
      BY <1>9, <1>10, <2>2, <3>1 DEF TimerChains
  <2> QED
    BY <2>1, <2>2
<1>12. ASSUME NEW i \in 1..(n-1) PROVE nx[new[i]] = At(new, i + 1)
  <2>1. CASE i < k - 1
    <3>1. i \in 1..n /\ i + 1 \in 1..(n-1) /\ i + 1 < k /\ i + 1 \in 1..n /\ i < k
      <4>1. k \in Int /\ k <= n /\ i \in Int /\ 1 <= i
        BY <1>5
      <4> QED
        BY <2>1, <4>1
    <3>2. new[i] = s[i] /\ At(new, i + 1) = s[i+1] /\ At(s, i + 1) = s[i+1]
      BY <1>1, <1>3, <3>1 DEF At
    <3>3. k > 1 => k - 1 \in 1..n /\ s[i] # s[k-1]
      BY <1>5, <2>1, <3>1
    <3> QED
      BY <1>5, <1>11, <3>1, <3>2, <3>3
  <2>2. CASE i = k - 1
    <3>1. i \in 1..n /\ i < k /\ k > 1 /\ i + 1 = k /\ new[i] = s[k-1] /\ s[k-1] \in Timers
      BY <1>3, <1>5, <2>2
    <3>2. At(new, i + 1) = m
      <4>1. CASE k = n
        BY <1>1, <1>3, <1>6, <3>1, <4>1 DEF At
      <4>2. CASE k # n
        <5>1. k \in 1..(n-1) /\ k + 1 \in 1..n
          BY <1>5, <4>2
        <5>2. new[k] = s[k+1]
          BY <1>3, <5>1
        <5> QED
          BY <1>1, <1>3, <1>6, <3>1, <5>1, <5>2 DEF At
      <4> QED
        BY <4>1, <4>2
    <3> QED
      BY <1>11, <3>1, <3>2
  <2>3. CASE i >= k
    <3>1. i + 1 \in 1..n /\ new[i] = s[i+1] /\ s[i+1] \in Timers
      BY <1>3, <1>5, <2>3
    <3>2. k > 1 => k - 1 \in 1..n /\ s[i+1] # s[k-1]
      BY <1>5, <2>3, <3>1
    <3>3. nx[new[i]] = At(s, (i + 1) + 1)
      BY <1>5, <1>11, <3>1, <3>2
    <3>4. At(new, i + 1) = At(s, (i + 1) + 1)
      <4>1. CASE i = n - 1
        BY <1>1, <1>3, <4>1 DEF At
      <4>2. CASE i # n - 1
        <5>1. i + 1 \in 1..(n-1) /\ ~ (i + 1 < k) /\ (i + 1) + 1 \in 1..n
          BY <2>3, <4>2
        <5>2. new[i+1] = s[(i+1)+1]
          BY <1>3, <5>1
        <5> QED
          BY <1>1, <1>3, <5>1, <5>2 DEF At
      <4> QED
        BY <4>1, <4>2
    <3> QED
      BY <3>3, <3>4
  <2> QED
    BY <2>1, <2>2, <2>3
<1>13. list2.head \in TimerPointers /\ list2.head = At(new, 1)
  <2>1. CASE k = 1
    <3>1. CASE n = 1
      BY <1>1, <1>3, <1>6, <1>9, <2>1, <3>1 DEF At
    <3>2. CASE n # 1
      <4>1. 1 \in 1..(n-1) /\ ~ (1 < k) /\ 2 \in 1..n
        BY <1>5, <2>1, <3>2
      <4>2. new[1] = s[2]
        BY <1>3, <4>1
      <4> QED
        BY <1>1, <1>3, <1>6, <1>9, <2>1, <4>1, <4>2 DEF At
    <3> QED
      BY <3>1, <3>2
  <2>2. CASE k # 1
    <3>1. 1 \in 1..(n-1) /\ 1 < k
      BY <1>5, <2>2
    <3> QED
      BY <1>3, <1>5, <1>9, <2>2, <3>1 DEF At
  <2> QED
    BY <2>1, <2>2
<1>14. Linked(list2.head, nx, new)
  BY <1>3, <1>12, <1>13 DEF Linked
<1> QED
  BY <1>2, <1>4, <1>8, <1>9, <1>10, <1>11, <1>13, <1>14 DEF ChainOf

(* A timer is appended to the callback list ...                            *)
LEMMA CallAppended ==
    ASSUME NEW s \in Seq(Timers), NoDuplicates(s), NEW tm \in Timers, tm \notin Range(s),
           NEW c, CallsOf(c, s)
    PROVE  CallsOf(TL!AppendCall(c, tm), Append(s, tm))
<1>0. /\ c = [head |-> c.head, tail |-> c.tail, next |-> c.next]
      /\ c.head \in TimerPointers /\ c.tail \in TimerPointers /\ c.next \in TimerChains
      /\ Linked(c.head, c.next, s) /\ (s # <<>> => c.tail = s[Len(s)])
  BY DEF CallsOf
<1>1. PICK n \in Nat : n = Len(s)
  BY LenProperties
<1>2. PICK new : new = Append(s, tm)
  OBVIOUS
<1>3. Len(new) = n + 1 /\ \A i \in 1..(n+1) : new[i] = IF i = n + 1 THEN tm ELSE s[i]
  BY <1>1, <1>2
<1>4. /\ \A i \in 1..n : s[i] \in Timers /\ s[i] # tm /\ c.next[s[i]] = At(s, i + 1)
      /\ \A i, j \in 1..n : s[i] = s[j] => i = j
  BY <1>0, <1>1, InRange DEF Linked, NoDuplicates
<1>5. c.head = Null <=> n = 0
  <2>1. c.head = At(s, 1)
    BY <1>0 DEF Linked
  <2> QED
    BY <1>1, <2>1, TimerAt
<1>6. n # 0 => n \in 1..n /\ c.tail = s[n]
  BY <1>0, <1>1
<1>7. PICK last : last = IF c.head = Null THEN c.next ELSE [c.next EXCEPT ![c.tail] = tm]
  OBVIOUS
<1>8. PICK c2 : c2 = TL!AppendCall(c, tm)
  OBVIOUS
<1>9. /\ c2 = [head |-> c2.head, tail |-> c2.tail, next |-> c2.next]
      /\ c2.head = (IF n = 0 THEN tm ELSE c.head) /\ c2.tail = tm
      /\ c2.next = [last EXCEPT ![tm] = Null]
  BY <1>5, <1>7, <1>8 DEF TL!AppendCall
<1>10. PICK nx : nx = c2.next
  OBVIOUS
<1>11. /\ nx \in TimerChains
       /\ \A x \in Timers : nx[x] = IF x = tm THEN Null
                                   ELSE IF n # 0 /\ x = s[n] THEN tm ELSE c.next[x]
  <2>1. /\ last \in TimerChains
        /\ \A x \in Timers : last[x] = IF n # 0 /\ x = s[n] THEN tm ELSE c.next[x]
    BY <1>0, <1>4, <1>5, <1>6, <1>7 DEF TimerChains, TimerPointers
  <2> QED
    BY <1>9, <1>10, <2>1 DEF TimerChains, TimerPointers
<1>12. ASSUME NEW i \in 1..(n+1) PROVE nx[new[i]] = At(new, i + 1)
  <2>1. CASE i = n + 1
    BY <1>3, <1>11, <2>1 DEF At
  <2>2. CASE i = n
    <3>1. i \in 1..n /\ new[i] = s[n] /\ n # 0 /\ At(new, i + 1) = tm
      BY <1>3, <2>2 DEF At
    <3> QED
      BY <1>4, <1>11, <2>2, <3>1
  <2>3. CASE i < n
    <3>1. i \in 1..n /\ n \in 1..n /\ i + 1 \in 1..n /\ i + 1 \in 1..(n+1) /\ i + 1 # n + 1
      BY <2>3
    <3>2. new[i] = s[i] /\ s[i] # s[n] /\ At(new, i + 1) = s[i+1] /\ At(s, i + 1) = s[i+1]
      BY <1>1, <1>3, <1>4, <2>3, <3>1 DEF At
    <3> QED
      BY <1>4, <1>11, <3>1, <3>2
  <2> QED
    BY <2>1, <2>2, <2>3
<1>13. c2.head \in TimerPointers /\ c2.head = At(new, 1)
  <2>1. c.head = At(s, 1)
    BY <1>0 DEF Linked
  <2>2. CASE n = 0
    BY <1>3, <1>9, <2>2 DEF At, TimerPointers
  <2>3. CASE n # 0
    <3>1. 1 \in 1..n /\ 1 \in 1..(n+1) /\ 1 # n + 1
      BY <2>3
    <3>2. At(new, 1) = new[1] /\ new[1] = s[1]
      BY <1>3, <3>1 DEF At
    <3>3. At(s, 1) = s[1]
      BY <1>1, <3>1 DEF At
    <3> QED
      BY <1>0, <1>9, <2>1, <2>3, <3>2, <3>3
  <2> QED
    BY <2>2, <2>3
<1>14. Linked(c2.head, nx, new) /\ new[Len(new)] = tm
  BY <1>3, <1>12, <1>13 DEF Linked
<1> QED
  BY <1>2, <1>8, <1>9, <1>10, <1>11, <1>13, <1>14 DEF CallsOf, TimerPointers

(* ... and the first one is taken from it.                                 *)
LEMMA CallTaken ==
    ASSUME NEW s \in Seq(Timers), s # <<>>,
           NEW c, CallsOf(c, s)
    PROVE  CallsOf(TL!NextCall(c), Tail(s))
<1>0. PICK first \in TimerPointers, last \in TimerPointers, chain \in TimerChains :
         /\ c = [head |-> first, tail |-> last, next |-> chain]
         /\ Linked(first, chain, s) /\ (s # <<>> => last = s[Len(s)])
  BY DEF CallsOf
<1>1. PICK n \in Nat : n = Len(s) /\ n # 0
  BY LenProperties
<1>2. PICK new : new = Tail(s)
  OBVIOUS
<1>3. Len(new) = n - 1 /\ \A i \in 1..(n-1) : new[i] = s[i+1]
  BY <1>1, <1>2
<1>4. first = s[1] /\ \A i \in 1..n : chain[s[i]] = At(s, i + 1)
  BY <1>0, <1>1 DEF Linked, At
<1>5. \A i \in 0..(n-1) : At(new, i + 1) = At(s, (i + 1) + 1)
  <2> TAKE i \in 0..(n-1)
  <2>1. CASE i = n - 1
    BY <1>1, <1>3, <2>1 DEF At
  <2>2. CASE i # n - 1
    <3>1. i + 1 \in 1..(n-1) /\ (i + 1) + 1 \in 1..n
      BY <2>2
    <3>2. new[i+1] = s[(i+1)+1]
      BY <1>3, <3>1
    <3> QED
      BY <1>1, <1>3, <3>1, <3>2 DEF At
  <2> QED
    BY <2>1, <2>2
<1>6. ASSUME NEW i \in 1..(n-1) PROVE chain[new[i]] = At(new, i + 1)
  <2>1. i + 1 \in 1..n /\ i \in 0..(n-1)
    OBVIOUS
  <2> QED
    BY <1>3, <1>4, <1>5, <2>1
<1>7. chain[first] = At(s, 2) /\ chain[first] = At(new, 1)
  <2>1. 1 \in 1..n /\ 0 \in 0..(n-1) /\ 0 + 1 = 1 /\ 1 + 1 = 2
    BY <1>1
  <2>2. At(new, 0 + 1) = At(s, (0 + 1) + 1)
    BY <1>5, <2>1
  <2> QED
    BY <1>4, <2>1, <2>2
<1>8. At(s, 2) \in TimerPointers
  BY TimerAt
<1>9. new # <<>> => new[Len(new)] = s[n]
  <2>1. CASE n = 1
    BY <1>1, <1>2, <1>3, <2>1
  <2>2. CASE n # 1
    <3>1. n - 1 \in 1..(n-1) /\ (n - 1) + 1 = n
      BY <1>1, <2>2
    <3> QED
      BY <1>3, <3>1
  <2> QED
    BY <2>1, <2>2
<1>10. Linked(chain[first], chain, new)
  BY <1>3, <1>6, <1>7 DEF Linked
<1>11. PICK c2 : c2 = TL!NextCall(c)
  OBVIOUS
<1>12. c2 = [head |-> chain[first], tail |-> last, next |-> chain]
  BY <1>0, <1>11 DEF TL!NextCall
<1>13. last \in TimerPointers /\ last = s[n]
  BY <1>0, <1>1
<1> QED
  BY <1>2, <1>7, <1>8, <1>9, <1>10, <1>11, <1>12, <1>13 DEF CallsOf

(* The link of a timer that is on no list makes no difference.             *)
LEMMA LinkDropped ==
    ASSUME NEW s \in Seq(Timers), NEW tm \in Timers, tm \notin Range(s),
           NEW list, ChainOf(list, s)
    PROVE  ChainOf([list EXCEPT !.next[tm] = Null], s)
<1>0. PICK first \in TimerPointers, chain \in TimerChains :
         list = [head |-> first, next |-> chain] /\ Linked(first, chain, s)
  BY DEF ChainOf
<1>1. PICK nx : nx = [chain EXCEPT ![tm] = Null]
  OBVIOUS
<1>2. nx \in TimerChains /\ \A x \in Timers : nx[x] = IF x = tm THEN Null ELSE chain[x]
  BY <1>1 DEF TimerChains, TimerPointers
<1>3. \A i \in 1..Len(s) : s[i] \in Timers /\ s[i] # tm
  BY InRange
<1>4. Linked(first, nx, s)
  BY <1>0, <1>2, <1>3 DEF Linked
<1>5. PICK list2 : list2 = [list EXCEPT !.next[tm] = Null]
  OBVIOUS
<1>6. list2 = [head |-> first, next |-> nx]
  BY <1>0, <1>1, <1>5
<1> QED
  BY <1>2, <1>4, <1>5, <1>6 DEF ChainOf

(* atomTimerCancel finds the timer and the one before it, and links it out.*)
LEMMA CancelUnlinks ==
    ASSUME NEW s \in Seq(Timers), NoDuplicates(s), NEW tm \in Range(s),
           NEW list, ChainOf(list, s)
    PROVE  ChainOf(TL!LinkCancel(list, tm), RemoveFirst(s, tm))
<1>1. Contains(s, tm)
  BY InRange DEF Contains
<1>2. PICK k \in 1..Len(s) : s[k] = tm /\ RemoveFirst(s, tm) = RemoveAt(s, k)
  BY <1>1, RemoveFirstIsRemoveAt
<1>3. PICK found : found = TL!SelectInSeq(s, LAMBDA x : x = tm)
  OBVIOUS
<1>4. found = k
  <2> DEFINE at == { i \in 1..Len(s) : s[i] = tm }
  <2>1. at = {k}
    BY <1>2 DEF NoDuplicates
  <2>2. TL!SelectInSeq(s, LAMBDA x : x = tm) = IF at = {} THEN 0 ELSE TL!Min(at)
    BY Zenon DEF TL!SelectInSeq
  <2>3. TL!Min({k}) = k
    BY DEF TL!Min
  <2> HIDE DEF at
  <2> QED
    BY <1>3, <2>1, <2>2, <2>3
<1>5. PICK before : before = IF k <= 1 THEN list.head ELSE s[k-1]
  OBVIOUS
<1>6. TL!LinkCancel(list, tm) = TL!Unlink(list, before, tm)
  <2>1. TL!ListFrom(list.head, list.next) = s
    BY ListFromIs DEF ChainOf
  <2> QED
    BY <1>2, <1>3, <1>4, <1>5, <2>1 DEF TL!LinkCancel
<1>7. k > 1 => before = s[k-1]
  BY <1>5
<1>8. ChainOf(TL!Unlink(list, before, s[k]), RemoveAt(s, k))
  BY <1>7, UnlinkedAt
<1> QED
  BY <1>2, <1>6, <1>8

(* The walk of the tick handler is at index k of the timer list Q: w is    *)
(* left to walk, next_ptr is at the next timer to count and prev_ptr at    *)
(* the one before it, if there is one.                                     *)
WalkAt(Q, w, ptrs, k) ==
    /\ Len(w) = Len(Q) - k + 1
    /\ \A i \in 1..Len(w) : w[i] = Q[k + i - 1]
    /\ ptrs.next = Q[k]
    /\ k > 1 => ptrs.prev = Q[k-1]
WalksOn(Q, w, ptrs) ==
    IF w = <<>> THEN ptrs.next = Null ELSE \E k \in 1..Len(Q) : WalkAt(Q, w, ptrs, k)

(* The inductive invariant: the links hold the two lists, the tail of the  *)
(* callback list is its last timer, and the walk is where its pointers     *)
(* are.                                                                    *)
ChainsInv ==
    /\ ChainOf(links, timerQ)
    /\ CallsOf(calls, due)
    /\ WalksOn(timerQ, walk, walker)

(* What a step does to the lists: nothing, register, cancel or call back.  *)
(* Only the tick and its walk do something else.                           *)
ListsStay ==
    /\ walk = <<>>
    /\ UNCHANGED <<timerQ, walk, due>>
    /\ intr' = "tick" => intr = "tick"
Fronted(tm) ==
    /\ walk = <<>> /\ tm \notin Range(timerQ)
    /\ timerQ' = <<tm>> \o timerQ
    /\ UNCHANGED <<walk, due, intr>>
    /\ \A t \in Threads : pc[t] = "delayed" => pc'[t] = "delayed"
Canceled(tm) ==
    /\ walk = <<>> /\ tm \in Range(timerQ)
    /\ timerQ' = RemoveFirst(timerQ, tm)
    /\ UNCHANGED <<walk, due, intr, pc>>
Called ==
    /\ walk = <<>> /\ due # <<>>
    /\ due' = Tail(due)
    /\ UNCHANGED <<timerQ, walk, intr, pc>>

LEMMA KernelStepStays ==
    ASSUME TimerInv, KernelStep
    PROVE  ListsStay
<1>1. UNCHANGED <<timerQ, walk, due>>
  BY DEF KernelStep, timerVars
<1>2. intr # "tick" => walk = <<>>
  BY DEF TimerInv, SuspendInv, TimerListInv
<1>3. intr = "tick" => started
  BY DEF TimerInv, SuspendInv, KernelInv, ContextInv
<1>4. ASSUME NEW t \in AppThreads, NEW from, NEW to, CallSched(t, from, to)
      PROVE  intr # "tick" /\ intr' = intr
  <2>1. t # Null
    BY ThreadsAssumption DEF AppThreads
  <2> QED
    BY <1>4, <2>1 DEF CallSched, atomCurrentContext
<1>5. walk = <<>> /\ (intr' = "tick" => intr = "tick")
  <2>1. CASE atomOSStart
    BY <1>2, <1>3, <2>1 DEF atomOSStart
  <2>2. ASSUME NEW c \in Contexts, NEW t \in AppThreads, MayCallTimer(c), atomThreadCreate(c, t)
        PROVE  walk = <<>> /\ intr' = intr
    BY <2>2, NoWalk DEF atomThreadCreate
  <2>3. ASSUME NEW t \in AppThreads, Resched(t) \/ ThreadExitSched(t)
        PROVE  walk = <<>> /\ intr' = intr
    BY <1>2, <1>4, <2>3 DEF Resched, ThreadExitSched
  <2>4. ASSUME NEW t \in AppThreads, ThreadExit(t)
        PROVE  walk = <<>> /\ intr' = intr
    BY <2>4, NoWalk DEF ThreadExit, MayCallTimer
  <2>5. CASE IrqEnter
    BY <1>2, <2>5 DEF IrqEnter, atomIntEnter
  <2>6. CASE IrqExit
    BY <1>2, <2>6 DEF IrqExit, atomIntExit
  <2> QED
    BY <2>1, <2>2, <2>3, <2>4, <2>5, <2>6 DEF KernelStep
<1> QED
  BY <1>1, <1>5 DEF ListsStay

LEMMA TimerStepKinds ==
    ASSUME TimerInv, TimerNext
    PROVE  \/ ListsStay \/ Called \/ atomTimerTick \/ TimerWalk
           \/ \E tm \in Timers : Fronted(tm) \/ Canceled(tm)
<1>1. ASSUME NEW t \in AppThreads, NEW ticks \in Ticks, MayCall(t), atomTimerDelay(t, ticks)
      PROVE  Fronted(t) /\ t \in Timers
  <2>1. /\ t \in Threads /\ atomCurrentContext = t /\ pc[t] = "app"
    BY <1>1, ThreadsAssumption DEF AppThreads, MayCall
  <2>2. t \notin Range(timerQ)
    BY <2>1, RunningFacts DEF TimerInv, PendingTimers
  <2>3. walk = <<>>
    BY <1>1, NoWalk DEF MayCallTimer
  <2>4. \A u \in Threads : pc[u] = "delayed" => pc'[u] = "delayed"
    BY <1>1, <2>1 DEF atomTimerDelay, TimerInv
  <2>5. timerQ' = <<t>> \o timerQ /\ UNCHANGED <<walk, due, intr>>
    BY <1>1 DEF atomTimerDelay, Register
  <2> QED
    BY <2>2, <2>3, <2>4, <2>5 DEF Fronted, Timers
<1>2. ASSUME NEW c \in Contexts, NEW tm \in AppTimers, MayCallTimer(c), NEW ticks \in Ticks,
             AppTimerRegister(tm, ticks)
      PROVE  Fronted(tm) /\ tm \in Timers
  BY <1>2, NoWalk DEF AppTimerRegister, Register, Fronted, Timers, kernelVars
<1>3. ASSUME NEW c \in Contexts, NEW tm \in AppTimers, MayCallTimer(c), AppTimerCancel(tm)
      PROVE  Canceled(tm) /\ tm \in Timers
  <2>1. tm \in Range(timerQ)
    BY <1>3, ListFacts, InRange DEF AppTimerCancel, Cancelable, Contains
  <2> QED
    BY <1>3, <2>1, NoWalk DEF AppTimerCancel, CancelTimer, Canceled, Timers, kernelVars
<1>4. ASSUME NEW t \in AppThreads, DelaySched(t) \/ DelayReturn(t)
      PROVE  ListsStay
  <2>1. intr # "tick" /\ intr' = intr /\ UNCHANGED <<timerQ, walk, due>>
    <3>1. t # Null
      BY ThreadsAssumption DEF AppThreads
    <3> QED
      BY <1>4, <3>1
         DEF DelaySched, DelayReturn, CallSched, atomCurrentContext, timerVars
  <2> QED
    BY <2>1 DEF ListsStay, TimerInv, SuspendInv, TimerListInv
<1>5. ASSUME NEW c \in Contexts, NEW now \in NewTimes, MayCallTimer(c), atomTimeSet(now)
      PROVE  ListsStay
  BY <1>5, NoWalk DEF atomTimeSet, kernelVars, ListsStay
<1>6. CASE TimerCall
  BY <1>1, <1>2, <1>3, <1>4, <1>5, <1>6 DEF TimerCall
<1>7. CASE TickHandler
  <2>1. ASSUME NEW t \in AppThreads, atomTimerDelayCallback(t) PROVE Called
    BY <2>1 DEF atomTimerDelayCallback, CallbackDue, Called
  <2>2. CASE AppCallbackReturn
    BY <2>2 DEF AppCallbackReturn, InAppCallback, Called, kernelVars
  <2>3. CASE TimerTickExit
    BY <2>3 DEF TimerTickExit, TickExit, atomIntExit, timerVars, ListsStay
  <2> QED
    BY <1>7, <2>1, <2>2, <2>3 DEF TickHandler
<1> QED
  BY <1>6, <1>7, KernelStepStays DEF TimerNext

(* What of these changes which list.                                       *)
LEMMA TimerStepChanges ==
    ASSUME TimerInv, TimerNext
    PROVE  /\ \A tm \in Timers : Fronted(tm) => Range(timerQ') = Range(timerQ) \cup {tm}
           /\ \A tm \in Timers : Canceled(tm) => Range(timerQ') = Range(timerQ) \ {tm}
           /\ Called => due' # due
           /\ TimerWalk => /\ intr = "tick" /\ intr' = intr /\ pc' = pc
                           /\ walk # <<>> /\ walk' # walk
                           /\ due # <<>> => due' # Tail(due)
                           /\ Range(timerQ') \subseteq Range(timerQ)
           /\ atomTimerTick => /\ intr = "none" /\ intr' = "tick" /\ pc' = pc
                               /\ walk = <<>> /\ walk' = timerQ
                               /\ timerQ' = timerQ /\ due' = due
<1>1. /\ timerQ \in Seq(Timers) /\ due \in Seq(Timers) /\ walk \in Seq(Timers)
      /\ NoDuplicates(timerQ) /\ (intr # "tick" => walk = <<>>)
  BY DEF TimerInv, SuspendInv, TimerListInv, TimerLibTypeOK
<1>2. ASSUME NEW tm \in Timers, Fronted(tm) PROVE Range(timerQ') = Range(timerQ) \cup {tm}
  BY <1>1, <1>2, PrependedProperties DEF Fronted
<1>3. ASSUME NEW tm \in Timers, Canceled(tm) PROVE Range(timerQ') = Range(timerQ) \ {tm}
  BY <1>1, <1>3, RemoveFirstProperties DEF Canceled
<1>4. ASSUME Called PROVE due' # due
  <2>1. Len(Tail(due)) = Len(due) - 1 /\ Len(due) \in Nat
    BY <1>1, <1>4 DEF Called
  <2>2. Tail(due) # due
    BY <2>1
  <2> QED
    BY <1>4, <2>2 DEF Called
<1>5. ASSUME TimerWalk
      PROVE  /\ intr = "tick" /\ intr' = intr /\ pc' = pc
             /\ walk # <<>> /\ walk' # walk
             /\ due # <<>> => due' # Tail(due)
             /\ Range(timerQ') \subseteq Range(timerQ)
  <2>1. walk # <<>> /\ walk' = Tail(walk) /\ intr = "tick" /\ intr' = intr /\ pc' = pc
    BY <1>5 DEF TimerWalk, kernelVars
  <2>2. Len(Tail(walk)) = Len(walk) - 1 /\ Len(walk) \in Nat /\ Head(walk) \in Timers
    BY <1>1, <2>1
  <2>3. due' = due \/ due' = Append(due, Head(walk))
    BY <1>5 DEF TimerWalk
  <2>4. /\ Len(Append(due, Head(walk))) = Len(due) + 1 /\ Len(due) \in Nat
        /\ due # <<>> => Len(Tail(due)) = Len(due) - 1
    BY <1>1, <2>2
  <2>5. timerQ' = timerQ \/ timerQ' = RemoveFirst(timerQ, Head(walk))
    BY <1>5 DEF TimerWalk
  <2>6. Range(RemoveFirst(timerQ, Head(walk))) \subseteq Range(timerQ)
    BY <1>1, RemoveFirstProperties
  <2>7. Tail(walk) # walk
    BY <2>2
  <2>8. due # <<>> => due' # Tail(due)
    BY <2>3, <2>4
  <2> QED
    BY <2>1, <2>5, <2>6, <2>7, <2>8
<1>6. ASSUME atomTimerTick
      PROVE  /\ intr = "none" /\ intr' = "tick" /\ pc' = pc
             /\ walk = <<>> /\ walk' = timerQ
             /\ timerQ' = timerQ /\ due' = due
  BY <1>1, <1>6 DEF atomTimerTick, TickEnter, atomIntEnter
<1> QED
  BY <1>2, <1>3, <1>4, <1>5, <1>6

(* Each step makes the change of the links that goes with it.              *)
LEMMA LinkStepKinds ==
    ASSUME TimerInv, TimerNext, LinkStep
    PROVE  \/ \E tm \in Timers : Fronted(tm) /\ RegisterLink(tm)
           \/ \E tm \in Timers : Canceled(tm) /\ CancelLink(tm)
           \/ atomTimerTick /\ TickLink
           \/ TimerWalk /\ WalkLink
           \/ Called /\ CallLink
           \/ ListsStay /\ (ReturnLink \/ NoLink \/ \E t \in AppThreads : DropLink(t))
<1>1. ASSUME NEW tm \in Timers, RegisterLink(tm) PROVE Fronted(tm)
  <2>1. tm \notin Range(timerQ) /\ tm \in Range(timerQ')
    BY <1>1 DEF RegisterLink, Registered
  <2>2. ~ ListsStay /\ ~ Called /\ ~ atomTimerTick /\ ~ TimerWalk
    BY <2>1, TimerStepChanges DEF ListsStay, Called
  <2>3. PICK u \in Timers : Fronted(u) \/ Canceled(u)
    BY <2>2, TimerStepKinds
  <2>4. ~ Canceled(u)
    BY <2>1, TimerStepChanges
  <2>5. u = tm
    BY <2>1, <2>3, <2>4, TimerStepChanges
  <2> QED
    BY <2>3, <2>4, <2>5
<1>2. ASSUME NEW tm \in Timers, CancelLink(tm) PROVE Canceled(tm)
  <2>1. walk = <<>> /\ tm \in Range(timerQ) /\ tm \notin Range(timerQ')
    BY <1>2 DEF CancelLink
  <2>2. ~ ListsStay /\ ~ Called /\ ~ atomTimerTick /\ ~ TimerWalk
    BY <2>1, TimerStepChanges DEF ListsStay, Called
  <2>3. PICK u \in Timers : Fronted(u) \/ Canceled(u)
    BY <2>2, TimerStepKinds
  <2>4. ~ Fronted(u)
    BY <2>1, TimerStepChanges
  <2>5. u = tm
    BY <2>1, <2>3, <2>4, TimerStepChanges
  <2> QED
    BY <2>3, <2>4, <2>5
<1>3. CASE TickLink
  <2>1. intr # "tick" /\ intr' = "tick"
    BY <1>3 DEF TickLink
  <2> QED
    BY <1>3, <2>1, TimerStepKinds, TimerStepChanges
       DEF ListsStay, Called, Fronted, Canceled
<1>4. CASE WalkLink
  <2>1. walk # <<>>
    BY <1>4 DEF WalkLink
  <2> QED
    BY <1>4, <2>1, TimerStepKinds, TimerStepChanges
       DEF ListsStay, Called, Fronted, Canceled
<1>5. CASE CallLink
  <2>1. due # <<>> /\ due' = Tail(due)
    BY <1>5 DEF CallLink
  <2>2. Tail(due) # due
    <3>1. due \in Seq(Timers)
      BY DEF TimerInv, SuspendInv, TimerListInv, TimerLibTypeOK
    <3>2. Len(Tail(due)) = Len(due) - 1 /\ Len(due) \in Nat
      BY <2>1, <3>1
    <3> QED
      BY <3>2
  <2> QED
    BY <1>5, <2>1, <2>2, TimerStepKinds, TimerStepChanges
       DEF ListsStay, Fronted, Canceled
<1>6. CASE ReturnLink
  <2>1. intr = "tick" /\ intr' # "tick"
    BY <1>6 DEF ReturnLink
  <2>2. ListsStay
    BY <2>1, TimerStepKinds, TimerStepChanges DEF Called, Fronted, Canceled
  <2> QED
    BY <1>6, <2>2
<1>7. ASSUME NEW t \in AppThreads, DropLink(t) PROVE ListsStay
  <2>1. t \in Threads /\ pc[t] = "delayed" /\ pc'[t] = "app"
    BY <1>7 DEF DropLink, AppThreads
  <2> QED
    BY <2>1, TimerStepKinds, TimerStepChanges DEF Called, Fronted, Canceled
<1>8. CASE NoLink
  <2>1. timerQ' = timerQ /\ walk' = walk /\ due' = due /\ ((intr = "tick") = (intr' = "tick"))
    BY <1>8 DEF NoLink
  <2>2. ListsStay
    <3>1. \A tm \in Timers : ~ Fronted(tm)
      BY <2>1, TimerStepChanges DEF Fronted
    <3>2. \A tm \in Timers : ~ Canceled(tm)
      BY <2>1, TimerStepChanges DEF Canceled
    <3> QED
      BY <2>1, <3>1, <3>2, TimerStepKinds, TimerStepChanges
  <2> QED
    BY <1>8, <2>2
<1> QED
  BY <1>1, <1>2, <1>3, <1>4, <1>5, <1>6, <1>7, <1>8 DEF LinkStep

LEMMA ChainFacts ==
    ASSUME TimerInv
    PROVE  /\ timerQ \in Seq(Timers) /\ NoDuplicates(timerQ)
           /\ due \in Seq(Timers) /\ NoDuplicates(due)
           /\ walk \in Seq(Timers) /\ cbTicks \in [Timers -> Nat]
           /\ walk # <<>> => Range(timerQ) \cap Range(due) = {}
           /\ intr # "tick" => walk = <<>> /\ due = <<>>
           /\ \A t \in AppThreads : t \in Range(timerQ) => pc[t] \in {"delay", "delayed"}
  BY DEF TimerInv, SuspendInv, TimerListInv, TimerLibTypeOK, StackTimerInv, PendingTimers

(* The rest of the walk, one timer on: the list stays as it is, or the     *)
(* timer is taken out of it.                                               *)
LEMMA WalkedOn ==
    ASSUME NEW Q \in Seq(Timers), NEW w \in Seq(Timers), w # <<>>, NEW ptrs,
           NEW k \in 1..Len(Q), WalkAt(Q, w, ptrs, k),
           NEW ptrs2, ptrs2.next = At(Q, k + 1),
           NEW Q2, \/ Q2 = Q /\ ptrs2.prev = Q[k]
                   \/ Q2 = RemoveAt(Q, k) /\ ptrs2.prev = ptrs.prev
    PROVE  WalksOn(Q2, Tail(w), ptrs2)
<1>1. PICK n \in Nat : n = Len(Q)
  BY LenProperties
<1>2. PICK m \in Nat : m = Len(w) /\ m # 0
  BY LenProperties
<1>3. /\ k \in 1..n /\ m = n - k + 1 /\ \A i \in 1..m : w[i] = Q[k + i - 1]
      /\ k > 1 => ptrs.prev = Q[k-1]
  BY <1>1, <1>2 DEF WalkAt
<1>4. /\ Tail(w) \in Seq(Timers) /\ Len(Tail(w)) = m - 1
      /\ \A i \in 1..(m-1) : Tail(w)[i] = w[i+1]
  BY <1>2
<1>5. CASE m = 1
  <2>1. Tail(w) = <<>>
    <3>1. Len(Tail(w)) = 0
      BY <1>4, <1>5
    <3> QED
      BY <1>4, <3>1, EmptySeq
  <2>2. k = n
    BY <1>3, <1>5
  <2> QED
    BY <1>1, <2>1, <2>2 DEF At, WalksOn
<1>6. CASE m # 1
  <2>1. Tail(w) # <<>> /\ k + 1 \in 1..n /\ ptrs2.next = Q[k+1]
    <3>1. Tail(w) # <<>>
      BY <1>2, <1>4, <1>6
    <3>2. k + 1 \in 1..n
      BY <1>2, <1>3, <1>6
    <3> QED
      BY <1>1, <3>1, <3>2 DEF At
  <2>2. \A i \in 1..(m-1) : Tail(w)[i] = Q[k + i]
    <3> TAKE i \in 1..(m-1)
    <3>1. i + 1 \in 1..m /\ k + (i + 1) - 1 = k + i
      BY <1>3
    <3> QED
      BY <1>3, <1>4, <3>1
  <2>3. CASE Q2 = Q /\ ptrs2.prev = Q[k]
    <3>1. Len(Tail(w)) = n - (k + 1) + 1
      BY <1>3, <1>4
    <3>2. \A i \in 1..(m-1) : (k + 1) + i - 1 = k + i
      BY <1>3
    <3>3. (k + 1) - 1 = k
      BY <1>3
    <3>4. WalkAt(Q, Tail(w), ptrs2, k + 1)
      BY <1>1, <1>4, <2>1, <2>2, <2>3, <3>1, <3>2, <3>3 DEF WalkAt
    <3> QED
      BY <1>1, <2>1, <2>3, <3>4 DEF WalksOn
  <2>4. CASE Q2 = RemoveAt(Q, k) /\ ptrs2.prev = ptrs.prev
    <3>1. Len(Q2) = n - 1 /\ \A i \in 1..(n-1) : Q2[i] = IF i < k THEN Q[i] ELSE Q[i+1]
      <4>1. /\ Len(RemoveAt(Q, k)) = Len(Q) - 1
            /\ \A i \in 1..(Len(Q)-1) : RemoveAt(Q, k)[i] = IF i < k THEN Q[i] ELSE Q[i+1]
        BY RemoveAtProperties
      <4> QED
        BY <1>1, <2>4, <4>1
    <3>2. k \in 1..(n-1) /\ Q2[k] = Q[k+1]
      BY <1>3, <2>1, <3>1
    <3>3. k > 1 => Q2[k-1] = Q[k-1]
      BY <1>3, <3>1
    <3>4. \A i \in 1..(m-1) : Tail(w)[i] = Q2[k + i - 1]
      <4> TAKE i \in 1..(m-1)
      <4>1. PICK j \in 1..(n-1) : j = k + i - 1
        BY <1>3
      <4>2. ~ (j < k) /\ j + 1 = k + i
        BY <1>3, <4>1
      <4>3. Q2[j] = Q[k + i]
        BY <3>1, <4>2
      <4> QED
        BY <2>2, <4>1, <4>3
    <3>5. Len(Tail(w)) = (n - 1) - k + 1
      BY <1>3, <1>4
    <3>6. WalkAt(Q2, Tail(w), ptrs2, k)
      BY <1>3, <1>4, <2>1, <2>4, <3>1, <3>2, <3>3, <3>4, <3>5 DEF WalkAt
    <3> QED
      BY <2>1, <3>1, <3>2, <3>6 DEF WalksOn
  <2> QED
    BY <2>3, <2>4
<1> QED
  BY <1>5, <1>6

(* One round of the walk.                                                  *)
LEMMA ChainsWalk ==
    ASSUME TimerInv, ChainsInv, TimerWalk, WalkLink
    PROVE  ChainsInv'
<1>1. walk # <<>> /\ walk' = Tail(walk)
  BY DEF TimerWalk
<1>2. PICK k \in 1..Len(timerQ) : WalkAt(timerQ, walk, walker, k)
  BY <1>1 DEF ChainsInv, WalksOn
<1>3. PICK tm \in Timers : tm = timerQ[k]
  BY ChainFacts, InRange
<1>4. Head(walk) = tm /\ walker.next = tm
  <2>1. 1 \in 1..Len(walk) /\ walk[1] = timerQ[k + 1 - 1] /\ k + 1 - 1 = k
    BY <1>1, <1>2, ChainFacts DEF WalkAt
  <2> QED
    BY <1>2, <1>3, <2>1 DEF WalkAt
<1>5. links.next[tm] = At(timerQ, k + 1)
  BY <1>3 DEF ChainsInv, ChainOf, Linked
<1>6. /\ timerQ \in Seq(Timers) /\ NoDuplicates(timerQ)
      /\ due \in Seq(Timers) /\ NoDuplicates(due)
      /\ walk \in Seq(Timers)
  BY ChainFacts
<1>7. CASE cbTicks[tm] = 1
  <2>1. /\ timerQ' = RemoveFirst(timerQ, tm) /\ due' = Append(due, tm)
        /\ links' = TL!Unlink(links, walker.prev, tm)
        /\ walker' = [prev |-> walker.prev, next |-> At(timerQ, k + 1)]
        /\ calls' = TL!AppendCall(calls, tm)
    BY <1>4, <1>5, <1>7 DEF TimerWalk, WalkLink, TL!LinksAfter, TL!WalkOn
  <2>2. timerQ' = RemoveAt(timerQ, k)
    <3>1. Contains(timerQ, tm)
      BY <1>3 DEF Contains
    <3>2. PICK j \in 1..Len(timerQ) :
             timerQ[j] = tm /\ RemoveFirst(timerQ, tm) = RemoveAt(timerQ, j)
      BY <1>6, <3>1, RemoveFirstIsRemoveAt
    <3>3. j = k
      BY <1>3, <1>6, <3>2 DEF NoDuplicates
    <3> QED
      BY <2>1, <3>2, <3>3
  <2>3. k > 1 => walker.prev = timerQ[k-1]
    BY <1>2 DEF WalkAt
  <2>4. ChainOf(links', timerQ')
    <3>1. ChainOf(TL!Unlink(links, walker.prev, timerQ[k]), RemoveAt(timerQ, k))
      BY <1>6, <2>3, UnlinkedAt DEF ChainsInv
    <3> QED
      BY <1>3, <2>1, <2>2, <3>1
  <2>5. CallsOf(calls', due')
    <3>1. tm \notin Range(due)
      BY <1>1, <1>3, ChainFacts, InRange
    <3>2. CallsOf(TL!AppendCall(calls, tm), Append(due, tm))
      BY <1>6, <3>1, CallAppended DEF ChainsInv
    <3> QED
      BY <2>1, <3>2
  <2>6. WalksOn(timerQ', walk', walker')
    <3>1. PICK ptrs2 : ptrs2 = walker'
      OBVIOUS
    <3>2. ptrs2.next = At(timerQ, k + 1) /\ ptrs2.prev = walker.prev
      BY <2>1, <3>1
    <3>3. PICK Q2 : Q2 = RemoveAt(timerQ, k)
      OBVIOUS
    <3>4. WalksOn(Q2, Tail(walk), ptrs2)
      BY <1>1, <1>2, <1>6, <3>2, <3>3, WalkedOn
    <3> QED
      BY <1>1, <2>2, <3>1, <3>3, <3>4
  <2> QED
    BY <2>4, <2>5, <2>6 DEF ChainsInv
<1>8. CASE cbTicks[tm] # 1
  <2>1. /\ timerQ' = timerQ /\ due' = due
        /\ links' = links /\ calls' = calls
        /\ walker' = [prev |-> tm, next |-> At(timerQ, k + 1)]
    BY <1>4, <1>5, <1>8 DEF TimerWalk, WalkLink, TL!LinksAfter, TL!WalkOn
  <2>2. WalksOn(timerQ', walk', walker')
    <3>1. PICK ptrs2 : ptrs2 = walker'
      OBVIOUS
    <3>2. ptrs2.next = At(timerQ, k + 1) /\ ptrs2.prev = timerQ[k]
      BY <1>3, <2>1, <3>1
    <3>3. WalksOn(timerQ, Tail(walk), ptrs2)
      BY <1>1, <1>2, <1>6, <3>2, WalkedOn
    <3> QED
      BY <1>1, <2>1, <3>1, <3>3
  <2> QED
    BY <2>1, <2>2 DEF ChainsInv
<1> QED
  BY <1>7, <1>8

(* One step.                                                               *)
LEMMA ChainsStep ==
    ASSUME TimerInv, TimerInv', ChainsInv, TimerNext, LinkStep
    PROVE  ChainsInv'
<1>1. /\ timerQ \in Seq(Timers) /\ NoDuplicates(timerQ)
      /\ due \in Seq(Timers) /\ walk \in Seq(Timers)
  BY ChainFacts
<1>2. ChainOf(links, timerQ) /\ CallsOf(calls, due) /\ WalksOn(timerQ, walk, walker)
  BY DEF ChainsInv
<1>3. ASSUME walk = <<>> PROVE \A Q : WalksOn(Q, walk, walker)
  BY <1>2, <1>3 DEF WalksOn
<1>4. ASSUME NEW tm \in Timers, Fronted(tm), RegisterLink(tm) PROVE ChainsInv'
  <2>1. tm \notin Range(timerQ) /\ timerQ' = <<tm>> \o timerQ /\ walk = <<>>
    BY <1>4 DEF Fronted
  <2>2. UNCHANGED <<walk, due, walker, calls>> /\ links' = TL!LinkFirst(links, tm)
    BY <1>4 DEF Fronted, RegisterLink
  <2>3. ChainOf(TL!LinkFirst(links, tm), <<tm>> \o timerQ)
    BY <1>1, <1>2, <2>1, LinkedFirst
  <2> QED
    BY <1>2, <1>3, <2>1, <2>2, <2>3 DEF ChainsInv
<1>5. ASSUME NEW tm \in Timers, Canceled(tm), CancelLink(tm) PROVE ChainsInv'
  <2>1. tm \in Range(timerQ) /\ timerQ' = RemoveFirst(timerQ, tm) /\ walk = <<>>
    BY <1>5 DEF Canceled
  <2>2. UNCHANGED <<walk, due, walker, calls>> /\ links' = TL!LinkCancel(links, tm)
    BY <1>5 DEF Canceled, CancelLink
  <2>3. ChainOf(TL!LinkCancel(links, tm), RemoveFirst(timerQ, tm))
    BY <1>1, <1>2, <2>1, CancelUnlinks
  <2> QED
    BY <1>2, <1>3, <2>1, <2>2, <2>3 DEF ChainsInv
<1>6. CASE atomTimerTick /\ TickLink
  <2>1. /\ walk' = timerQ /\ UNCHANGED <<timerQ, due, links, calls>>
        /\ walker' = [prev |-> links.head, next |-> links.head]
    BY <1>6, TimerStepChanges DEF TickLink, TL!StartWalk, TimerNext, TickHandler
  <2>2. links.head = At(timerQ, 1)
    BY <1>2 DEF ChainOf, Linked
  <2>3. WalksOn(timerQ, timerQ, walker')
    <3>1. PICK ptrs : ptrs = walker'
      OBVIOUS
    <3>2. ptrs.next = At(timerQ, 1)
      BY <2>1, <2>2, <3>1
    <3>3. CASE timerQ = <<>>
      <4>1. At(timerQ, 1) = Null
        BY <3>3 DEF At
      <4> QED
        BY <3>1, <3>2, <3>3, <4>1 DEF WalksOn
    <3>4. CASE timerQ # <<>>
      <4>1. 1 \in 1..Len(timerQ)
        BY <1>1, <3>4
      <4>2. ptrs.next = timerQ[1]
        BY <3>2, <4>1 DEF At
      <4>3. Len(timerQ) = Len(timerQ) - 1 + 1 /\ \A i \in 1..Len(timerQ) : 1 + i - 1 = i
        BY <1>1
      <4>4. WalkAt(timerQ, timerQ, ptrs, 1)
        BY <4>2, <4>3 DEF WalkAt
      <4> QED
        BY <3>1, <3>4, <4>1, <4>4 DEF WalksOn
    <3> QED
      BY <3>1, <3>3, <3>4
  <2> QED
    BY <1>2, <2>1, <2>3 DEF ChainsInv
<1>7. CASE TimerWalk /\ WalkLink
  BY <1>7, ChainsWalk
<1>8. CASE Called /\ CallLink
  <2>1. /\ due # <<>> /\ due' = Tail(due) /\ UNCHANGED <<timerQ, walk>>
        /\ calls' = TL!NextCall(calls) /\ UNCHANGED <<links, walker>>
    BY <1>8 DEF Called, CallLink
  <2>2. CallsOf(TL!NextCall(calls), Tail(due))
    BY <1>1, <1>2, <2>1, CallTaken
  <2> QED
    BY <1>2, <2>1, <2>2 DEF ChainsInv
<1>9. CASE ListsStay /\ ReturnLink
  <2>1. /\ UNCHANGED <<timerQ, walk, due, links>> /\ intr' # "tick"
        /\ walker' = TL!NoWalk /\ calls' = TL!NoCalls
    BY <1>9 DEF ListsStay, ReturnLink
  <2>2. walk = <<>> /\ due = <<>>
    <3>1. walk' = <<>> /\ due' = <<>>
      BY <2>1 DEF TimerInv, SuspendInv, TimerListInv
    <3> QED
      BY <2>1, <3>1
  <2>3. CallsOf(TL!NoCalls, <<>>)
    BY DEF CallsOf, TL!NoCalls, TimerPointers, TimerChains, Linked, At
  <2>4. WalksOn(timerQ, <<>>, TL!NoWalk)
    BY DEF WalksOn, TL!NoWalk
  <2> QED
    BY <1>2, <2>1, <2>2, <2>3, <2>4 DEF ChainsInv
<1>10. ASSUME NEW t \in AppThreads, ListsStay, DropLink(t) PROVE ChainsInv'
  <2>1. /\ UNCHANGED <<timerQ, walk, due, walker, calls>>
        /\ links' = [links EXCEPT !.next[t] = Null] /\ pc'[t] = "app"
    BY <1>10 DEF ListsStay, DropLink
  <2>2. t \notin Range(timerQ)
    <3>1. \A u \in AppThreads : u \in Range(timerQ') => pc'[u] \in {"delay", "delayed"}
      BY DEF TimerInv, SuspendInv, TimerListInv, TimerLibTypeOK, StackTimerInv, PendingTimers
    <3> QED
      BY <2>1, <3>1
  <2>3. t \in Timers
    BY DEF Timers, AppThreads
  <2>4. ChainOf([links EXCEPT !.next[t] = Null], timerQ)
    BY <1>1, <1>2, <2>2, <2>3, LinkDropped
  <2> QED
    BY <1>2, <2>1, <2>4 DEF ChainsInv
<1>11. CASE ListsStay /\ NoLink
  BY <1>2, <1>11 DEF ListsStay, NoLink, linkVars, ChainsInv
<1> QED
  BY <1>4, <1>5, <1>6, <1>7, <1>8, <1>9, <1>10, <1>11, LinkStepKinds

LEMMA ChainsInit ==
    ASSUME LinksInit
    PROVE  ChainsInv
<1>1. timerQ = <<>> /\ walk = <<>> /\ due = <<>>
  BY DEF LinksInit, HistoryInit, TimerInit, TimerLibInit
<1>2. ChainOf(links, <<>>)
  BY DEF LinksInit, TL!EmptyLinks, ChainOf, TimerPointers, TimerChains, Linked, At
<1>3. CallsOf(calls, <<>>)
  BY DEF LinksInit, TL!NoCalls, CallsOf, TimerPointers, TimerChains, Linked, At
<1>4. WalksOn(timerQ, <<>>, walker)
  BY DEF LinksInit, TL!NoWalk, WalksOn
<1> QED
  BY <1>1, <1>2, <1>3, <1>4 DEF ChainsInv

(* Throughout a run the links hold the lists of the timer library.         *)
THEOREM ChainsInvariant == LinksSpec => [](TimerInv /\ ChainsInv)
<1>1. LinksInit => TimerInv /\ ChainsInv
  BY ChainsInit, TimerInitInv DEF LinksInit, HistoryInit
<1>2. TimerInv /\ ChainsInv /\ [HistoryNext /\ LinkStep]_<<vars, deadline, linkVars>>
         => (TimerInv /\ ChainsInv)'
  <2> SUFFICES ASSUME TimerInv, ChainsInv,
                      [HistoryNext /\ LinkStep]_<<vars, deadline, linkVars>>
               PROVE  (TimerInv /\ ChainsInv)'
    OBVIOUS
  <2>1. TimerInv'
    BY TimerStepInv DEF HistoryNext
  <2>2. CASE HistoryNext /\ LinkStep
    BY <2>1, <2>2, ChainsStep DEF HistoryNext
  <2>3. CASE UNCHANGED <<vars, deadline, linkVars>>
    <3>1. UNCHANGED <<timerQ, walk, due, links, walker, calls>>
      BY <2>3 DEF vars, timerVars, linkVars
    <3> QED
      BY <2>1, <3>1 DEF ChainsInv
  <2> QED
    BY <2>1, <2>2, <2>3
<1> QED
  BY <1>1, <1>2, PTL DEF LinksSpec

(* The timers read along the links of the timer list and of the callback   *)
(* list are those of the lists, in their order, and next_ptr is at the     *)
(* next timer that the walk has to count, however timers are registered,   *)
(* canceled and expire.                                                    *)
THEOREM LinksAsListedHolds == LinksSpec => []LinksAsListed
<1>1. TimerInv /\ ChainsInv => LinksAsListed
  <2> SUFFICES ASSUME TimerInv, ChainsInv PROVE LinksAsListed
    OBVIOUS
  <2>1. /\ timerQ \in Seq(Timers) /\ NoDuplicates(timerQ)
        /\ due \in Seq(Timers) /\ NoDuplicates(due) /\ walk \in Seq(Timers)
    BY ChainFacts
  <2>2. Linked(links.head, links.next, timerQ) /\ Linked(calls.head, calls.next, due)
    BY DEF ChainsInv, ChainOf, CallsOf
  <2>3. timerQ = TL!ListFrom(links.head, links.next)
    BY <2>1, <2>2, ListFromIs
  <2>4. due = TL!ListFrom(calls.head, calls.next)
    BY <2>1, <2>2, ListFromIs
  <2>5. CASE walk = <<>>
    BY <2>3, <2>4, <2>5 DEF ChainsInv, WalksOn, LinksAsListed
  <2>6. CASE walk # <<>>
    <3>1. PICK k \in 1..Len(timerQ) : WalkAt(timerQ, walk, walker, k)
      BY <2>6 DEF ChainsInv, WalksOn
    <3>2. 1 \in 1..Len(walk) /\ k + 1 - 1 = k
      BY <2>1, <2>6
    <3>3. walker.next = Head(walk)
      BY <2>1, <2>6, <3>1, <3>2 DEF WalkAt
    <3> QED
      BY <2>3, <2>4, <2>6, <3>3 DEF LinksAsListed
  <2> QED
    BY <2>5, <2>6
<1> QED
  BY <1>1, ChainsInvariant, PTL
=============================================================================
