--------------------------- MODULE SchedulingProofs ---------------------------
(***************************************************************************)
(* Safety of the scheduler for every priority of the threads and every     *)
(* order in which main() creates them.  The first part is about the ready  *)
(* list: what inserting a thread and taking the head do to it.  The second *)
(* is the invariant that the kernel's functions keep.                      *)
(***************************************************************************)
EXTENDS Scheduling, SequenceTheorems, WellFoundedInduction, TLAPS

(* A set of numbers that is not empty has a least one.                     *)
LEMMA LeastNumber ==
  ASSUME NEW T \in SUBSET Nat, T # {}
  PROVE  \E n \in T : \A m \in T : n <= m
<1>1. PICK n \in T : \A m \in T : ~(<<m, n>> \in OpToRel(<, Nat))
  BY NatLessThanWellFounded, WFMin, Zenon
<1>2. \A m \in T : ~(m < n)
  BY <1>1 DEF OpToRel
<1> QED
  BY <1>2

(* FirstIn is where a scan of the list stops.                              *)
LEMMA FirstInFacts ==
  ASSUME NEW q \in Seq(Threads), NEW stop
  PROVE  LET i == FirstIn(q, stop) IN
         /\ i \in 1..(Len(q) + 1)
         /\ i <= Len(q) => q[i] \in stop
         /\ \A j \in 1..(i - 1) : q[j] \notin stop
<1> DEFINE T == {i \in 1..(Len(q) + 1) : i <= Len(q) => q[i] \in stop}
<1>1. Len(q) \in Nat
  OBVIOUS
<1>2. T \in SUBSET Nat /\ Len(q) + 1 \in T
  BY <1>1
<1>3. PICK i \in T : \A m \in T : i <= m
  BY <1>2, LeastNumber
<1>4. \A j \in 1..(i - 1) : q[j] \notin stop
  BY <1>1, <1>3
<1> HIDE DEF T
<1>5. i \in 1..(Len(q) + 1) /\ (i <= Len(q) => q[i] \in stop)
  BY <1>3 DEF T
<1> QED
  BY <1>4, <1>5, Zenon DEF FirstIn

(* What stands where after an insertion.                                   *)
LEMMA InsertFacts ==
  ASSUME NEW q \in Seq(Threads), NEW t \in Threads, NEW i \in 1..(Len(q) + 1)
  PROVE  /\ InsertAt(q, i, t) \in Seq(Threads)
         /\ Len(InsertAt(q, i, t)) = Len(q) + 1
         /\ \A j \in 1..(Len(q) + 1) :
              InsertAt(q, i, t)[j] = IF j < i THEN q[j] ELSE IF j = i THEN t ELSE q[j - 1]
<1> DEFINE a == SubSeq(q, 1, i - 1)
           b == SubSeq(q, i, Len(q))
<1>1. /\ a \in Seq(Threads) /\ Len(a) = i - 1
      /\ \A j \in 1..(i - 1) : a[j] = q[j]
  BY SubSeqProperties
<1>2. /\ b \in Seq(Threads) /\ Len(b) = Len(q) + 1 - i
      /\ \A j \in 1..(Len(q) + 1 - i) : b[j] = q[i + j - 1]
  BY SubSeqProperties
<1> HIDE DEF a, b
<1>3. /\ a \o <<t>> \in Seq(Threads) /\ Len(a \o <<t>>) = i
      /\ \A j \in 1..i : (a \o <<t>>)[j] = IF j < i THEN q[j] ELSE t
  BY <1>1
<1> DEFINE c == a \o <<t>>
<1> HIDE DEF c
<1>4. /\ c \in Seq(Threads) /\ Len(c) = i
      /\ \A j \in 1..i : c[j] = IF j < i THEN q[j] ELSE t
  BY <1>3 DEF c
<1>5. /\ c \o b \in Seq(Threads) /\ Len(c \o b) = Len(q) + 1
      /\ \A j \in 1..(Len(q) + 1) :
           (c \o b)[j] = IF j < i THEN q[j] ELSE IF j = i THEN t ELSE q[j - 1]
  <2>1. /\ c \o b \in Seq(Threads) /\ Len(c \o b) = Len(c) + Len(b)
        /\ \A j \in 1..(Len(c) + Len(b)) :
             (c \o b)[j] = IF j <= Len(c) THEN c[j] ELSE b[j - Len(c)]
    BY <1>2, <1>4, ConcatProperties
  <2>2. Len(c) + Len(b) = Len(q) + 1
    BY <1>2, <1>4
  <2>3. ASSUME NEW j \in 1..(Len(q) + 1), j > i
        PROVE  (c \o b)[j] = q[j - 1]
    <3>1. (c \o b)[j] = b[j - i]
      BY <2>1, <2>2, <2>3, <1>4
    <3>2. j - i \in 1..(Len(q) + 1 - i) /\ i + (j - i) - 1 = j - 1
      BY <2>3
    <3> QED
      BY <3>1, <3>2, <1>2
  <2>4. ASSUME NEW j \in 1..(Len(q) + 1), j <= i
        PROVE  (c \o b)[j] = IF j < i THEN q[j] ELSE t
    <3>1. (c \o b)[j] = c[j]
      BY <2>1, <2>2, <2>4, <1>4
    <3> QED
      BY <3>1, <2>4, <1>4
  <2>5. ASSUME NEW j \in 1..(Len(q) + 1)
        PROVE  (c \o b)[j] = IF j < i THEN q[j] ELSE IF j = i THEN t ELSE q[j - 1]
    <3>1. CASE j > i
      <4>1. ~(j < i) /\ j # i
        BY <3>1
      <4> QED
        BY <2>3, <3>1, <4>1, Zenon
    <3>2. CASE j <= i
      <4>1. j < i \/ j = i
        BY <3>2
      <4>2. (c \o b)[j] = IF j < i THEN q[j] ELSE t
        BY <2>4, <3>2, Zenon
      <4> QED
        BY <4>1, <4>2, Zenon
    <3>3. j > i \/ j <= i
      OBVIOUS
    <3> QED
      BY <3>1, <3>2, <3>3, Zenon
  <2>6. Len(c \o b) = Len(q) + 1
    BY <2>1, <2>2, Zenon
  <2> QED
    BY <2>1, <2>5, <2>6, Zenon
<1>6. InsertAt(q, i, t) = c \o b
  BY Zenon DEF InsertAt, a, b, c
<1> QED
  BY <1>5, <1>6, Zenon

-----------------------------------------------------------------------------
(* The list q holds the threads of the set R, each once, the most urgent   *)
(* first.                                                                  *)
Listed(q, R) ==
  /\ q \in Seq(Threads)
  /\ IsInjective(q)
  /\ ToSet(q) = R
  /\ \A i, j \in DOMAIN q : i < j => Prio[q[i]] >= Prio[q[j]]

(* The thread a stands before b in the list q.                             *)
Before(q, a, b) == \E i, j \in DOMAIN q : i < j /\ q[i] = a /\ q[j] = b

(* A thread put where the priorities allow keeps a list a list, and the    *)
(* order of the others.                                                    *)
LEMMA InsertListed ==
  ASSUME NEW q, NEW R, Listed(q, R), NEW t \in Threads \ R, NEW i \in 1..(Len(q) + 1),
         \A j \in 1..(i - 1) : Prio[q[j]] >= Prio[t],
         \A j \in i..Len(q) : Prio[t] >= Prio[q[j]]
  PROVE  /\ Listed(InsertAt(q, i, t), R \union {t})
         /\ \A a, b : Before(q, a, b) => Before(InsertAt(q, i, t), a, b)
         /\ \A j \in 1..(i - 1) : Before(InsertAt(q, i, t), q[j], t)
         /\ \A j \in i..Len(q) : Before(InsertAt(q, i, t), t, q[j])
<1> DEFINE r == InsertAt(q, i, t)
           n == Len(q)
           pos(j) == IF j < i THEN j ELSE j + 1
<1>1. /\ q \in Seq(Threads) /\ n \in Nat /\ DOMAIN q = 1..n
      /\ \A j \in 1..n : q[j] \in R /\ q[j] \in Threads
  BY DEF Listed, ToSet
<1>2. /\ r \in Seq(Threads) /\ Len(r) = n + 1
      /\ \A j \in 1..(n + 1) : r[j] = IF j < i THEN q[j] ELSE IF j = i THEN t ELSE q[j - 1]
  BY <1>1, InsertFacts
<1> HIDE DEF r
<1>3. DOMAIN r = 1..(n + 1)
  BY <1>1, <1>2
<1>4. i \in 1..(n + 1) /\ r[i] = t
  BY <1>1, <1>2
<1>5. \A j \in 1..n : pos(j) \in 1..(n + 1) /\ r[pos(j)] = q[j] /\ pos(j) # i
  BY <1>1, <1>2
<1>6. \A j \in 1..(n + 1) : j = i \/ \E k \in 1..n : j = pos(k)
  <2> TAKE j \in 1..(n + 1)
  <2>1. CASE j < i
    BY <2>1, <1>1
  <2>2. CASE j > i
    <3>1. j - 1 \in 1..n /\ pos(j - 1) = j
      BY <2>2, <1>1
    <3> QED
      BY <3>1
  <2> QED
    BY <2>1, <2>2, <1>1
<1>7. \A j, k \in 1..n : pos(j) < pos(k) <=> j < k
  BY <1>1
<1>8. \A j \in 1..n : (pos(j) < i <=> j < i) /\ (pos(j) > i <=> j >= i)
  BY <1>1
<1>9. \A j \in 1..n : t # q[j]
  BY <1>1
<1>10. Prio \in [Threads -> Nat]
  BY ThreadsAssumption
<1> HIDE DEF pos, n
<1>11. IsInjective(r)
  <2> SUFFICES ASSUME NEW j \in 1..(n + 1), NEW k \in 1..(n + 1), r[j] = r[k]
               PROVE  j = k
    BY <1>3 DEF IsInjective
  <2>1. \A x, y \in 1..n : q[x] = q[y] => x = y
    BY <1>1 DEF Listed, IsInjective
  <2> QED
    BY <2>1, <1>4, <1>5, <1>6, <1>9
<1>12. ToSet(r) = R \union {t}
  <2>1. ToSet(r) = {r[j] : j \in 1..(n + 1)}
    BY <1>3 DEF ToSet
  <2>2. R = {q[j] : j \in 1..n}
    BY <1>1 DEF Listed, ToSet
  <2>3. ASSUME NEW j \in 1..(n + 1) PROVE r[j] \in R \union {t}
    BY <1>4, <1>5, <1>6, <2>2
  <2>4. ASSUME NEW u \in R \union {t} PROVE \E j \in 1..(n + 1) : r[j] = u
    BY <1>4, <1>5, <2>2
  <2> QED
    BY <2>1, <2>3, <2>4
<1>13. \A j, k \in DOMAIN r : j < k => Prio[r[j]] >= Prio[r[k]]
  <2> SUFFICES ASSUME NEW j \in 1..(n + 1), NEW k \in 1..(n + 1), j < k
               PROVE  Prio[r[j]] >= Prio[r[k]]
    BY <1>3
  <2>1. \A x, y \in 1..n : x < y => Prio[q[x]] >= Prio[q[y]]
    BY <1>1 DEF Listed
  <2>2. CASE j = i
    <3>1. PICK y \in 1..n : k = pos(y)
      BY <1>6, <2>2
    <3>2. y >= i
      BY <3>1, <2>2, <1>8, <1>1
    <3>3. y \in i..n
      BY <3>2
    <3> QED
      BY <3>1, <3>3, <2>2, <1>4, <1>5 DEF n
  <2>3. CASE k = i
    <3>1. PICK x \in 1..n : j = pos(x)
      BY <1>6, <2>3
    <3>2. x \in 1..(i - 1)
      BY <3>1, <2>3, <1>8, <1>1
    <3> QED
      BY <3>1, <3>2, <2>3, <1>4, <1>5
  <2>4. CASE j # i /\ k # i
    <3>1. PICK x \in 1..n, y \in 1..n : j = pos(x) /\ k = pos(y)
      BY <1>6, <2>4
    <3> QED
      BY <3>1, <2>1, <1>5, <1>7
  <2> QED
    BY <2>2, <2>3, <2>4
<1>14. ASSUME NEW a, NEW b, Before(q, a, b)
       PROVE  Before(r, a, b)
  <2>1. PICK x \in 1..n, y \in 1..n : x < y /\ q[x] = a /\ q[y] = b
    BY <1>14, <1>1 DEF Before
  <2>2. /\ pos(x) \in DOMAIN r /\ pos(y) \in DOMAIN r
        /\ pos(x) < pos(y) /\ r[pos(x)] = a /\ r[pos(y)] = b
    BY <2>1, <1>3, <1>5, <1>7
  <2> QED
    BY <2>2, Zenon DEF Before
<1>15. ASSUME NEW j \in 1..(i - 1)
       PROVE  Before(r, q[j], t)
  <2>1. j \in 1..n
    BY <1>1, <1>4 DEF n
  <2>2. pos(j) \in DOMAIN r /\ i \in DOMAIN r /\ pos(j) < i /\ r[pos(j)] = q[j] /\ r[i] = t
    BY <2>1, <1>3, <1>4, <1>5, <1>8
  <2> QED
    BY <2>2, Zenon DEF Before
<1>16. ASSUME NEW j \in i..n
       PROVE  Before(r, t, q[j])
  <2>1. j \in 1..n /\ j >= i
    BY <1>1, <1>4 DEF n
  <2>2. pos(j) \in 1..(n + 1) /\ pos(j) > i
    BY <2>1, <1>5, <1>8
  <2>3. pos(j) \in DOMAIN r /\ i \in DOMAIN r /\ i < pos(j) /\ r[pos(j)] = q[j] /\ r[i] = t
    BY <2>1, <2>2, <1>3, <1>4, <1>5
  <2> QED
    BY <2>3, Zenon DEF Before
<1> QED
  BY <1>2, <1>11, <1>12, <1>13, <1>14, <1>15, <1>16 DEF Listed, r, n

(* chSchReadyI: the list gains the thread, behind all of its priority.     *)
LEMMA BehindListed ==
  ASSUME NEW q, NEW R, Listed(q, R), NEW t \in Threads \ R
  PROVE  /\ Listed(Behind(q, t), R \union {t})
         /\ \A a, b : Before(q, a, b) => Before(Behind(q, t), a, b)
         /\ \A u \in R : Prio[u] >= Prio[t] => Before(Behind(q, t), u, t)
<1> DEFINE stop == {u \in Threads : Prio[u] < Prio[t]}
           i == FirstIn(q, stop)
<1>1. /\ q \in Seq(Threads) /\ Len(q) \in Nat /\ DOMAIN q = 1..Len(q)
      /\ \A j \in 1..Len(q) : q[j] \in R /\ q[j] \in Threads
      /\ \A j, k \in 1..Len(q) : j < k => Prio[q[j]] >= Prio[q[k]]
      /\ \A u \in R : \E j \in 1..Len(q) : q[j] = u
  BY DEF Listed, ToSet
<1>2. /\ i \in 1..(Len(q) + 1)
      /\ i <= Len(q) => q[i] \in stop
      /\ \A j \in 1..(i - 1) : q[j] \notin stop
  BY <1>1, FirstInFacts
<1> HIDE DEF i
<1>3. Prio \in [Threads -> Nat]
  BY ThreadsAssumption
<1>4. \A j \in 1..(i - 1) : Prio[q[j]] >= Prio[t]
  BY <1>1, <1>2, <1>3
<1>5. \A j \in i..Len(q) : Prio[q[j]] < Prio[t]
  <2> TAKE j \in i..Len(q)
  <2>1. Prio[q[i]] < Prio[t] /\ i \in 1..Len(q) /\ j \in 1..Len(q)
    BY <1>1, <1>2
  <2>2. Prio[q[i]] >= Prio[q[j]]
    BY <1>1, <2>1, <1>3
  <2> QED
    BY <2>1, <2>2, <1>1, <1>3
<1>6. \A j \in i..Len(q) : Prio[t] >= Prio[q[j]]
  BY <1>1, <1>2, <1>3, <1>5
<1>7. \A u \in R : Prio[u] >= Prio[t] => \E j \in 1..(i - 1) : q[j] = u
  <2> SUFFICES ASSUME NEW u \in R, Prio[u] >= Prio[t]
               PROVE  \E j \in 1..(i - 1) : q[j] = u
    OBVIOUS
  <2>1. PICK j \in 1..Len(q) : q[j] = u
    BY <1>1
  <2>2. ~(j >= i)
    BY <2>1, <1>1, <1>2, <1>3, <1>5
  <2> QED
    BY <2>1, <2>2, <1>2
<1>8. Behind(q, t) = InsertAt(q, i, t)
  BY DEF Behind, i
<1>9. /\ Listed(InsertAt(q, i, t), R \union {t})
      /\ \A a, b : Before(q, a, b) => Before(InsertAt(q, i, t), a, b)
      /\ \A j \in 1..(i - 1) : Before(InsertAt(q, i, t), q[j], t)
  BY <1>2, <1>4, <1>6, InsertListed, Zenon
<1> QED
  BY <1>7, <1>8, <1>9, Zenon

(* chSchReadyAheadI: the list gains the thread, ahead of its priority.     *)
LEMMA AheadListed ==
  ASSUME NEW q, NEW R, Listed(q, R), NEW t \in Threads \ R
  PROVE  /\ Listed(Ahead(q, t), R \union {t})
         /\ \A a, b : Before(q, a, b) => Before(Ahead(q, t), a, b)
         /\ \A u \in R : Prio[u] <= Prio[t] => Before(Ahead(q, t), t, u)
<1> DEFINE stop == {u \in Threads : Prio[u] <= Prio[t]}
           i == FirstIn(q, stop)
<1>1. /\ q \in Seq(Threads) /\ Len(q) \in Nat /\ DOMAIN q = 1..Len(q)
      /\ \A j \in 1..Len(q) : q[j] \in R /\ q[j] \in Threads
      /\ \A j, k \in 1..Len(q) : j < k => Prio[q[j]] >= Prio[q[k]]
      /\ \A u \in R : \E j \in 1..Len(q) : q[j] = u
  BY DEF Listed, ToSet
<1>2. /\ i \in 1..(Len(q) + 1)
      /\ i <= Len(q) => q[i] \in stop
      /\ \A j \in 1..(i - 1) : q[j] \notin stop
  BY <1>1, FirstInFacts
<1> HIDE DEF i
<1>3. Prio \in [Threads -> Nat]
  BY ThreadsAssumption
<1>4. \A j \in 1..(i - 1) : Prio[q[j]] > Prio[t]
  BY <1>1, <1>2, <1>3
<1>5. \A j \in i..Len(q) : Prio[t] >= Prio[q[j]]
  <2> TAKE j \in i..Len(q)
  <2>1. Prio[q[i]] <= Prio[t] /\ i \in 1..Len(q) /\ j \in 1..Len(q)
    BY <1>1, <1>2
  <2>2. Prio[q[i]] >= Prio[q[j]]
    BY <1>1, <2>1, <1>3
  <2> QED
    BY <2>1, <2>2, <1>1, <1>3
<1>6. \A j \in 1..(i - 1) : Prio[q[j]] >= Prio[t]
  BY <1>1, <1>2, <1>3, <1>4
<1>7. \A u \in R : Prio[u] <= Prio[t] => \E j \in i..Len(q) : q[j] = u
  <2> SUFFICES ASSUME NEW u \in R, Prio[u] <= Prio[t]
               PROVE  \E j \in i..Len(q) : q[j] = u
    OBVIOUS
  <2>1. PICK j \in 1..Len(q) : q[j] = u
    BY <1>1
  <2>2. ~(j < i)
    BY <2>1, <1>1, <1>2, <1>3, <1>4
  <2> QED
    BY <2>1, <2>2, <1>2
<1>8. Ahead(q, t) = InsertAt(q, i, t)
  BY DEF Ahead, i
<1>9. /\ Listed(InsertAt(q, i, t), R \union {t})
      /\ \A a, b : Before(q, a, b) => Before(InsertAt(q, i, t), a, b)
      /\ \A j \in i..Len(q) : Before(InsertAt(q, i, t), t, q[j])
  BY <1>2, <1>5, <1>6, InsertListed, Zenon
<1> QED
  BY <1>7, <1>8, <1>9, Zenon

(* The head is the most urgent thread, and stands before all others; what  *)
(* is left without it is a list in the same order.                         *)
LEMMA TailListed ==
  ASSUME NEW q, NEW R, Listed(q, R), R # {}
  PROVE  /\ q # <<>>
         /\ Head(q) \in R
         /\ \A u \in R : Prio[Head(q)] >= Prio[u]
         /\ \A u \in R \ {Head(q)} : Before(q, Head(q), u)
         /\ Listed(Tail(q), R \ {Head(q)})
         /\ \A a, b : a # Head(q) /\ Before(q, a, b) => Before(Tail(q), a, b)
<1> DEFINE n == Len(q)
           r == Tail(q)
<1>1. /\ q \in Seq(Threads) /\ n \in Nat /\ DOMAIN q = 1..n
      /\ \A j \in 1..n : q[j] \in R /\ q[j] \in Threads
      /\ \A j, k \in 1..n : j < k => Prio[q[j]] >= Prio[q[k]]
      /\ \A u \in R : \E j \in 1..n : q[j] = u
      /\ \A j, k \in 1..n : q[j] = q[k] => j = k
  BY DEF Listed, ToSet, IsInjective
<1>2. n >= 1 /\ q # <<>>
  BY <1>1
<1>3. /\ Head(q) = q[1] /\ r \in Seq(Threads) /\ Len(r) = n - 1 /\ DOMAIN r = 1..(n - 1)
      /\ \A j \in 1..(n - 1) : r[j] = q[j + 1]
  BY <1>1, <1>2, HeadTailProperties
<1>4. Prio \in [Threads -> Nat]
  BY ThreadsAssumption
<1> HIDE DEF n, r
<1>5. Head(q) \in R
  BY <1>1, <1>2, <1>3
<1>6. ASSUME NEW u \in R
      PROVE  Prio[Head(q)] >= Prio[u]
  <2>1. PICK j \in 1..n : q[j] = u
    BY <1>1
  <2>2. CASE j = 1
    <3>1. u \in Threads /\ u = Head(q)
      BY <2>1, <2>2, <1>1, <1>3
    <3> QED
      BY <3>1, <1>4
  <2>3. CASE j # 1
    <3>1. 1 \in 1..n /\ 1 < j
      BY <1>1, <1>2, <2>3
    <3> QED
      BY <3>1, <2>1, <1>1, <1>3
  <2> QED
    BY <2>2, <2>3
<1>7. ASSUME NEW u \in R \ {Head(q)}
      PROVE  Before(q, Head(q), u)
  <2>1. PICK j \in 1..n : q[j] = u
    BY <1>1
  <2>2. 1 \in DOMAIN q /\ j \in DOMAIN q /\ 1 < j
    BY <1>1, <1>2, <1>3, <2>1
  <2> QED
    BY <1>3, <2>1, <2>2, Zenon DEF Before
<1>8. \A j \in 1..(n - 1) : j + 1 \in 1..n /\ j + 1 # 1
  BY <1>1
<1>9. \A j \in 1..n : j # 1 => j - 1 \in 1..(n - 1) /\ r[j - 1] = q[j]
  BY <1>1, <1>3
<1>10. ToSet(r) = R \ {Head(q)}
  <2>1. ToSet(r) = {r[j] : j \in 1..(n - 1)}
    BY <1>3 DEF ToSet
  <2>2. ASSUME NEW j \in 1..(n - 1) PROVE r[j] \in R \ {Head(q)}
    <3>1. 1 \in 1..n /\ j + 1 \in 1..n /\ j + 1 # 1 /\ r[j] = q[j + 1]
      BY <1>1, <1>2, <1>3, <1>8
    <3> QED
      BY <3>1, <1>1, <1>3
  <2>3. ASSUME NEW u \in R \ {Head(q)} PROVE \E j \in 1..(n - 1) : r[j] = u
    <3>1. PICK j \in 1..n : q[j] = u
      BY <1>1
    <3>2. j - 1 \in 1..(n - 1) /\ r[j - 1] = u
      BY <3>1, <1>3, <1>9
    <3> QED
      BY <3>2
  <2> QED
    BY <2>1, <2>2, <2>3
<1>11. IsInjective(r)
  <2> SUFFICES ASSUME NEW j \in 1..(n - 1), NEW k \in 1..(n - 1), r[j] = r[k]
               PROVE  j = k
    BY <1>3 DEF IsInjective
  <2>1. j + 1 \in 1..n /\ k + 1 \in 1..n /\ q[j + 1] = q[k + 1]
    BY <1>3, <1>8
  <2>2. j + 1 = k + 1
    BY <2>1, <1>1
  <2> QED
    BY <2>2
<1>12. \A j, k \in DOMAIN r : j < k => Prio[r[j]] >= Prio[r[k]]
  <2> SUFFICES ASSUME NEW j \in 1..(n - 1), NEW k \in 1..(n - 1), j < k
               PROVE  Prio[r[j]] >= Prio[r[k]]
    BY <1>3
  <2>1. /\ j + 1 \in 1..n /\ k + 1 \in 1..n /\ j + 1 < k + 1
        /\ r[j] = q[j + 1] /\ r[k] = q[k + 1]
    BY <1>3, <1>8
  <2> QED
    BY <2>1, <1>1, <1>3
<1>13. ASSUME NEW a, NEW b, a # Head(q), Before(q, a, b)
       PROVE  Before(r, a, b)
  <2>1. PICK j \in 1..n, k \in 1..n : j < k /\ q[j] = a /\ q[k] = b
    BY <1>1, <1>13 DEF Before
  <2>2. j # 1 /\ k # 1
    BY <2>1, <1>3, <1>13
  <2>3. /\ j - 1 \in DOMAIN r /\ k - 1 \in DOMAIN r /\ j - 1 < k - 1
        /\ r[j - 1] = a /\ r[k - 1] = b
    BY <2>1, <2>2, <1>3, <1>9
  <2> QED
    BY <2>3, Zenon DEF Before
<1> QED
  BY <1>2, <1>3, <1>5, <1>6, <1>7, <1>10, <1>11, <1>12, <1>13 DEF Listed, r

(* No two threads stand before each other.                                 *)
LEMMA BeforeAsymmetric ==
  ASSUME NEW q, NEW R, Listed(q, R), NEW a, NEW b, Before(q, a, b)
  PROVE  ~Before(q, b, a) /\ a \in R /\ b \in R
<1>1. /\ q \in Seq(Threads) /\ Len(q) \in Nat /\ DOMAIN q = 1..Len(q)
      /\ \A j, k \in 1..Len(q) : q[j] = q[k] => j = k
      /\ \A j \in 1..Len(q) : q[j] \in R
  BY DEF Listed, IsInjective, ToSet
<1> QED
  BY <1>1 DEF Before

(* The kernel's assertion on the list, as one about its threads.           *)
LEMMA ViolatedByOne ==
  ASSUME NEW q, NEW R, Listed(q, R), NEW t \in Threads
  PROVE  PriorityOrderViolated(q, t) <=> \E u \in R : Prio[u] > Prio[t]
<1>1. R \subseteq Threads /\ q \in Seq(Threads)
  BY DEF Listed, ToSet
<1>2. Prio \in [Threads -> Nat]
  BY ThreadsAssumption
<1>3. CASE R = {}
  <2>1. q = <<>>
    BY <1>3 DEF Listed, ToSet
  <2> QED
    BY <2>1, <1>3 DEF PriorityOrderViolated
<1>4. CASE R # {}
  <2>1. /\ q # <<>> /\ Head(q) \in R
        /\ \A u \in R : Prio[Head(q)] >= Prio[u]
    BY <1>4, TailListed, Zenon
  <2>2. /\ \A u \in Threads : Prio[u] \in Nat
        /\ Head(q) \in Threads
    BY <1>1, <1>2, <2>1
  <2>3. (\E u \in R : Prio[u] > Prio[t]) <=> Prio[Head(q)] > Prio[t]
    BY <1>1, <2>1, <2>2
  <2> QED
    BY <2>1, <2>3, Zenon DEF PriorityOrderViolated
<1> QED
  BY <1>3, <1>4

-----------------------------------------------------------------------------
(* The inductive invariant.                                                *)

(* The threads that the ready list should hold.                            *)
ReadyThreads == {t \in Threads : tstate[t] = "READY"}

SchRanges ==
  /\ current \in Threads
  /\ tstate \in [Threads -> WaitStates \union {"READY", "CURRENT"}]
  /\ rdymsg \in [Threads -> {"none", "OK", "TIMEOUT", "RESET"}]
  /\ armed \in SUBSET Threads
  /\ firing \in SUBSET Threads
  /\ preempted \in SUBSET Threads

AppRanges ==
  /\ order \in BootOrders
  /\ boot \in 0..Len(order)
  /\ comm \in {"read", "request", "nothing"}
  /\ requests \in 0..MaxRequests

Bits == {connected, isr, panic} \subseteq BOOLEAN

(* The ready list is one of the ready threads, and one thread is current.  *)
ListsAgree ==
  /\ Listed(ready, ReadyThreads)
  /\ \A t \in Threads : tstate[t] = "CURRENT" <=> t = current

(* Outside of interrupts the current thread is the most urgent one.        *)
MostUrgentRuns == ~isr => \A t \in ReadyThreads : Prio[t] <= Prio[current]

(* The idle thread is always there to be dispatched.                       *)
IdleNeverSleeps == tstate[Idle] \in {"READY", "CURRENT"} /\ Idle \notin armed \union firing

(* Timers run for threads that exist and that do not run, and a callback   *)
(* is only due inside of an interrupt.                                     *)
TimersAgree ==
  /\ \A t \in armed \union firing : tstate[t] \notin {"CURRENT", "WTSTART"}
  /\ ~isr => firing = {}

(* A thread put off the CPU is ready, less urgent than the one that has    *)
(* it, and stands before its peers.                                        *)
PreemptedFirst ==
  \A t \in preempted :
    /\ tstate[t] = "READY"
    /\ Prio[t] < Prio[current]
    /\ \A u \in ReadyThreads \ {t} : Prio[u] = Prio[t] => Before(ready, t, u)

(* What main() has still to create has not started.                        *)
NotYetCreated == \A j \in (boot + 1)..Len(order) : tstate[order[j]] = "WTSTART"

SchInv ==
  /\ SchRanges
  /\ ~panic
  /\ ListsAgree
  /\ MostUrgentRuns
  /\ IdleNeverSleeps
  /\ TimersAgree
  /\ PreemptedFirst

IInv == Bits /\ SchInv /\ AppRanges /\ NotYetCreated

(* The threads that have not started stay so.                              *)
UnbornStay == \A t \in Threads : tstate[t] = "WTSTART" => tstate'[t] = "WTSTART"

(* MessageStands, of one step.                                             *)
MessagesKept ==
  \A t \in Threads : tstate[t] = "READY" /\ tstate'[t] = "READY" => rdymsg'[t] = rdymsg[t]

-----------------------------------------------------------------------------
(* What the kernel's functions keep.                                       *)

(* chSchGoSleepTimeoutS: the head of the list takes the CPU.               *)
LEMMA SleepKeeps ==
  ASSUME SchInv, NEW t \in Threads \ {Idle}, NEW newstate \in WaitStates \ {"WTSTART"},
         NEW timed, Sleep(t, newstate, timed)
  PROVE  SchInv' /\ UnbornStay /\ MessagesKept /\ PeersWait
<1> DEFINE ntp == Head(ready)
<1>1. /\ current = t /\ ~isr /\ ~panic
      /\ current' = ntp
      /\ ready' = Tail(ready)
      /\ tstate' = [tstate EXCEPT ![current] = newstate, ![ntp] = "CURRENT"]
      /\ armed' = (armed \union (IF timed THEN {current} ELSE {})) \ {ntp}
      /\ rdymsg' = [rdymsg EXCEPT ![ntp] = "none"]
      /\ firing' = firing
      /\ preempted' = preempted \ {current'}
  BY DEF Sleep, ChSchGoSleepTimeoutS
<1>2. panic' <=> PriorityOrderViolated(Tail(ready), ntp)
  BY Zenon DEF Sleep, ChSchGoSleepTimeoutS
<1>3. isr' = isr
  BY Zenon DEF Sleep, ChSchGoSleepTimeoutS
<1>4. Prio \in [Threads -> Nat] /\ Idle \in Threads
  BY ThreadsAssumption
<1>5. Idle \in ReadyThreads
  BY <1>1, <1>4 DEF SchInv, IdleNeverSleeps, ListsAgree, ReadyThreads
<1>6. /\ ntp \in ReadyThreads
      /\ \A u \in ReadyThreads : Prio[ntp] >= Prio[u]
      /\ \A u \in ReadyThreads \ {ntp} : Before(ready, ntp, u)
      /\ Listed(Tail(ready), ReadyThreads \ {ntp})
      /\ \A a, b : a # ntp /\ Before(ready, a, b) => Before(Tail(ready), a, b)
  BY <1>5, TailListed, Zenon DEF SchInv, ListsAgree
<1>7. ntp \in Threads /\ ntp # current /\ tstate[ntp] = "READY" /\ tstate[current] = "CURRENT"
  BY <1>1, <1>6 DEF SchInv, ListsAgree, ReadyThreads
<1> HIDE DEF ntp
<1>8. /\ tstate' \in [Threads -> WaitStates \union {"READY", "CURRENT"}]
      /\ \A u \in Threads : tstate'[u] = IF u = ntp THEN "CURRENT"
                                         ELSE IF u = current THEN newstate ELSE tstate[u]
  BY <1>1, <1>7 DEF SchInv, SchRanges, WaitStates
<1>9. newstate \notin {"READY", "CURRENT", "WTSTART"}
  BY DEF WaitStates
<1>10. ReadyThreads' = ReadyThreads \ {ntp}
  BY <1>7, <1>8, <1>9 DEF ReadyThreads
<1>11. SchRanges'
  BY <1>1, <1>7, <1>8 DEF SchInv, SchRanges
<1>12. ~panic'
  <2>1. \A u \in ReadyThreads \ {ntp} : Prio[ntp] >= Prio[u] /\ u \in Threads
    BY <1>6 DEF ReadyThreads
  <2>2. ~\E u \in ReadyThreads \ {ntp} : Prio[u] > Prio[ntp]
    BY <2>1, <1>4, <1>7
  <2> QED
    BY <2>2, <1>2, <1>6, <1>7, ViolatedByOne, Zenon
<1>13. ListsAgree'
  <2>1. Listed(ready', ReadyThreads')
    BY <1>1, <1>6, <1>10
  <2>2. \A u \in Threads : tstate'[u] = "CURRENT" <=> u = current'
    BY <1>1, <1>7, <1>8, <1>9 DEF SchInv, ListsAgree
  <2> QED
    BY <2>1, <2>2 DEF ListsAgree
<1>14. MostUrgentRuns'
  <2>1. \A u \in ReadyThreads' : Prio[u] <= Prio[current']
    BY <1>1, <1>4, <1>6, <1>7, <1>10 DEF ReadyThreads
  <2> QED
    BY <2>1 DEF MostUrgentRuns
<1>15. IdleNeverSleeps'
  BY <1>1, <1>4, <1>7, <1>8 DEF SchInv, IdleNeverSleeps
<1>16. TimersAgree'
  <2>1. firing = {}
    BY <1>1 DEF SchInv, TimersAgree
  <2>2. \A u \in armed' \union firing' : u \in Threads /\ u # ntp /\ (u # current => u \in armed)
    BY <1>1, <2>1, <1>11 DEF SchRanges
  <2>3. \A u \in armed' \union firing' : tstate'[u] \notin {"CURRENT", "WTSTART"}
    BY <2>2, <1>8, <1>9 DEF SchInv, TimersAgree
  <2> QED
    BY <2>1, <2>3, <1>1 DEF TimersAgree
<1>17. PreemptedFirst' /\ PeersWait
  <2>1. ASSUME NEW u \in preempted, u # ntp
        PROVE  Prio[ntp] > Prio[u]
    <3>1. u \in ReadyThreads \ {ntp} /\ Prio[ntp] >= Prio[u] /\ Before(ready, ntp, u)
      BY <2>1, <1>6 DEF SchInv, SchRanges, PreemptedFirst, ReadyThreads
    <3>2. ~Before(ready, u, ntp)
      BY <3>1, BeforeAsymmetric, Zenon DEF SchInv, ListsAgree
    <3>3. Prio[ntp] # Prio[u]
      BY <2>1, <3>2, <1>6 DEF SchInv, PreemptedFirst
    <3> QED
      BY <3>1, <3>3, <1>4, <1>7 DEF ReadyThreads
  <2>2. ASSUME NEW u \in preempted'
        PROVE  /\ tstate'[u] = "READY"
               /\ Prio[u] < Prio[current']
               /\ \A v \in ReadyThreads' \ {u} : Prio[v] = Prio[u] => Before(ready', u, v)
    <3>1. u \in preempted /\ u # ntp /\ u \in Threads /\ u # current
      BY <1>1, <2>2 DEF SchInv, SchRanges, PreemptedFirst, ListsAgree
    <3>2. tstate'[u] = "READY" /\ Prio[u] < Prio[current']
      BY <3>1, <2>1, <1>1, <1>4, <1>7, <1>8 DEF SchInv, PreemptedFirst
    <3>3. ASSUME NEW v \in ReadyThreads' \ {u}, Prio[v] = Prio[u]
          PROVE  Before(ready', u, v)
      <4>1. Before(ready, u, v)
        BY <3>1, <3>3, <1>10 DEF SchInv, PreemptedFirst
      <4> QED
        BY <4>1, <3>1, <1>1, <1>6
    <3> QED
      BY <3>2, <3>3
  <2>3. PreemptedFirst'
    BY <2>2 DEF PreemptedFirst
  <2>4. PeersWait
    <3> SUFFICES ASSUME NEW u \in preempted, u # ntp
                 PROVE  Prio[ntp] # Prio[u]
      BY <1>1 DEF PeersWait
    <3> QED
      BY <2>1, <1>4, <1>7 DEF SchInv, SchRanges
  <2> QED
    BY <2>3, <2>4
<1>18. UnbornStay
  BY <1>7, <1>8 DEF UnbornStay
<1>19. MessagesKept
  BY <1>1, <1>7, <1>8 DEF MessagesKept, SchInv, SchRanges
<1> QED
  BY <1>11, <1>12, <1>13, <1>14, <1>15, <1>16, <1>17, <1>18, <1>19, Zenon DEF SchInv

(* Inside of an interrupt the threads of ts, which sleep, are put in the   *)
(* list, each behind its peers.                                            *)
LEMMA ReadyKeeps ==
  ASSUME SchInv, NEW ts \in SUBSET (Threads \ ReadyThreads), NEW q,
         \A t \in ts : tstate[t] \notin {"CURRENT", "WTSTART"},
         Listed(q, ReadyThreads \union ts),
         \A a, b : Before(ready, a, b) => Before(q, a, b),
         \A u \in ReadyThreads : \A t \in ts : Prio[u] >= Prio[t] => Before(q, u, t),
         ready' = q,
         tstate' = [t \in Threads |-> IF t \in ts THEN "READY" ELSE tstate[t]],
         rdymsg' \in [Threads -> {"none", "OK", "TIMEOUT", "RESET"}],
         \A t \in Threads \ ts : rdymsg'[t] = rdymsg[t],
         isr', ~panic',
         UNCHANGED <<current, armed, preempted>>,
         firing' \in SUBSET firing
  PROVE  SchInv' /\ UnbornStay /\ MessagesKept /\ PeersWait
<1>1. /\ ts \subseteq Threads
      /\ \A t \in ts : tstate[t] \notin {"READY", "CURRENT", "WTSTART"}
      /\ current' = current /\ armed' = armed /\ preempted' = preempted
  BY DEF ReadyThreads
<1>2. /\ tstate' \in [Threads -> WaitStates \union {"READY", "CURRENT"}]
      /\ \A u \in Threads : tstate'[u] = IF u \in ts THEN "READY" ELSE tstate[u]
  BY DEF SchInv, SchRanges
<1>3. ReadyThreads' = ReadyThreads \union ts
  BY <1>1, <1>2 DEF ReadyThreads
<1>4. SchRanges'
  BY <1>1, <1>2 DEF SchInv, SchRanges
<1>5. ListsAgree'
  <2>1. Listed(ready', ReadyThreads')
    BY <1>3
  <2>2. \A u \in Threads : tstate'[u] = "CURRENT" <=> u = current'
    BY <1>1, <1>2 DEF SchInv, ListsAgree
  <2> QED
    BY <2>1, <2>2 DEF ListsAgree
<1>6. MostUrgentRuns'
  BY DEF MostUrgentRuns
<1>7. IdleNeverSleeps'
  BY <1>1, <1>2, ThreadsAssumption DEF SchInv, IdleNeverSleeps
<1>8. TimersAgree'
  <2>1. \A u \in armed' \union firing' : u \in armed \union firing /\ u \in Threads
    BY <1>1 DEF SchInv, SchRanges
  <2> QED
    BY <2>1, <1>2 DEF SchInv, TimersAgree
<1>9. PreemptedFirst'
  <2> SUFFICES ASSUME NEW t \in preempted
               PROVE  /\ tstate'[t] = "READY"
                      /\ Prio[t] < Prio[current]
                      /\ \A u \in ReadyThreads' \ {t} : Prio[u] = Prio[t] => Before(q, t, u)
    BY <1>1 DEF PreemptedFirst
  <2>1. t \in ReadyThreads /\ t \in Threads /\ Prio[t] < Prio[current]
    BY DEF SchInv, SchRanges, PreemptedFirst, ReadyThreads
  <2>2. tstate'[t] = "READY"
    BY <2>1, <1>1, <1>2 DEF ReadyThreads
  <2>3. ASSUME NEW u \in ReadyThreads' \ {t}, Prio[u] = Prio[t]
        PROVE  Before(q, t, u)
    <3>1. CASE u \in ReadyThreads
      <4>1. Before(ready, t, u)
        BY <2>3, <3>1 DEF SchInv, PreemptedFirst
      <4> QED
        BY <4>1
    <3>2. CASE u \in ts
      <4>1. Prio[t] >= Prio[u]
        BY <2>1, <2>3, ThreadsAssumption
      <4> QED
        BY <4>1, <2>1, <3>2
    <3> QED
      BY <3>1, <3>2, <1>3
  <2> QED
    BY <2>1, <2>2, <2>3
<1>10. UnbornStay
  BY <1>1, <1>2 DEF UnbornStay
<1>11. MessagesKept
  BY <1>1, <1>2 DEF MessagesKept
<1>12. PeersWait
  BY <1>1 DEF PeersWait
<1> QED
  BY <1>4, <1>5, <1>6, <1>7, <1>8, <1>9, <1>10, <1>11, <1>12, Zenon DEF SchInv

(* _port_irq_epilogue: the head of the list takes the CPU if it is more    *)
(* urgent, and the current thread goes ahead of its peers.                 *)
LEMMA EpilogueKeeps ==
  ASSUME SchInv, InterruptsEnd
  PROVE  SchInv' /\ UnbornStay /\ MessagesKept /\ PeersWait
<1> DEFINE ntp == Head(ready)
<1>1. Prio \in [Threads -> Nat] /\ current \in Threads /\ tstate[current] = "CURRENT"
  BY ThreadsAssumption DEF SchInv, SchRanges, ListsAgree
<1>2. Listed(ready, ReadyThreads)
  BY DEF SchInv, ListsAgree
<1>3. CASE ~PreemptionRequired
  <2>1. /\ current' = current /\ ready' = ready /\ tstate' = tstate /\ rdymsg' = rdymsg
        /\ armed' = armed /\ firing' = firing /\ firing = {} /\ preempted' = preempted
    BY <1>3 DEF InterruptsEnd, PortIrqEpilogue
  <2>2. panic' = panic
    BY <1>3, Zenon DEF InterruptsEnd, PortIrqEpilogue
  <2>3. \A u \in ReadyThreads : Prio[u] <= Prio[current]
    <3>1. ~PriorityOrderViolated(ready, current)
      BY <1>3, Zenon DEF PreemptionRequired, PriorityOrderViolated
    <3>2. ~\E u \in ReadyThreads : Prio[u] > Prio[current]
      BY <3>1, <1>1, <1>2, ViolatedByOne, Zenon
    <3> QED
      BY <3>2, <1>1 DEF ReadyThreads
  <2>4. ReadyThreads' = ReadyThreads
    BY <2>1 DEF ReadyThreads
  <2>5. SchRanges' /\ ListsAgree' /\ IdleNeverSleeps' /\ PreemptedFirst'
    BY <2>1, <2>4 DEF SchInv, SchRanges, ListsAgree, IdleNeverSleeps, PreemptedFirst
  <2>6. MostUrgentRuns' /\ TimersAgree'
    BY <2>1, <2>3, <2>4 DEF SchInv, MostUrgentRuns, TimersAgree
  <2>7. UnbornStay /\ MessagesKept /\ PeersWait
    BY <2>1 DEF UnbornStay, MessagesKept, PeersWait
  <2> QED
    BY <2>2, <2>5, <2>6, <2>7, Zenon DEF SchInv
<1>4. CASE PreemptionRequired
  <2>1. /\ current' = ntp
        /\ ready' = Ahead(Tail(ready), current)
        /\ tstate' = [tstate EXCEPT ![current] = "READY", ![ntp] = "CURRENT"]
        /\ rdymsg' = [rdymsg EXCEPT ![ntp] = "none"]
        /\ armed' = armed \ {ntp}
        /\ firing' = firing /\ firing = {}
    BY <1>4 DEF InterruptsEnd, PortIrqEpilogue
  <2>2. panic' <=> PriorityOrderViolated(ready', ntp)
    BY <1>4, Zenon DEF InterruptsEnd, PortIrqEpilogue
  <2>3. ready # <<>> /\ Prio[ntp] > Prio[current]
    BY <1>4 DEF PreemptionRequired
  <2>4. ReadyThreads # {}
    <3>1. ready \in Seq(Threads) /\ ToSet(ready) = ReadyThreads
      BY <1>2 DEF Listed
    <3>2. 1 \in DOMAIN ready
      BY <3>1, <2>3
    <3> QED
      BY <3>1, <3>2 DEF ToSet
  <2>5. /\ ntp \in ReadyThreads
        /\ \A u \in ReadyThreads : Prio[ntp] >= Prio[u]
        /\ Listed(Tail(ready), ReadyThreads \ {ntp})
        /\ \A a, b : a # ntp /\ Before(ready, a, b) => Before(Tail(ready), a, b)
    BY <2>4, <1>2, TailListed, Zenon
  <2> HIDE DEF ntp
  <2>6. ntp \in Threads /\ ntp # current /\ tstate[ntp] = "READY"
    BY <2>5, <1>1 DEF ReadyThreads
  <2>7. current \in Threads \ (ReadyThreads \ {ntp})
    BY <1>1 DEF ReadyThreads
  <2>8. /\ Listed(ready', (ReadyThreads \ {ntp}) \union {current})
        /\ \A a, b : Before(Tail(ready), a, b) => Before(ready', a, b)
        /\ \A u \in ReadyThreads \ {ntp} : Prio[u] <= Prio[current] => Before(ready', current, u)
    BY <2>1, <2>5, <2>7, AheadListed, Zenon
  <2>9. /\ tstate' \in [Threads -> WaitStates \union {"READY", "CURRENT"}]
        /\ \A u \in Threads : tstate'[u] = IF u = ntp THEN "CURRENT"
                                           ELSE IF u = current THEN "READY" ELSE tstate[u]
    BY <2>1, <2>6, <1>1 DEF SchInv, SchRanges, WaitStates
  <2>10. ReadyThreads' = (ReadyThreads \ {ntp}) \union {current}
    BY <2>6, <2>9, <1>1 DEF ReadyThreads
  <2>11. preempted' = (preempted \union {current}) \ {ntp}
    BY <2>1, <2>6 DEF InterruptsEnd
  <2>12. SchRanges'
    BY <2>1, <2>6, <2>9, <2>11, <1>1 DEF SchInv, SchRanges
  <2>13. \A u \in ReadyThreads' : Prio[u] <= Prio[ntp]
    BY <2>3, <2>5, <2>6, <2>10, <1>1 DEF ReadyThreads
  <2>14. ~panic'
    <3>1. ~\E u \in ReadyThreads' : Prio[u] > Prio[ntp]
      <4>1. \A u \in ReadyThreads' : u \in Threads
        BY <2>10, <1>1 DEF ReadyThreads
      <4> QED
        BY <2>13, <4>1, <2>6, <1>1
    <3>2. Listed(ready', ReadyThreads')
      BY <2>8, <2>10
    <3> QED
      BY <3>1, <3>2, <2>2, <2>6, ViolatedByOne, Zenon
  <2>15. ListsAgree'
    <3>1. Listed(ready', ReadyThreads')
      BY <2>8, <2>10
    <3>2. \A u \in Threads : tstate'[u] = "CURRENT" <=> u = current'
      BY <2>1, <2>6, <2>9, <1>1 DEF SchInv, ListsAgree
    <3> QED
      BY <3>1, <3>2 DEF ListsAgree
  <2>16. MostUrgentRuns'
    BY <2>1, <2>13 DEF MostUrgentRuns
  <2>17. IdleNeverSleeps'
    BY <2>1, <2>6, <2>9, ThreadsAssumption DEF SchInv, IdleNeverSleeps
  <2>18. TimersAgree'
    <3>1. \A u \in armed' \union firing' : u \in armed /\ u # ntp /\ u \in Threads
      BY <2>1 DEF SchInv, SchRanges
    <3> QED
      BY <3>1, <2>1, <2>9 DEF SchInv, TimersAgree
  <2>19. ASSUME NEW t \in preempted
         PROVE  t \in Threads /\ t # current /\ t # ntp /\ tstate[t] = "READY" /\ Prio[t] < Prio[current]
    <3>1. t \in Threads /\ tstate[t] = "READY" /\ Prio[t] < Prio[current]
      BY <2>19 DEF SchInv, SchRanges, PreemptedFirst
    <3> QED
      BY <3>1, <2>3, <2>6, <1>1
  <2>20. ASSUME NEW t \in preempted', NEW u \in ReadyThreads' \ {t}, Prio[u] = Prio[t]
         PROVE  Before(ready', t, u)
    <3>1. CASE t = current
      <4>1. u \in ReadyThreads \ {ntp} /\ Prio[u] <= Prio[current]
        BY <3>1, <2>10, <2>20, <1>1
      <4> QED
        BY <4>1, <3>1, <2>8
    <3>2. CASE t # current
      <4>1. t \in preempted
        BY <3>2, <2>11, <2>20
      <4>2. u # current
        BY <4>1, <2>19, <2>20, <1>1
      <4>3. u \in ReadyThreads \ {t}
        BY <4>2, <2>10, <2>20
      <4>4. Before(ready, t, u)
        BY <4>1, <4>3, <2>20 DEF SchInv, PreemptedFirst
      <4> QED
        BY <4>1, <4>4, <2>5, <2>8, <2>19
    <3> QED
      BY <3>1, <3>2
  <2>21. ASSUME NEW t \in preempted'
         PROVE  tstate'[t] = "READY" /\ Prio[t] < Prio[current']
    <3>1. t = current \/ t \in preempted
      BY <2>11, <2>21
    <3> QED
      BY <3>1, <2>1, <2>3, <2>6, <2>9, <2>19, <1>1
  <2>22. PreemptedFirst'
    BY <2>20, <2>21 DEF PreemptedFirst
  <2>23. PeersWait
    BY <2>1, <2>3, <2>6, <2>19, <1>1 DEF PeersWait
  <2>24. UnbornStay
    BY <2>6, <2>9, <1>1 DEF UnbornStay
  <2>25. MessagesKept
    BY <2>1, <2>6, <2>9 DEF MessagesKept, SchInv, SchRanges
  <2> QED
    BY <2>12, <2>14, <2>15, <2>16, <2>17, <2>18, <2>22, <2>23, <2>24, <2>25, Zenon DEF SchInv
<1> QED
  BY <1>3, <1>4

(* chThdCreateStatic: the new thread goes behind its peers, or takes the   *)
(* CPU from the less urgent one that creates it.                           *)
LEMMA CreateKeeps ==
  ASSUME SchInv, NEW tp \in Threads \ {Idle}, tstate[tp] = "WTSTART",
         ChThdCreateStatic(tp), UNCHANGED preempted
  PROVE  /\ SchInv' /\ MessagesKept /\ PeersWait
         /\ \A t \in Threads \ {tp} : tstate[t] = "WTSTART" => tstate'[t] = "WTSTART"
<1>1. Prio \in [Threads -> Nat] /\ current \in Threads /\ tstate[current] = "CURRENT" /\ tp # current
  BY ThreadsAssumption DEF SchInv, SchRanges, ListsAgree
<1>2. Listed(ready, ReadyThreads)
  BY DEF SchInv, ListsAgree
<1>3. /\ ~isr /\ armed' = armed /\ firing' = firing /\ preempted' = preempted
  BY DEF ChThdCreateStatic
<1>4. isr' = isr
  BY Zenon DEF ChThdCreateStatic
<1>5. panic' <=> PriorityOrderViolated(ready, current) \/ PriorityOrderViolated(ready', current')
  BY Zenon DEF ChThdCreateStatic
<1>6. \A u \in ReadyThreads : u \in Threads /\ Prio[u] <= Prio[current] /\ u # current /\ u # tp
  BY <1>1, <1>3 DEF SchInv, MostUrgentRuns, ReadyThreads
<1>7. tp \notin armed \union firing
  BY DEF SchInv, TimersAgree
<1>8. ASSUME NEW c \in Threads, current' = c,
             \A u \in ReadyThreads' : u \in Threads /\ Prio[u] <= Prio[c],
             Listed(ready', ReadyThreads')
      PROVE  ~panic' /\ MostUrgentRuns'
  <2>1. /\ ~\E u \in ReadyThreads : Prio[u] > Prio[current]
        /\ ~\E u \in ReadyThreads' : Prio[u] > Prio[c]
    BY <1>1, <1>6, <1>8
  <2>2. ~PriorityOrderViolated(ready, current)
    BY <2>1, <1>1, <1>2, ViolatedByOne, Zenon
  <2>3. ~PriorityOrderViolated(ready', c)
    BY <2>1, <1>8, ViolatedByOne, Zenon
  <2>4. ~panic'
    BY <2>2, <2>3, <1>5, <1>8, Zenon
  <2>5. MostUrgentRuns'
    BY <1>8 DEF MostUrgentRuns
  <2> QED
    BY <2>4, <2>5
<1>9. CASE Prio[tp] <= Prio[current]
  <2>1. /\ rdymsg' = [rdymsg EXCEPT ![tp] = "OK"]
        /\ ready' = Behind(ready, tp)
        /\ tstate' = [tstate EXCEPT ![tp] = "READY"]
        /\ current' = current
    BY <1>9 DEF ChThdCreateStatic
  <2>2. tp \in Threads \ ReadyThreads
    BY DEF ReadyThreads
  <2>3. /\ Listed(ready', ReadyThreads \union {tp})
        /\ \A a, b : Before(ready, a, b) => Before(ready', a, b)
        /\ \A u \in ReadyThreads : Prio[u] >= Prio[tp] => Before(ready', u, tp)
    BY <2>1, <2>2, <1>2, BehindListed, Zenon
  <2>4. /\ tstate' \in [Threads -> WaitStates \union {"READY", "CURRENT"}]
        /\ \A u \in Threads : tstate'[u] = IF u = tp THEN "READY" ELSE tstate[u]
    BY <2>1 DEF SchInv, SchRanges
  <2>5. ReadyThreads' = ReadyThreads \union {tp}
    BY <2>4 DEF ReadyThreads
  <2>6. SchRanges'
    BY <2>1, <2>4, <1>3 DEF SchInv, SchRanges
  <2>7. ListsAgree'
    <3>1. Listed(ready', ReadyThreads')
      BY <2>3, <2>5
    <3>2. \A u \in Threads : tstate'[u] = "CURRENT" <=> u = current'
      BY <2>1, <2>4, <1>1 DEF SchInv, ListsAgree
    <3> QED
      BY <3>1, <3>2 DEF ListsAgree
  <2>8. ~panic' /\ MostUrgentRuns'
    BY <2>1, <2>3, <2>5, <1>1, <1>6, <1>8, <1>9
  <2>9. IdleNeverSleeps' /\ TimersAgree'
    <3>1. \A u \in armed' \union firing' : u \in armed \union firing /\ u \in Threads /\ u # tp
      BY <1>3, <1>7 DEF SchInv, SchRanges
    <3>2. TimersAgree'
      BY <3>1, <2>4, <1>3 DEF SchInv, TimersAgree
    <3>3. IdleNeverSleeps'
      BY <2>4, <1>3, ThreadsAssumption DEF SchInv, IdleNeverSleeps
    <3> QED
      BY <3>2, <3>3
  <2>10. PreemptedFirst'
    <3> SUFFICES ASSUME NEW t \in preempted
                 PROVE  /\ tstate'[t] = "READY"
                        /\ Prio[t] < Prio[current]
                        /\ \A u \in ReadyThreads' \ {t} : Prio[u] = Prio[t] => Before(ready', t, u)
      BY <2>1, <1>3 DEF PreemptedFirst
    <3>1. t \in ReadyThreads /\ t \in Threads /\ Prio[t] < Prio[current] /\ tstate'[t] = "READY"
      BY <2>4 DEF SchInv, SchRanges, PreemptedFirst, ReadyThreads
    <3>2. ASSUME NEW u \in ReadyThreads' \ {t}, Prio[u] = Prio[t]
          PROVE  Before(ready', t, u)
      <4>1. CASE u = tp
        <5>1. Prio[t] >= Prio[tp]
          BY <4>1, <3>1, <3>2, <1>1
        <5> QED
          BY <5>1, <4>1, <3>1, <2>3
      <4>2. CASE u # tp
        <5>1. Before(ready, t, u)
          BY <4>2, <3>2, <2>5 DEF SchInv, PreemptedFirst
        <5> QED
          BY <5>1, <2>3
      <4> QED
        BY <4>1, <4>2
    <3> QED
      BY <3>1, <3>2
  <2>11. MessagesKept /\ PeersWait
    BY <2>1, <2>4 DEF MessagesKept, PeersWait, SchInv, SchRanges
  <2> QED
    BY <2>4, <2>6, <2>7, <2>8, <2>9, <2>10, <2>11, Zenon DEF SchInv
<1>10. CASE ~(Prio[tp] <= Prio[current])
  <2>1. /\ rdymsg' = rdymsg
        /\ ready' = Behind(ready, current)
        /\ tstate' = [tstate EXCEPT ![current] = "READY", ![tp] = "CURRENT"]
        /\ current' = tp
    BY <1>10 DEF ChThdCreateStatic
  <2>2. current \in Threads \ ReadyThreads /\ Prio[current] < Prio[tp]
    BY <1>1, <1>10 DEF ReadyThreads
  <2>3. /\ Listed(ready', ReadyThreads \union {current})
        /\ \A a, b : Before(ready, a, b) => Before(ready', a, b)
    BY <2>1, <2>2, <1>2, BehindListed, Zenon
  <2>4. /\ tstate' \in [Threads -> WaitStates \union {"READY", "CURRENT"}]
        /\ \A u \in Threads : tstate'[u] = IF u = tp THEN "CURRENT"
                                           ELSE IF u = current THEN "READY" ELSE tstate[u]
    BY <2>1, <1>1 DEF SchInv, SchRanges
  <2>5. ReadyThreads' = ReadyThreads \union {current}
    BY <2>4, <1>1 DEF ReadyThreads
  <2>6. SchRanges'
    BY <2>1, <2>4, <1>3 DEF SchInv, SchRanges
  <2>7. ListsAgree'
    <3>1. Listed(ready', ReadyThreads')
      BY <2>3, <2>5
    <3>2. \A u \in Threads : tstate'[u] = "CURRENT" <=> u = current'
      BY <2>1, <2>4, <1>1 DEF SchInv, ListsAgree
    <3> QED
      BY <3>1, <3>2 DEF ListsAgree
  <2>8. ~panic' /\ MostUrgentRuns'
    <3>1. \A u \in ReadyThreads' : u \in Threads /\ Prio[u] <= Prio[tp]
      BY <2>2, <2>5, <1>1, <1>6
    <3>2. Listed(ready', ReadyThreads')
      BY <2>3, <2>5
    <3> QED
      BY <3>1, <3>2, <2>1, <1>8
  <2>9. IdleNeverSleeps' /\ TimersAgree'
    <3>1. \A u \in armed' \union firing' : u \in armed \union firing /\ u \in Threads /\ u # tp
      BY <1>3, <1>7 DEF SchInv, SchRanges
    <3>2. TimersAgree'
      BY <3>1, <2>4, <1>3 DEF SchInv, TimersAgree
    <3>3. IdleNeverSleeps'
      BY <2>4, <1>3, ThreadsAssumption DEF SchInv, IdleNeverSleeps
    <3> QED
      BY <3>2, <3>3
  <2>10. \A t \in preempted : /\ t \in Threads /\ t # current /\ t # tp
                              /\ tstate[t] = "READY" /\ Prio[t] < Prio[current]
    BY <1>1 DEF SchInv, SchRanges, PreemptedFirst
  <2>11. PreemptedFirst'
    <3> SUFFICES ASSUME NEW t \in preempted
                 PROVE  /\ tstate'[t] = "READY"
                        /\ Prio[t] < Prio[tp]
                        /\ \A u \in ReadyThreads' \ {t} : Prio[u] = Prio[t] => Before(ready', t, u)
      BY <2>1, <1>3 DEF PreemptedFirst
    <3>1. tstate'[t] = "READY" /\ Prio[t] < Prio[tp]
      BY <2>2, <2>4, <2>10, <1>1
    <3>2. ASSUME NEW u \in ReadyThreads' \ {t}, Prio[u] = Prio[t]
          PROVE  Before(ready', t, u)
      <4>1. u # current
        BY <3>2, <2>10, <1>1
      <4>2. Before(ready, t, u)
        BY <4>1, <3>2, <2>5 DEF SchInv, PreemptedFirst
      <4> QED
        BY <4>2, <2>3
    <3> QED
      BY <3>1, <3>2
  <2>12. MessagesKept
    BY <2>1 DEF MessagesKept
  <2>13. PeersWait
    BY <2>1, <2>2, <2>10, <1>1 DEF PeersWait
  <2> QED
    BY <2>4, <2>6, <2>7, <2>8, <2>9, <2>11, <2>12, <2>13, <1>1, Zenon DEF SchInv
<1> QED
  BY <1>9, <1>10

-----------------------------------------------------------------------------
(* The steps.                                                              *)

(* A step that leaves the kernel alone keeps what the kernel keeps.        *)
LEMMA StutterKeeps ==
  ASSUME SchInv, UNCHANGED <<schVars, preempted>>
  PROVE  SchInv' /\ UnbornStay /\ MessagesKept /\ PeersWait
<1>1. /\ current' = current /\ ready' = ready /\ tstate' = tstate /\ rdymsg' = rdymsg
      /\ armed' = armed /\ firing' = firing /\ preempted' = preempted
  BY DEF schVars
<1>2. isr' = isr /\ panic' = panic
  BY Zenon DEF schVars
<1>3. ReadyThreads' = ReadyThreads
  BY <1>1 DEF ReadyThreads
<1>4. SchRanges' /\ ListsAgree' /\ IdleNeverSleeps' /\ PreemptedFirst'
  BY <1>1, <1>3 DEF SchInv, SchRanges, ListsAgree, IdleNeverSleeps, PreemptedFirst
<1>5. MostUrgentRuns' /\ TimersAgree'
  <2>1. ~isr' => ~isr
    BY <1>2, Zenon
  <2> QED
    BY <2>1, <1>1, <1>3 DEF SchInv, MostUrgentRuns, TimersAgree
<1>6. UnbornStay /\ MessagesKept /\ PeersWait
  BY <1>1 DEF UnbornStay, MessagesKept, PeersWait
<1> QED
  BY <1>2, <1>4, <1>5, <1>6, Zenon DEF SchInv

(* EventFor: a thread that waits is made ready.                            *)
LEMMA EventKeeps ==
  ASSUME SchInv, NEW t \in Threads, EventFor(t)
  PROVE  SchInv' /\ UnbornStay /\ MessagesKept /\ PeersWait
<1>1. /\ ready' = Behind(ready, t)
      /\ tstate' = [u \in Threads |-> IF u \in {t} THEN "READY" ELSE tstate[u]]
      /\ rdymsg' = [u \in Threads |-> IF u \in {t} THEN [v \in Threads |-> "OK"][u] ELSE rdymsg[u]]
      /\ current' = current /\ armed' = armed /\ firing' = firing /\ preempted' = preempted
  BY DEF EventFor, ChSchReadyI, appVars
<1>2. isr' /\ (panic' <=> \E u \in {t} : tstate[u] = "READY")
  BY Zenon DEF EventFor, ChSchReadyI
<1>3. tstate[t] \notin {"READY", "CURRENT", "WTSTART"}
  BY DEF EventFor, Waiting
<1>4. ~panic' /\ t \in Threads \ ReadyThreads
  BY <1>2, <1>3 DEF ReadyThreads
<1>5. /\ Listed(Behind(ready, t), ReadyThreads \union {t})
      /\ \A a, b : Before(ready, a, b) => Before(Behind(ready, t), a, b)
      /\ \A u \in ReadyThreads : Prio[u] >= Prio[t] => Before(Behind(ready, t), u, t)
  BY <1>4, BehindListed, Zenon DEF SchInv, ListsAgree
<1>6. /\ rdymsg' \in [Threads -> {"none", "OK", "TIMEOUT", "RESET"}]
      /\ \A u \in Threads \ {t} : rdymsg'[u] = rdymsg[u]
  BY <1>1 DEF SchInv, SchRanges
<1> DEFINE ts == {t}
<1>7. /\ ts \in SUBSET (Threads \ ReadyThreads)
      /\ \A u \in ts : tstate[u] \notin {"CURRENT", "WTSTART"}
      /\ Listed(Behind(ready, t), ReadyThreads \union ts)
      /\ \A u \in ReadyThreads : \A v \in ts : Prio[u] >= Prio[v] => Before(Behind(ready, t), u, v)
      /\ \A u \in Threads \ ts : rdymsg'[u] = rdymsg[u]
      /\ firing' \in SUBSET firing
  BY <1>1, <1>3, <1>4, <1>5, <1>6
<1> QED
  BY <1>1, <1>2, <1>4, <1>5, <1>6, <1>7, ReadyKeeps, Zenon

(* wakeup: the callback of a timer leaves a ready thread alone.            *)
LEMMA WakeupKeeps ==
  ASSUME SchInv, NEW t \in Threads, TimerCallback(t)
  PROVE  SchInv' /\ UnbornStay /\ MessagesKept /\ PeersWait
<1>1. /\ t \in firing /\ firing' = firing \ {t}
      /\ current' = current /\ armed' = armed /\ preempted' = preempted
  BY DEF TimerCallback, Wakeup, appVars
<1>2. isr' = isr /\ panic' = panic /\ ~panic
  BY Zenon DEF TimerCallback, Wakeup
<1>3. isr'
  BY <1>1, <1>2 DEF SchInv, TimersAgree
<1>4. tstate[t] \notin {"CURRENT", "WTSTART"}
  BY <1>1 DEF SchInv, TimersAgree
<1>5. CASE tstate[t] = "READY"
  <2>1. ready' = ready /\ tstate' = tstate /\ rdymsg' = rdymsg
    BY <1>5 DEF TimerCallback, Wakeup
  <2> DEFINE ts == {}
  <2>2. /\ ts \in SUBSET (Threads \ ReadyThreads)
        /\ \A u \in ts : tstate[u] \notin {"CURRENT", "WTSTART"}
        /\ Listed(ready, ReadyThreads \union ts)
        /\ \A u \in ReadyThreads : \A v \in ts : Prio[u] >= Prio[v] => Before(ready, u, v)
        /\ \A u \in Threads \ ts : rdymsg'[u] = rdymsg[u]
        /\ tstate' = [u \in Threads |-> IF u \in ts THEN "READY" ELSE tstate[u]]
        /\ firing' \in SUBSET firing
        /\ rdymsg' \in [Threads -> {"none", "OK", "TIMEOUT", "RESET"}]
    BY <2>1, <1>1 DEF SchInv, ListsAgree, SchRanges
  <2> HIDE DEF ts
  <2> QED
    BY <2>1, <2>2, <1>1, <1>2, <1>3, ReadyKeeps, Zenon
<1>6. CASE tstate[t] # "READY"
  <2>1. /\ ready' = Behind(ready, t)
        /\ tstate' = [tstate EXCEPT ![t] = "READY"]
        /\ rdymsg' = [rdymsg EXCEPT ![t] = "TIMEOUT"]
    BY <1>6 DEF TimerCallback, Wakeup
  <2>2. t \in Threads \ ReadyThreads
    BY <1>6 DEF ReadyThreads
  <2>3. /\ Listed(Behind(ready, t), ReadyThreads \union {t})
        /\ \A a, b : Before(ready, a, b) => Before(Behind(ready, t), a, b)
        /\ \A u \in ReadyThreads : Prio[u] >= Prio[t] => Before(Behind(ready, t), u, t)
    BY <2>2, BehindListed, Zenon DEF SchInv, ListsAgree
  <2> DEFINE ts == {t}
  <2>4. /\ ts \in SUBSET (Threads \ ReadyThreads)
        /\ \A u \in ts : tstate[u] \notin {"CURRENT", "WTSTART"}
        /\ Listed(Behind(ready, t), ReadyThreads \union ts)
        /\ \A u \in ReadyThreads : \A v \in ts : Prio[u] >= Prio[v] => Before(Behind(ready, t), u, v)
        /\ firing' \in SUBSET firing
    BY <2>2, <2>3, <1>1, <1>4
  <2>5. /\ \A u \in Threads \ ts : rdymsg'[u] = rdymsg[u]
        /\ tstate' = [u \in Threads |-> IF u \in ts THEN "READY" ELSE tstate[u]]
        /\ rdymsg' \in [Threads -> {"none", "OK", "TIMEOUT", "RESET"}]
    BY <2>1 DEF SchInv, SchRanges
  <2> HIDE DEF ts
  <2> QED
    BY <2>1, <2>3, <2>4, <2>5, <1>1, <1>2, <1>3, ReadyKeeps, Zenon
<1> QED
  BY <1>5, <1>6

(* chVTDoTickI: a timer that ran out is one whose callback is due.         *)
LEMMA TickKeeps ==
  ASSUME SchInv, NEW t \in Threads, TimerExpires(t)
  PROVE  SchInv' /\ UnbornStay /\ MessagesKept /\ PeersWait
<1>1. /\ t \in armed /\ armed' = armed \ {t} /\ firing' = firing \union {t}
      /\ current' = current /\ ready' = ready /\ tstate' = tstate /\ rdymsg' = rdymsg
      /\ preempted' = preempted
  BY DEF TimerExpires, ChVTDoTickI, appVars
<1>2. isr' /\ panic' = panic
  BY Zenon DEF TimerExpires, ChVTDoTickI
<1>3. ReadyThreads' = ReadyThreads
  BY <1>1 DEF ReadyThreads
<1>4. SchRanges' /\ ListsAgree' /\ IdleNeverSleeps' /\ PreemptedFirst'
  BY <1>1, <1>3 DEF SchInv, SchRanges, ListsAgree, IdleNeverSleeps, PreemptedFirst
<1>5. MostUrgentRuns' /\ TimersAgree'
  BY <1>1, <1>2 DEF SchInv, MostUrgentRuns, TimersAgree
<1>6. UnbornStay /\ MessagesKept /\ PeersWait
  BY <1>1 DEF UnbornStay, MessagesKept, PeersWait
<1> QED
  BY <1>2, <1>4, <1>5, <1>6, Zenon DEF SchInv

(* A thread that waits goes behind its peers, one that does not stays out. *)
LEMMA BehindIfListed ==
  ASSUME NEW q, NEW R, Listed(q, R), NEW t \in Threads, Waiting(t) => t \notin R
  PROVE  /\ Listed(BehindIfWaiting(q, t), R \union {u \in {t} : Waiting(u)})
         /\ \A a, b : Before(q, a, b) => Before(BehindIfWaiting(q, t), a, b)
         /\ Waiting(t) => \A u \in R : Prio[u] >= Prio[t] => Before(BehindIfWaiting(q, t), u, t)
<1>1. CASE Waiting(t)
  <2>1. BehindIfWaiting(q, t) = Behind(q, t) /\ {u \in {t} : Waiting(u)} = {t} /\ t \in Threads \ R
    BY <1>1 DEF BehindIfWaiting
  <2>2. /\ Listed(Behind(q, t), R \union {t})
        /\ \A a, b : Before(q, a, b) => Before(Behind(q, t), a, b)
        /\ \A u \in R : Prio[u] >= Prio[t] => Before(Behind(q, t), u, t)
    BY <2>1, BehindListed, Zenon
  <2> QED
    BY <2>1, <2>2
<1>2. CASE ~Waiting(t)
  <2>1. BehindIfWaiting(q, t) = q /\ R \union {u \in {t} : Waiting(u)} = R
    BY <1>2 DEF BehindIfWaiting
  <2> QED
    BY <2>1, <1>2
<1> QED
  BY <1>1, <1>2

(* The hooks of the channel make up to two threads ready.                  *)
LEMMA BusKeeps ==
  ASSUME SchInv, NEW c \in BOOLEAN, BusConnects(c)
  PROVE  SchInv' /\ UnbornStay /\ MessagesKept /\ PeersWait
<1> DEFINE one == {u \in {"blinker"} : Waiting(u)}
           two == {u \in {"comm"} : Waiting(u)}
           ts == {u \in {"blinker", "comm"} : Waiting(u)}
           q1 == BehindIfWaiting(ready, "blinker")
           q == BehindIfWaiting(q1, "comm")
<1>1. /\ ready' = q
      /\ tstate' = [u \in Threads |-> IF u \in ts THEN "READY" ELSE tstate[u]]
      /\ rdymsg' = [u \in Threads |-> IF u \in ts THEN [t \in Threads |-> IF t = "comm" THEN "RESET" ELSE "OK"][u]
                                      ELSE rdymsg[u]]
      /\ current' = current /\ armed' = armed /\ firing' = firing /\ preempted' = preempted
  BY DEF BusConnects, ChSchReadyI
<1>2. isr' /\ (panic' <=> \E u \in ts : tstate[u] = "READY")
  BY Zenon DEF BusConnects, ChSchReadyI
<1>3. {"blinker", "comm"} \subseteq Threads
  BY BootAssumption
<1>4. \A u \in ts : tstate[u] \notin {"READY", "CURRENT", "WTSTART"}
  BY DEF Waiting
<1>5. ~panic' /\ ts \in SUBSET (Threads \ ReadyThreads)
  BY <1>2, <1>3, <1>4 DEF ReadyThreads
<1>6. /\ Waiting("blinker") => "blinker" \notin ReadyThreads
      /\ Waiting("comm") => "comm" \notin ReadyThreads \union one
      /\ (ReadyThreads \union one) \union two = ReadyThreads \union ts
  BY DEF ReadyThreads, Waiting
<1>7. /\ Listed(q1, ReadyThreads \union one)
      /\ \A a, b : Before(ready, a, b) => Before(q1, a, b)
      /\ Waiting("blinker")
           => \A u \in ReadyThreads : Prio[u] >= Prio["blinker"] => Before(q1, u, "blinker")
  BY <1>3, <1>6, BehindIfListed, Zenon DEF SchInv, ListsAgree
<1> HIDE DEF q1
<1>8. /\ Listed(q, (ReadyThreads \union one) \union two)
      /\ \A a, b : Before(q1, a, b) => Before(q, a, b)
      /\ Waiting("comm")
           => \A u \in ReadyThreads \union one : Prio[u] >= Prio["comm"] => Before(q, u, "comm")
  BY <1>3, <1>6, <1>7, BehindIfListed, Zenon
<1> HIDE DEF q, one, two
<1>9. /\ Listed(q, ReadyThreads \union ts)
      /\ \A a, b : Before(ready, a, b) => Before(q, a, b)
      /\ \A u \in ReadyThreads : \A t \in ts : Prio[u] >= Prio[t] => Before(q, u, t)
  <2>1. /\ Listed(q, ReadyThreads \union ts)
        /\ \A a, b : Before(ready, a, b) => Before(q, a, b)
    BY <1>6, <1>7, <1>8, Zenon
  <2>2. ASSUME NEW u \in ReadyThreads, NEW t \in ts, Prio[u] >= Prio[t]
        PROVE  Before(q, u, t)
    <3>1. CASE t = "blinker"
      BY <3>1, <2>2, <1>7, <1>8
    <3>2. CASE t = "comm"
      BY <3>2, <2>2, <1>8
    <3> QED
      BY <3>1, <3>2
  <2> QED
    BY <2>1, <2>2
<1>10. /\ \A u \in Threads \ ts : rdymsg'[u] = rdymsg[u]
       /\ rdymsg' \in [Threads -> {"none", "OK", "TIMEOUT", "RESET"}]
       /\ \A u \in ts : tstate[u] \notin {"CURRENT", "WTSTART"}
       /\ firing' \in SUBSET firing
  BY <1>1, <1>4 DEF SchInv, SchRanges
<1> HIDE DEF ts
<1> QED
  BY <1>1, <1>2, <1>5, <1>9, <1>10, ReadyKeeps, Zenon

(* What a thread may do.                                                   *)
ThreadSleeps ==
  \/ MainSleeps \/ CanRx \/ CanTx \/ BlinkerSleeps \/ AdcSampleThread

CommSteps == CommReadsRequest \/ CommReadsNothing \/ CommReplies \/ CommLoops

(* Every step of a thread is one of them.                                  *)
LEMMA ThreadCases ==
  ASSUME NEW t \in Threads \ {Idle}, Thread(t)
  PROVE  MainCreates \/ ThreadSleeps \/ CommSteps
<1>1. \/ t = Main \/ t = "can_rx" \/ t = "can_tx" \/ t = "blinker" \/ t = "adc" \/ t = "comm"
  BY BootAssumption
<1>2. Main \notin {"can_rx", "can_tx", "comm", "blinker", "adc"}
  BY BootAssumption
<1>3. CASE t = Main
  BY <1>2, <1>3 DEF Thread, ThreadSleeps
<1>4. CASE t = "can_rx"
  BY <1>2, <1>4 DEF Thread, ThreadSleeps
<1>5. CASE t = "can_tx"
  BY <1>2, <1>5 DEF Thread, ThreadSleeps
<1>6. CASE t = "blinker"
  BY <1>2, <1>6 DEF Thread, ThreadSleeps
<1>7. CASE t = "adc"
  BY <1>2, <1>7 DEF Thread, ThreadSleeps
<1>8. CASE t = "comm"
  BY <1>2, <1>8 DEF Thread, CommSteps
<1> QED
  BY <1>1, <1>3, <1>4, <1>5, <1>6, <1>7, <1>8

(* The flags stay Booleans.                                                *)
LEMMA BitsStep == Bits /\ [Next]_vars => Bits'
<1> SUFFICES ASSUME Bits, [Next]_vars
             PROVE  Bits'
  OBVIOUS
<1> USE DEF Bits, schVars, appVars
<1>1. ASSUME NEW t, NEW newstate, NEW timed, Sleep(t, newstate, timed), UNCHANGED connected
      PROVE  Bits'
  BY <1>1, Zenon DEF Sleep, ChSchGoSleepTimeoutS, PriorityOrderViolated
<1>2. CASE MainCreates
  BY <1>2, Zenon DEF MainCreates, ChThdCreateStatic, PriorityOrderViolated
<1>3. CASE ThreadSleeps
  BY <1>1, <1>3, Zenon DEF ThreadSleeps, MainSleeps, CanRx, CanTx, BlinkerSleeps, AdcSampleThread
<1>4. CASE CommSteps
  BY <1>1, <1>4, Zenon
     DEF CommSteps, CommReadsRequest, CommReadsNothing, CommReplies, CommLoops
<1>5. ASSUME NEW t, EventFor(t)
      PROVE  Bits'
  BY <1>5, Zenon DEF EventFor, ChSchReadyI
<1>6. ASSUME NEW t, TimerExpires(t) \/ TimerCallback(t)
      PROVE  Bits'
  BY <1>6, Zenon DEF TimerExpires, ChVTDoTickI, TimerCallback, Wakeup
<1>7. ASSUME NEW c \in BOOLEAN, BusConnects(c)
      PROVE  Bits'
  BY <1>7, Zenon DEF BusConnects, ChSchReadyI
<1>8. CASE InterruptsEnd
  BY <1>8, Zenon DEF InterruptsEnd, PortIrqEpilogue, PriorityOrderViolated
<1>9. CASE UNCHANGED vars
  BY <1>9, Zenon DEF vars
<1> QED
  BY <1>2, <1>3, <1>4, <1>5, <1>6, <1>7, <1>8, <1>9, ThreadCases, Zenon DEF Next

(* The order main() follows names threads, each once.                      *)
LEMMA OrderFacts ==
  ASSUME AppRanges
  PROVE  /\ Len(order) \in Nat
         /\ \A j \in 1..Len(order) : order[j] \in Threads \ {Main, Idle}
         /\ \A j, k \in 1..Len(order) : order[j] = order[k] => j = k
<1>1. order \in Seq(Threads \ {Main, Idle}) /\ IsInjective(order)
  BY BootAssumption DEF AppRanges
<1> QED
  BY <1>1 DEF IsInjective

(* A step of no creation leaves the uncreated threads as they are.         *)
LEMMA SameOrder ==
  ASSUME AppRanges, NotYetCreated, UnbornStay, UNCHANGED <<order, boot>>
  PROVE  NotYetCreated'
<1>1. boot \in Nat
  BY OrderFacts DEF AppRanges
<1>2. \A j \in (boot + 1)..Len(order) : order[j] \in Threads
  BY <1>1, OrderFacts
<1> QED
  BY <1>2 DEF NotYetCreated, UnbornStay

(* One step keeps the invariant, the messages and the peers' order.        *)
LEMMA Step ==
  ASSUME IInv, [Next]_vars
  PROVE  SchInv' /\ AppRanges' /\ NotYetCreated' /\ MessagesKept /\ PeersWait
<1>1. SchInv /\ AppRanges /\ NotYetCreated
  BY DEF IInv
<1>2. Main \in Threads \ {Idle} /\ {"can_rx", "can_tx", "blinker", "adc", "comm"} \subseteq Threads \ {Idle}
  BY ThreadsAssumption, BootAssumption
<1>3. {"SUSPENDED", "QUEUED", "SLEEPING", "WTOREVT"} \subseteq WaitStates \ {"WTSTART"}
  BY DEF WaitStates
<1>4. ASSUME UnbornStay, UNCHANGED <<order, boot>>, AppRanges'
      PROVE  NotYetCreated' /\ AppRanges'
  BY <1>1, <1>4, SameOrder, Zenon
<1>5. CASE MainCreates
  <2> DEFINE tp == order[boot + 1]
  <2>1. /\ boot < Len(order) /\ ChThdCreateStatic(tp) /\ boot' = boot + 1 /\ order' = order
        /\ comm' = comm /\ requests' = requests /\ preempted' = preempted
    BY <1>5 DEF MainCreates
  <2>2. boot + 1 \in (boot + 1)..Len(order) /\ boot + 1 \in 1..Len(order) /\ boot \in Nat
    BY <2>1, <1>1, OrderFacts DEF AppRanges
  <2>3. tp \in Threads \ {Idle} /\ tstate[tp] = "WTSTART"
    BY <2>2, <1>1, OrderFacts DEF NotYetCreated
  <2> HIDE DEF tp
  <2>4. /\ SchInv' /\ MessagesKept /\ PeersWait
        /\ \A t \in Threads \ {tp} : tstate[t] = "WTSTART" => tstate'[t] = "WTSTART"
    BY <2>1, <2>3, <1>1, CreateKeeps, Zenon
  <2>5. AppRanges'
    BY <2>1, <2>2, <1>1 DEF AppRanges
  <2>6. NotYetCreated'
    <3> SUFFICES ASSUME NEW j \in (boot + 2)..Len(order)
                 PROVE  tstate'[order[j]] = "WTSTART"
      BY <2>1, <2>2 DEF NotYetCreated
    <3>1. j \in 1..Len(order) /\ j \in (boot + 1)..Len(order) /\ j # boot + 1
      BY <2>2
    <3>2. order[j] \in Threads \ {tp}
      BY <3>1, <2>2, <1>1, OrderFacts DEF tp
    <3> QED
      BY <3>1, <3>2, <2>4, <1>1 DEF NotYetCreated
  <2> QED
    BY <2>4, <2>5, <2>6
<1>6. CASE ThreadSleeps
  <2>1. \E t \in Threads \ {Idle}, ns \in WaitStates \ {"WTSTART"}, timed \in BOOLEAN : Sleep(t, ns, timed)
    <3>1. CASE MainSleeps \/ CanRx \/ AdcSampleThread
      BY <3>1, <1>2, <1>3 DEF MainSleeps, CanRx, AdcSampleThread
    <3>2. CASE CanTx \/ BlinkerSleeps
      BY <3>2, <1>2, <1>3 DEF CanTx, BlinkerSleeps
    <3> QED
      BY <1>6, <3>1, <3>2 DEF ThreadSleeps
  <2>2. SchInv' /\ UnbornStay /\ MessagesKept /\ PeersWait
    BY <2>1, <1>1, SleepKeeps, Zenon
  <2>3. order' = order /\ boot' = boot /\ comm' = comm /\ requests' = requests
    BY <1>6 DEF ThreadSleeps, MainSleeps, CanRx, CanTx, BlinkerSleeps, AdcSampleThread
  <2>4. AppRanges'
    BY <2>3, <1>1 DEF AppRanges
  <2> QED
    BY <2>2, <2>3, <2>4, <1>4
<1>7. CASE CommSteps
  <2>1. \/ \E timed \in BOOLEAN : Sleep("comm", "QUEUED", timed)
        \/ UNCHANGED <<schVars, preempted>>
    <3>1. CASE CommReadsRequest \/ CommLoops
      BY <3>1, Zenon DEF CommReadsRequest, CommLoops
    <3>2. CASE CommReadsNothing \/ CommReplies
      BY <3>2, Zenon DEF CommReadsNothing, CommReplies
    <3> QED
      BY <1>7, <3>1, <3>2 DEF CommSteps
  <2>2. ASSUME NEW timed \in BOOLEAN, Sleep("comm", "QUEUED", timed)
        PROVE  SchInv' /\ UnbornStay /\ MessagesKept /\ PeersWait
    <3>1. "comm" \in Threads \ {Idle} /\ "QUEUED" \in WaitStates \ {"WTSTART"}
      BY <1>2, <1>3
    <3> QED
      BY <3>1, <2>2, <1>1, SleepKeeps, Zenon
  <2>3. ASSUME UNCHANGED <<schVars, preempted>>
        PROVE  SchInv' /\ UnbornStay /\ MessagesKept /\ PeersWait
    BY <2>3, <1>1, StutterKeeps, Zenon
  <2>4. /\ order' = order /\ boot' = boot
        /\ requests' \in {requests, requests - 1} /\ (requests' = requests \/ requests > 0)
        /\ comm' \in {"read", "request", "nothing"}
    BY <1>7 DEF CommSteps, CommReadsRequest, CommReadsNothing, CommReplies, CommLoops
  <2>5. AppRanges'
    BY <2>4, <1>1, BootAssumption DEF AppRanges
  <2> QED
    BY <2>1, <2>2, <2>3, <2>4, <2>5, <1>4
<1>8. ASSUME UNCHANGED <<order, boot, comm, requests>>,
             SchInv' /\ UnbornStay /\ MessagesKept /\ PeersWait
      PROVE  SchInv' /\ AppRanges' /\ NotYetCreated' /\ MessagesKept /\ PeersWait
  <2>1. AppRanges'
    BY <1>1, <1>8 DEF AppRanges
  <2> QED
    BY <2>1, <1>4, <1>8
<1>9. ASSUME NEW t \in Threads, EventFor(t) \/ TimerExpires(t) \/ TimerCallback(t)
      PROVE  SchInv' /\ AppRanges' /\ NotYetCreated' /\ MessagesKept /\ PeersWait
  <2>1. UNCHANGED <<order, boot, comm, requests>>
    BY <1>9 DEF EventFor, TimerExpires, TimerCallback, appVars
  <2>2. SchInv' /\ UnbornStay /\ MessagesKept /\ PeersWait
    BY <1>1, <1>9, EventKeeps, TickKeeps, WakeupKeeps, Zenon
  <2> QED
    BY <2>1, <2>2, <1>8
<1>10. ASSUME NEW c \in BOOLEAN, BusConnects(c)
       PROVE  SchInv' /\ AppRanges' /\ NotYetCreated' /\ MessagesKept /\ PeersWait
  <2>1. UNCHANGED <<order, boot, comm, requests>>
    BY <1>10 DEF BusConnects
  <2>2. SchInv' /\ UnbornStay /\ MessagesKept /\ PeersWait
    BY <1>1, <1>10, BusKeeps, Zenon
  <2> QED
    BY <2>1, <2>2, <1>8
<1>11. CASE InterruptsEnd
  <2>1. UNCHANGED <<order, boot, comm, requests>>
    BY <1>11 DEF InterruptsEnd
  <2>2. SchInv' /\ UnbornStay /\ MessagesKept /\ PeersWait
    BY <1>1, <1>11, EpilogueKeeps, Zenon
  <2> QED
    BY <2>1, <2>2, <1>8
<1>12. CASE UNCHANGED vars
  <2>1. UNCHANGED <<order, boot, comm, requests>>
    BY <1>12 DEF vars, appVars
  <2>2. UNCHANGED <<schVars, preempted>>
    BY <1>12, Zenon DEF vars, appVars
  <2>3. SchInv' /\ UnbornStay /\ MessagesKept /\ PeersWait
    BY <2>2, <1>1, StutterKeeps, Zenon
  <2> QED
    BY <2>1, <2>3, <1>8
<1> QED
  BY <1>5, <1>6, <1>7, <1>9, <1>10, <1>11, <1>12, ThreadCases, Zenon DEF Next

(* At the start main() has the CPU and the idle thread is in the list.     *)
LEMMA Initially == Init => IInv
<1> SUFFICES ASSUME Init
             PROVE  IInv
  OBVIOUS
<1>1. Bits
  BY Zenon DEF Init, SchInit, Bits
<1>2. ~panic /\ ~isr
  BY Zenon DEF Init, SchInit
<1>3. tstate = [t \in Threads |->
                   CASE t = Main -> "CURRENT" [] t = Idle -> "READY" [] OTHER -> "WTSTART"]
  BY Zenon DEF Init, SchInit
<1>4. Main # Idle
  BY ThreadsAssumption
<1>5. /\ current = Main /\ ready = <<Idle>> /\ armed = {} /\ firing = {} /\ preempted = {}
      /\ tstate \in [Threads -> {"CURRENT", "READY", "WTSTART"}]
      /\ \A t \in Threads : tstate[t] = IF t = Main THEN "CURRENT" ELSE IF t = Idle THEN "READY" ELSE "WTSTART"
      /\ rdymsg = [t \in Threads |-> "none"]
      /\ order \in BootOrders /\ boot = 0 /\ comm = "read" /\ requests = MaxRequests
  BY <1>3, <1>4 DEF Init, SchInit
<1>6. /\ Main \in Threads /\ Idle \in Threads /\ Main # Idle /\ Prio \in [Threads -> Nat]
      /\ Prio[Idle] < Prio[Main]
  BY ThreadsAssumption
<1>7. ReadyThreads = {Idle}
  BY <1>5, <1>6 DEF ReadyThreads
<1>8. Listed(ready, ReadyThreads)
  BY <1>5, <1>6, <1>7 DEF Listed, IsInjective, ToSet
<1>9. SchRanges
  BY <1>5, <1>6 DEF SchRanges, WaitStates
<1>10. ListsAgree /\ MostUrgentRuns /\ IdleNeverSleeps /\ TimersAgree /\ PreemptedFirst
  BY <1>5, <1>6, <1>7, <1>8
     DEF ListsAgree, MostUrgentRuns, IdleNeverSleeps, TimersAgree, PreemptedFirst
<1>11. SchInv
  BY <1>2, <1>9, <1>10 DEF SchInv
<1>12. AppRanges
  <2>1. order \in Seq(Threads \ {Main, Idle})
    BY <1>5, BootAssumption
  <2> QED
    BY <2>1, <1>5, BootAssumption DEF AppRanges
<1>13. NotYetCreated
  BY <1>5, <1>12, OrderFacts DEF NotYetCreated
<1> QED
  BY <1>1, <1>11, <1>12, <1>13 DEF IInv

(* The invariant holds in every state.                                     *)
THEOREM Inductive == Spec => []IInv
<1>1. Init => IInv
  BY Initially
<1>2. IInv /\ [Next]_vars => IInv'
  <2> SUFFICES ASSUME IInv, [Next]_vars
               PROVE  IInv'
    OBVIOUS
  <2>1. Bits'
    BY BitsStep DEF IInv
  <2>2. SchInv' /\ AppRanges' /\ NotYetCreated'
    BY Step
  <2> QED
    BY <2>1, <2>2 DEF IInv
<1> QED
  BY <1>1, <1>2, PTL DEF Spec

(***************************************************************************)
(* No assertion of the kernel fails, whatever the priorities of the        *)
(* threads and the order in which main() creates them: chSchReadyI never   *)
(* meets a ready thread, and no thread leaves a critical section while a   *)
(* more urgent one is ready.                                               *)
(***************************************************************************)
THEOREM KernelNeverPanics == Spec => []NoPanic
<1>1. IInv => NoPanic
  BY DEF IInv, SchInv, NoPanic
<1> QED
  BY <1>1, Inductive, PTL

(***************************************************************************)
(* The ready list holds every ready thread once and in the order of the    *)
(* priorities, one thread has the CPU, and no timer runs for it.           *)
(***************************************************************************)
THEOREM KernelIsConsistent == Spec => []KernelConsistent
<1>1. ASSUME IInv
      PROVE  KernelConsistent
  <2>1. connected \in BOOLEAN /\ isr \in BOOLEAN /\ panic \in BOOLEAN
    BY <1>1, Zenon DEF IInv, Bits
  <2>2. SchRanges /\ AppRanges /\ ListsAgree /\ TimersAgree
    BY <1>1 DEF IInv, SchInv
  <2>3. ready \in Seq(Threads) /\ IsInjective(ready) /\ ToSet(ready) = ReadyThreads
        /\ \A i, j \in DOMAIN ready : i < j => Prio[ready[i]] >= Prio[ready[j]]
    BY <2>2, Zenon DEF ListsAgree, Listed
  <2>4. {t \in Threads : tstate[t] = "CURRENT"} = {current}
    BY <2>2 DEF ListsAgree, SchRanges
  <2>5. ReadyListConsistent
    BY <2>3, <2>4, Zenon DEF ReadyListConsistent, ReadyThreads
  <2>6. TimersOfSleepers
    BY <2>2 DEF TimersOfSleepers, TimersAgree, SchRanges
  <2>7. TypeOK
    BY <2>1, <2>2, <2>3, Zenon DEF TypeOK, SchTypeOK, SchRanges, AppRanges
  <2> QED
    BY <2>5, <2>6, <2>7 DEF KernelConsistent
<1> QED
  BY <1>1, Inductive, PTL

(***************************************************************************)
(* The message with which a thread was made ready is the one it gets: a    *)
(* timer that expires late, or a hook of the channel, does not overwrite   *)
(* it.                                                                     *)
(***************************************************************************)
THEOREM MessagesStand == Spec => MessageStands
<1>1. IInv /\ [Next]_vars
        => [\A t \in Threads : tstate[t] = "READY" /\ tstate'[t] = "READY"
                                => rdymsg'[t] = rdymsg[t]]_vars
  BY Step, Zenon DEF MessagesKept
<1> QED
  BY <1>1, Inductive, PTL DEF Spec, MessageStands

(***************************************************************************)
(* Between the preemption of a thread and its return no thread of its      *)
(* priority runs, for any priorities.                                      *)
(***************************************************************************)
THEOREM PeersNeverOvertake == Spec => NoPeerInBetween
<1>1. IInv /\ [Next]_vars => PeersWait
  BY Step, Zenon
<1> QED
  BY <1>1, Inductive, PTL DEF Spec, NoPeerInBetween
=============================================================================
