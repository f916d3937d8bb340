--------------------------- MODULE NetstringProofs ---------------------------
(***************************************************************************)
(* What the operators of Netstring compute, for texts of every length: the *)
(* tokenizer, the numbers, the frame that the host sends and the fields    *)
(* that decodeMessage takes from it, the reply and the lines of the board. *)
(***************************************************************************)
EXTENDS Netstring, SequenceTheorems, WellFoundedInduction, TLAPS

-----------------------------------------------------------------------------
(* Induction and recursion on numbers.                                     *)

(* A set of numbers has a least one.                                       *)
LEMMA LeastNumber ==
  ASSUME NEW T \in SUBSET Nat, T # {}
  PROVE  \E n \in T : \A m \in T : n <= m
<1>1. PICK n \in T : \A m \in T : ~(<<m, n>> \in OpToRel(<, Nat))
  BY NatLessThanWellFounded, WFMin, Zenon
<1>2. \A m \in T : ~(m < n)
  BY <1>1 DEF OpToRel
<1> QED
  BY <1>2

(* A set that holds a number when it holds all smaller ones holds them all. *)
LEMMA Induction ==
  ASSUME NEW T, \A n \in Nat : (\A m \in 0..(n - 1) : m \in T) => n \in T
  PROVE  \A n \in Nat : n \in T
<1> DEFINE U == {n \in Nat : n \notin T}
<1> SUFFICES ASSUME U # {} PROVE FALSE
  OBVIOUS
<1>1. PICK n \in U : \A m \in U : n <= m
  BY LeastNumber
<1>2. \A m \in 0..(n - 1) : m \in T
  BY <1>1
<1> QED
  BY <1>1, <1>2

(* f is defined up to n by values at starting points, where prev[k] is k,  *)
(* and from the value at prev[k] elsewhere.                                *)
Recurs(f, n, S, prev, base, step) ==
  /\ f \in [0..n -> S]
  /\ \A k \in 0..n : f[k] = IF prev[k] = k THEN base[k] ELSE step[k][f[prev[k]]]

(* Two such functions agree as far as both go.                             *)
LEMMA RecursionUnique ==
  ASSUME NEW S, NEW prev \in [Nat -> Nat], NEW base, NEW step,
         \A k \in Nat : prev[k] <= k,
         NEW m \in Nat, NEW n \in Nat, NEW f, NEW g,
         Recurs(f, m, S, prev, base, step), Recurs(g, n, S, prev, base, step)
  PROVE  \A k \in Nat : k <= m /\ k <= n => f[k] = g[k]
<1> DEFINE T == {k \in Nat : k <= m /\ k <= n => f[k] = g[k]}
<1>1. ASSUME NEW k \in Nat, \A j \in 0..(k - 1) : j \in T
      PROVE  k \in T
  <2> SUFFICES ASSUME k <= m, k <= n PROVE f[k] = g[k]
    OBVIOUS
  <2>1. k \in 0..m /\ k \in 0..n
    OBVIOUS
  <2>2. /\ f[k] = IF prev[k] = k THEN base[k] ELSE step[k][f[prev[k]]]
        /\ g[k] = IF prev[k] = k THEN base[k] ELSE step[k][g[prev[k]]]
    BY <2>1, Zenon DEF Recurs
  <2>3. CASE prev[k] = k
    BY <2>2, <2>3
  <2>4. CASE prev[k] # k
    <3>1. prev[k] \in 0..(k - 1) /\ prev[k] <= m /\ prev[k] <= n
      BY <2>4
    <3>2. f[prev[k]] = g[prev[k]]
      BY <1>1, <3>1
    <3> QED
      BY <2>2, <2>4, <3>2
  <2> QED
    BY <2>3, <2>4
<1>2. \A k \in Nat : k \in T
  <2> HIDE DEF T
  <2> QED
    BY <1>1, Induction
<1> QED
  BY <1>2

(* There is such a function up to every number ...                         *)
LEMMA RecursionUpTo ==
  ASSUME NEW S, NEW prev \in [Nat -> Nat], NEW base \in [Nat -> S],
         NEW step \in [Nat -> [S -> S]], \A k \in Nat : prev[k] <= k
  PROVE  \A n \in Nat : \E f : Recurs(f, n, S, prev, base, step)
<1> DEFINE T == {n \in Nat : \E f : Recurs(f, n, S, prev, base, step)}
<1>1. ASSUME NEW n \in Nat, \A m \in 0..(n - 1) : m \in T
      PROVE  n \in T
  <2>1. CASE n = 0
    <3> DEFINE f == [k \in 0..0 |-> base[0]]
    <3>1. prev[0] = 0 /\ \A k \in 0..0 : k = 0
      OBVIOUS
    <3>2. f \in [0..0 -> S] /\ f[0] = base[0]
      OBVIOUS
    <3> HIDE DEF f
    <3>3. Recurs(f, 0, S, prev, base, step)
      BY <3>1, <3>2 DEF Recurs
    <3> QED
      BY <2>1, <3>3
  <2>2. CASE n # 0
    <3>1. n - 1 \in 0..(n - 1) /\ n - 1 \in Nat
      BY <2>2
    <3>0. prev[n] \in Nat /\ prev[n] <= n
      OBVIOUS
    <3>2. PICK g : Recurs(g, n - 1, S, prev, base, step)
      BY <1>1, <3>1
    <3> DEFINE e == IF prev[n] = n THEN base[n] ELSE step[n][g[prev[n]]]
               f == [k \in 0..n |-> IF k = n THEN e ELSE g[k]]
    <3>3. g \in [0..(n - 1) -> S]
      BY <3>2 DEF Recurs
    <3>4. e \in S
      <4>1. CASE prev[n] = n
        BY <4>1
      <4>2. CASE prev[n] # n
        <5>1. prev[n] \in 0..(n - 1)
          BY <3>0, <4>2
        <5>2. g[prev[n]] \in S
          BY <3>3, <5>1
        <5>3. step[n] \in [S -> S]
          OBVIOUS
        <5>4. step[n][g[prev[n]]] \in S
          BY <5>2, <5>3
        <5> QED
          BY <4>2, <5>4
      <4> QED
        BY <4>1, <4>2
    <3> HIDE DEF e
    <3>5. \A k \in 0..(n - 1) : f[k] = g[k]
      BY <2>2
    <3>6. f[n] = e
      OBVIOUS
    <3>7. f \in [0..n -> S]
      BY <3>3, <3>4
    <3> HIDE DEF f
    <3>8. ASSUME NEW k \in 0..n
          PROVE  f[k] = IF prev[k] = k THEN base[k] ELSE step[k][f[prev[k]]]
      <4>1. CASE k = n /\ prev[k] = k
        BY <3>6, <4>1 DEF e
      <4>2. CASE k = n /\ prev[k] # k
        <5>1. prev[n] \in 0..(n - 1)
          BY <3>0, <4>2
        <5>2. f[prev[n]] = g[prev[n]]
          BY <3>5, <5>1
        <5>3. e = step[n][g[prev[n]]]
          BY <4>2 DEF e
        <5> QED
          BY <3>6, <4>2, <5>2, <5>3
      <4>3. CASE k # n
        <5>1. k \in 0..(n - 1) /\ prev[k] \in 0..(n - 1)
          BY <4>3
        <5>2. g[k] = IF prev[k] = k THEN base[k] ELSE step[k][g[prev[k]]]
          BY <3>2, <5>1 DEF Recurs
        <5> QED
          BY <3>5, <5>1, <5>2
      <4> QED
        BY <4>1, <4>2, <4>3
    <3>9. Recurs(f, n, S, prev, base, step)
      BY <3>7, <3>8, Zenon DEF Recurs
    <3> QED
      BY <3>9
  <2> QED
    BY <2>1, <2>2
<1>2. \A n \in Nat : n \in T
  <2> HIDE DEF T
  <2> QED
    BY <1>1, Induction
<1> QED
  BY <1>2

Follows(h, prev, base, step) ==
  \A k \in Nat : h[k] = IF prev[k] = k THEN base[k] ELSE step[k][h[prev[k]]]

(* ... and so one on all numbers.                                          *)
LEMMA Recursion ==
  ASSUME NEW S, NEW prev \in [Nat -> Nat], NEW base \in [Nat -> S],
         NEW step \in [Nat -> [S -> S]], \A k \in Nat : prev[k] <= k
  PROVE  \E h \in [Nat -> S] : Follows(h, prev, base, step)
<1> DEFINE F(n) == CHOOSE f : Recurs(f, n, S, prev, base, step)
           h == [n \in Nat |-> F(n)[n]]
<1>1. ASSUME NEW n \in Nat PROVE Recurs(F(n), n, S, prev, base, step)
  <2>1. \E f : Recurs(f, n, S, prev, base, step)
    BY RecursionUpTo
  <2> QED
    BY <2>1, Zenon
<1>2. \A n \in Nat : h[n] = F(n)[n]
  OBVIOUS
<1> HIDE DEF F
<1>3. ASSUME NEW n \in Nat PROVE F(n)[n] \in S
  <2>1. F(n) \in [0..n -> S] /\ n \in 0..n
    BY <1>1 DEF Recurs
  <2> QED
    BY <2>1
<1>4. h \in [Nat -> S]
  BY <1>3
<1> HIDE DEF h
<1>5. ASSUME NEW k \in Nat
      PROVE  h[k] = IF prev[k] = k THEN base[k] ELSE step[k][h[prev[k]]]
  <2>1. k \in 0..k /\ prev[k] \in 0..k /\ prev[k] \in Nat /\ prev[k] <= k /\ prev[k] <= prev[k]
    OBVIOUS
  <2>2. F(k)[k] = IF prev[k] = k THEN base[k] ELSE step[k][F(k)[prev[k]]]
    BY <1>1, <2>1 DEF Recurs
  <2>3. F(k)[prev[k]] = F(prev[k])[prev[k]]
    <3>1. /\ Recurs(F(k), k, S, prev, base, step)
          /\ Recurs(F(prev[k]), prev[k], S, prev, base, step)
      BY <1>1, <2>1
    <3>2. \A j \in Nat : j <= k /\ j <= prev[k] => F(k)[j] = F(prev[k])[j]
      BY <2>1, <3>1, RecursionUnique
    <3> QED
      BY <2>1, <3>2
  <2> QED
    BY <1>2, <2>1, <2>2, <2>3
<1> QED
  BY <1>4, <1>5, Zenon DEF Follows

-----------------------------------------------------------------------------
(* Sequences, and the first cell of a sequence that passes a test.         *)

(* What a concatenation is made of.                                        *)
LEMMA Joined ==
  ASSUME NEW S, NEW s \in Seq(S), NEW t \in Seq(S)
  PROVE  /\ s \o t \in Seq(S) /\ Len(s \o t) = Len(s) + Len(t)
         /\ Len(s) \in Nat /\ Len(t) \in Nat
         /\ \A i \in 1..Len(s) : (s \o t)[i] = s[i]
         /\ \A i \in 1..Len(t) : (s \o t)[Len(s) + i] = t[i]
<1>1. Len(s) \in Nat /\ Len(t) \in Nat
  BY LenProperties
<1>2. /\ s \o t \in Seq(S) /\ Len(s \o t) = Len(s) + Len(t)
      /\ \A i \in 1..(Len(s) + Len(t)) :
           (s \o t)[i] = IF i <= Len(s) THEN s[i] ELSE t[i - Len(s)]
  BY ConcatProperties
<1>3. \A i \in 1..Len(s) : (s \o t)[i] = s[i]
  BY <1>1, <1>2
<1>4. ASSUME NEW i \in 1..Len(t) PROVE (s \o t)[Len(s) + i] = t[i]
  <2>1. Len(s) + i \in 1..(Len(s) + Len(t)) /\ ~(Len(s) + i <= Len(s)) /\ (Len(s) + i) - Len(s) = i
    BY <1>1
  <2> QED
    BY <1>2, <2>1
<1> QED
  BY <1>1, <1>2, <1>3, <1>4

(* One cell as a sequence.                                                 *)
LEMMA Single ==
  ASSUME NEW S, NEW c \in S
  PROVE  <<c>> \in Seq(S) /\ Len(<<c>>) = 1 /\ <<c>>[1] = c
OBVIOUS

(* One cell more at the end.                                               *)
LEMMA OneMore ==
  ASSUME NEW S, NEW s \in Seq(S), NEW c \in S
  PROVE  /\ s \o <<c>> \in Seq(S) /\ Len(s \o <<c>>) = Len(s) + 1 /\ Len(s) \in Nat
         /\ \A i \in 1..Len(s) : (s \o <<c>>)[i] = s[i]
         /\ (s \o <<c>>)[Len(s) + 1] = c
<1> DEFINE e == <<c>>
<1>1. e \in Seq(S) /\ Len(e) = 1 /\ e[1] = c
  BY Single
<1> HIDE DEF e
<1>2. /\ s \o e \in Seq(S) /\ Len(s \o e) = Len(s) + Len(e) /\ Len(s) \in Nat
      /\ \A i \in 1..Len(s) : (s \o e)[i] = s[i]
  BY <1>1, Joined, Zenon
<1>3. \A t \in Seq(S) : \A i \in 1..Len(t) : (s \o t)[Len(s) + i] = t[i]
  BY Joined
<1>4. (s \o e)[Len(s) + 1] = c
  <2>1. 1 \in 1..Len(e)
    BY <1>1
  <2>2. (s \o e)[Len(s) + 1] = e[1]
    BY <1>1, <1>3, <2>1, Zenon
  <2> QED
    BY <1>1, <2>2, Zenon
<1> QED
  BY <1>1, <1>2, <1>4, Zenon DEF e

(* A piece of a sequence.                                                  *)
LEMMA Piece ==
  ASSUME NEW S, NEW s \in Seq(S), NEW m \in Nat, NEW n \in m..Len(s)
  PROVE  /\ SubSeq(s, m + 1, n) \in Seq(S)
         /\ Len(SubSeq(s, m + 1, n)) = n - m
         /\ \A j \in 1..(n - m) : SubSeq(s, m + 1, n)[j] = s[m + j]
<1>1. Len(s) \in Nat /\ \A j \in 1..Len(s) : s[j] \in S
  BY LenProperties
<1>2. m + 1 \in Int /\ n \in Int /\ n - (m + 1) + 1 = n - m
  BY <1>1
<1>3. \A j \in (m + 1)..n : s[j] \in S
  BY <1>1
<1>4. /\ SubSeq(s, m + 1, n) \in Seq(S)
      /\ Len(SubSeq(s, m + 1, n)) = IF m + 1 <= n THEN n - (m + 1) + 1 ELSE 0
      /\ \A j \in 1..(n - (m + 1) + 1) : SubSeq(s, m + 1, n)[j] = s[(m + 1) + j - 1]
  BY <1>2, <1>3, SubSeqProperties
<1>5. Len(SubSeq(s, m + 1, n)) = n - m
  BY <1>1, <1>4
<1>6. ASSUME NEW j \in 1..(n - m) PROVE SubSeq(s, m + 1, n)[j] = s[m + j]
  <2>1. j \in 1..(n - (m + 1) + 1) /\ (m + 1) + j - 1 = m + j
    BY <1>1
  <2> QED
    BY <1>4, <2>1
<1> QED
  BY <1>4, <1>5, <1>6

(* The least element of a set of numbers.                                  *)
LEMMA MinFacts ==
  ASSUME NEW I \in SUBSET Nat, I # {}
  PROVE  Min(I) \in I /\ \A j \in I : Min(I) <= j
<1>1. \E n \in I : \A m \in I : n <= m
  BY LeastNumber
<1> QED
  BY <1>1, Zenon DEF Min

(* i is where the sequence has its first cell in K, 0 when there is none.  *)
FirstCell(i, s, K) ==
  /\ i \in 0..Len(s)
  /\ i = 0 => \A j \in 1..Len(s) : s[j] \notin K
  /\ i # 0 => s[i] \in K /\ \A j \in 1..(i - 1) : s[j] \notin K

(* There is only one such position.                                        *)
LEMMA FirstCellUnique ==
  ASSUME NEW s, Len(s) \in Nat, NEW K, NEW i, FirstCell(i, s, K), NEW k \in 1..Len(s),
         s[k] \in K, \A j \in 1..(k - 1) : s[j] \notin K
  PROVE  i = k
<1>1. i \in 0..Len(s) /\ i # 0
  BY DEF FirstCell
<1>2. s[i] \in K /\ \A j \in 1..(i - 1) : s[j] \notin K
  BY <1>1 DEF FirstCell
<1>3. ~(i < k)
  BY <1>1, <1>2
<1>4. ~(k < i)
  BY <1>1, <1>2
<1> QED
  BY <1>1, <1>3, <1>4

(* The least position of a cell in K.                                      *)
LEMMA FirstIsMin ==
  ASSUME NEW s, Len(s) \in Nat, NEW K
  PROVE  LET I == {i \in 1..Len(s) : s[i] \in K}
         IN  FirstCell(IF I # {} THEN Min(I) ELSE 0, s, K)
<1> DEFINE I == {i \in 1..Len(s) : s[i] \in K}
<1>1. CASE I = {}
  <2>1. \A j \in 1..Len(s) : s[j] \notin K
    BY <1>1
  <2> QED
    BY <1>1, <2>1 DEF FirstCell
<1>2. CASE I # {}
  <2>1. I \in SUBSET Nat
    OBVIOUS
  <2>2. Min(I) \in I /\ \A j \in I : Min(I) <= j
    BY <1>2, <2>1, MinFacts
  <2> DEFINE m == Min(I)
  <2>3. m \in 1..Len(s) /\ s[m] \in K /\ \A j \in I : m <= j
    BY <2>2
  <2> HIDE DEF m
  <2>4. \A j \in 1..(m - 1) : s[j] \notin K
    BY <2>3
  <2>5. FirstCell(m, s, K)
    BY <2>3, <2>4 DEF FirstCell
  <2> QED
    BY <1>2, <2>5 DEF m
<1> QED
  BY <1>1, <1>2

Digits == ToSet(Digit)

(* The three searches of the decoder: the first cell that is no delimiter, *)
(* the first that is one, the first that is no digit.                      *)
LEMMA Searches ==
  ASSUME NEW s \in Text, NEW d \in Cells
  PROVE  /\ FirstCell(SelectInSeq(s, LAMBDA c : c # d), s, Cells \ {d})
         /\ FirstCell(SelectInSeq(s, LAMBDA c : c = d), s, {d})
         /\ FirstCell(SelectInSeq(s, LAMBDA c : ~IsDigit(c)), s, Cells \ Digits)
<1>1. Len(s) \in Nat /\ \A i \in 1..Len(s) : s[i] \in Cells
  BY LenProperties DEF Text
<1>2. {i \in 1..Len(s) : s[i] # d} = {i \in 1..Len(s) : s[i] \in Cells \ {d}}
  BY <1>1
<1>3. {i \in 1..Len(s) : s[i] = d} = {i \in 1..Len(s) : s[i] \in {d}}
  OBVIOUS
<1>4. {i \in 1..Len(s) : ~IsDigit(s[i])} = {i \in 1..Len(s) : s[i] \in Cells \ Digits}
  BY <1>1 DEF IsDigit, Digits
<1>5. SelectInSeq(s, LAMBDA c : c # d) =
        LET I == {i \in 1..Len(s) : s[i] # d} IN IF I # {} THEN Min(I) ELSE 0
  BY DEF SelectInSeq
<1>6. SelectInSeq(s, LAMBDA c : c = d) =
        LET I == {i \in 1..Len(s) : s[i] = d} IN IF I # {} THEN Min(I) ELSE 0
  BY DEF SelectInSeq
<1>7. SelectInSeq(s, LAMBDA c : ~IsDigit(c)) =
        LET I == {i \in 1..Len(s) : ~IsDigit(s[i])} IN IF I # {} THEN Min(I) ELSE 0
  BY DEF SelectInSeq
<1>8. \A K : LET I == {i \in 1..Len(s) : s[i] \in K}
             IN  FirstCell(IF I # {} THEN Min(I) ELSE 0, s, K)
  BY <1>1, FirstIsMin, Zenon
<1>9. FirstCell(SelectInSeq(s, LAMBDA c : c # d), s, Cells \ {d})
  BY <1>2, <1>5, <1>8, Zenon
<1>10. FirstCell(SelectInSeq(s, LAMBDA c : c = d), s, {d})
  BY <1>3, <1>6, <1>8, Zenon
<1>11. FirstCell(SelectInSeq(s, LAMBDA c : ~IsDigit(c)), s, Cells \ Digits)
  BY <1>4, <1>7, <1>8, Zenon
<1> QED
  BY <1>9, <1>10, <1>11, Zenon
-----------------------------------------------------------------------------
(* Numbers.                                                                *)

(* Digits are cells, no delimiters, and each has its value.                *)
LEMMA DigitFacts ==
  /\ \A k \in 0..9 : Digit[k + 1] \in Digits /\ DigitValue(Digit[k + 1]) = k
  /\ \A c \in Digits : DigitValue(c) \in 0..9
  /\ Digits \subseteq Cells
  /\ \A c \in Digits : c \notin {NUL, ":", ";", "|", "-"}
<1>1. Len(Digit) = 10 /\ DOMAIN Digit = 1..10
  BY DEF Digit
<1>2. \A c \in Digits : \E k \in 0..9 : c = Digit[k + 1]
  <2> SUFFICES ASSUME NEW c \in Digits PROVE \E k \in 0..9 : c = Digit[k + 1]
    OBVIOUS
  <2>1. PICK i \in 1..10 : c = Digit[i]
    BY <1>1 DEF Digits, ToSet
  <2>2. i - 1 \in 0..9 /\ (i - 1) + 1 = i
    OBVIOUS
  <2> QED
    BY <2>1, <2>2
<1>3. ASSUME NEW k \in 0..9 PROVE Digit[k + 1] \in Digits
  <2>1. k + 1 \in 1..10
    OBVIOUS
  <2> QED
    BY <1>1, <2>1 DEF Digits, ToSet
<1>4. ASSUME NEW k \in 0..9 PROVE DigitValue(Digit[k + 1]) = k
  <2> DEFINE c == Digit[k + 1]
             i == SelectInSeq(Digit, LAMBDA d : d = c)
  <2>1. {j \in 1..Len(Digit) : Digit[j] = c} = {j \in 1..Len(Digit) : Digit[j] \in {c}}
    OBVIOUS
  <2>2. i = LET I == {j \in 1..Len(Digit) : Digit[j] = c} IN IF I # {} THEN Min(I) ELSE 0
    BY DEF SelectInSeq
  <2>3. \A K : LET I == {j \in 1..Len(Digit) : Digit[j] \in K}
               IN  FirstCell(IF I # {} THEN Min(I) ELSE 0, Digit, K)
    <3>1. Len(Digit) \in Nat
      BY <1>1
    <3> QED
      BY <3>1, FirstIsMin, Zenon
  <2> HIDE DEF c
  <2>4. FirstCell(i, Digit, {c})
    BY <2>1, <2>2, <2>3, Zenon
  <2> HIDE DEF i
  <2>5. i \in 0..10 /\ i # 0
    <3>1. k + 1 \in 1..Len(Digit) /\ Digit[k + 1] \in {c}
      BY <1>1 DEF c
    <3> QED
      BY <1>1, <2>4, <3>1 DEF FirstCell
  <2>6. Digit[i] = Digit[k + 1]
    BY <2>4, <2>5 DEF FirstCell, c
  <2>7. i = k + 1
    BY <2>5, <2>6 DEF Digit
  <2> QED
    BY <2>7 DEF DigitValue, i, c
<1>5. \A c \in Digits : DigitValue(c) \in 0..9
  BY <1>2, <1>4
<1>6. Digits \subseteq Cells
  BY CellsAssumption DEF Digits
<1>7. \A c \in Digits : c \notin {NUL, ":", ";", "|", "-"}
  <2>1. ASSUME NEW k \in 0..9
        PROVE  Digit[k + 1] \in {"0", "1", "2", "3", "4", "5", "6", "7", "8", "9"}
    BY DEF Digit
  <2>2. \A c \in {"0", "1", "2", "3", "4", "5", "6", "7", "8", "9"} :
          c \notin {NUL, ":", ";", "|", "-"}
    BY DEF NUL
  <2> QED
    BY <1>2, <2>1, <2>2
<1> QED
  BY <1>3, <1>4, <1>5, <1>6, <1>7

(* v[k] is the number that the first k digits of s stand for.              *)
Values(v, s) ==
  /\ v \in [0..Len(s) -> Nat]
  /\ v[0] = 0
  /\ \A k \in 1..Len(s) : v[k] = 10 * v[k - 1] + DigitValue(s[k])

(* The recursion in NumberOf has a solution.                               *)
LEMMA NumberDefined ==
  ASSUME NEW s \in Seq(Digits)
  PROVE  \E v : Values(v, s) /\ NumberOf(s) = v[Len(s)]
<1>1. Len(s) \in Nat /\ \A k \in 1..Len(s) : s[k] \in Digits
  BY LenProperties
<1>2. \A k \in 1..Len(s) : DigitValue(s[k]) \in 0..9
  BY <1>1, DigitFacts
<1> DEFINE N == Len(s)
           dv == [k \in Nat |-> IF k \in 1..N THEN DigitValue(s[k]) ELSE 0]
           prev == [k \in Nat |-> IF k = 0 THEN 0 ELSE k - 1]
           base == [k \in Nat |-> 0]
           step == [k \in Nat |-> [x \in Nat |-> 10 * x + dv[k]]]
           Step(f) == [k \in 0..N |-> IF k = 0 THEN 0 ELSE 10 * f[k - 1] + DigitValue(s[k])]
           v == CHOOSE f : f = Step(f)
<1>3. dv \in [Nat -> Nat]
  BY <1>2
<1>4. \A k \in 1..N : dv[k] = DigitValue(s[k])
  OBVIOUS
<1> HIDE DEF dv
<1>5. /\ prev \in [Nat -> Nat] /\ base \in [Nat -> Nat]
      /\ \A k \in Nat : prev[k] <= k
  OBVIOUS
<1>6. step \in [Nat -> [Nat -> Nat]]
  <2> SUFFICES ASSUME NEW k \in Nat PROVE [x \in Nat |-> 10 * x + dv[k]] \in [Nat -> Nat]
    OBVIOUS
  <2>1. dv[k] \in Nat
    BY <1>3
  <2> QED
    BY <2>1
<1>7. \A k \in Nat : \A x \in Nat : step[k][x] = 10 * x + dv[k]
  OBVIOUS
<1>8. /\ \A k \in Nat \ {0} : prev[k] = k - 1
      /\ prev[0] = 0 /\ base[0] = 0
  OBVIOUS
<1> HIDE DEF prev, base, step
<1>9. PICK h \in [Nat -> Nat] : Follows(h, prev, base, step)
  <2>1. prev \in [Nat -> Nat]
    BY <1>5
  <2>2. base \in [Nat -> Nat]
    BY <1>5
  <2>3. \A k \in Nat : prev[k] <= k
    BY <1>5
  <2> QED
    BY <1>6, <2>1, <2>2, <2>3, Recursion, Zenon
<1> DEFINE g == [k \in 0..N |-> h[k]]
<1>10. g[0] = 0
  BY <1>1, <1>8, <1>9 DEF Follows
<1>11. ASSUME NEW k \in 1..N PROVE g[k] = 10 * g[k - 1] + DigitValue(s[k])
  <2>1. k \in Nat \ {0} /\ k - 1 \in Nat /\ k - 1 # k /\ k \in 0..N /\ k - 1 \in 0..N
    BY <1>1
  <2>2. h[k] = step[k][h[k - 1]] /\ h[k - 1] \in Nat
    BY <2>1, <1>8, <1>9 DEF Follows
  <2>3. h[k] = 10 * h[k - 1] + dv[k]
    BY <2>1, <2>2, <1>7
  <2> QED
    BY <2>1, <2>3, <1>4
<1>12. g \in [0..N -> Nat]
  BY <1>1
<1> HIDE DEF g
<1>13. g = Step(g)
  <2>1. \A k \in 0..N : k = 0 \/ k \in 1..N
    BY <1>1
  <2>2. \A k \in 0..N : g[k] = IF k = 0 THEN 0 ELSE 10 * g[k - 1] + DigitValue(s[k])
    BY <2>1, <1>10, <1>11
  <2>3. g = [k \in 0..N |-> g[k]]
    BY <1>12
  <2> QED
    BY <2>2, <2>3
<1>14. v = Step(v)
  BY <1>13, Zenon
<1>15. NumberOf(s) = v[Len(s)]
  BY DEF NumberOf
<1> HIDE DEF v
<1>16. \A k \in 0..N : v[k] = IF k = 0 THEN 0 ELSE 10 * v[k - 1] + DigitValue(s[k])
  BY <1>14
<1>17. v = [k \in 0..N |-> v[k]]
  BY <1>14
<1> HIDE DEF Step
<1> DEFINE T == {k \in Nat : k <= N => v[k] \in Nat}
<1>18. \A k \in Nat : k \in T
  <2>1. ASSUME NEW k \in Nat, \A m \in 0..(k - 1) : m \in T PROVE k \in T
    <3> SUFFICES ASSUME k <= N PROVE v[k] \in Nat
      OBVIOUS
    <3>1. k \in 0..N
      BY <1>1
    <3>2. CASE k = 0
      BY <1>16, <3>1, <3>2
    <3>3. CASE k # 0
      <4>1. k - 1 \in 0..(k - 1) /\ k - 1 <= N /\ k \in 1..N
        BY <1>1, <3>3
      <4>2. v[k - 1] \in Nat
        BY <2>1, <4>1
      <4>3. dv[k] \in Nat
        BY <1>3
      <4>4. v[k] = 10 * v[k - 1] + dv[k]
        BY <1>4, <1>16, <3>1, <3>3, <4>1
      <4>5. \A x, y \in Nat : 10 * x + y \in Nat
        OBVIOUS
      <4> QED
        BY <4>2, <4>3, <4>4, <4>5, Zenon
    <3> QED
      BY <3>2, <3>3
  <2> HIDE DEF T
  <2> QED
    BY <2>1, Induction
<1>19. v \in [0..N -> Nat]
  BY <1>1, <1>17, <1>18
<1>20. Values(v, s)
  <2>1. 0 \in 0..N /\ \A k \in 1..N : k \in 0..N /\ k # 0
    BY <1>1
  <2> QED
    BY <1>16, <1>19, <2>1 DEF Values
<1> QED
  BY <1>15, <1>20
(* One more digit.                                                         *)
LEMMA NumberFacts ==
  /\ \A s \in Seq(Digits) : NumberOf(s) \in Nat
  /\ NumberOf(<< >>) = 0
  /\ \A s \in Seq(Digits) : \A c \in Digits :
       NumberOf(s \o <<c>>) = 10 * NumberOf(s) + DigitValue(c)
<1>1. ASSUME NEW s \in Seq(Digits) PROVE NumberOf(s) \in Nat
  <2>1. PICK v : Values(v, s) /\ NumberOf(s) = v[Len(s)]
    BY NumberDefined
  <2>2. Len(s) \in 0..Len(s)
    BY LenProperties
  <2> QED
    BY <2>1, <2>2 DEF Values
<1>2. NumberOf(<< >>) = 0
  <2>1. << >> \in Seq(Digits) /\ Len(<< >>) = 0
    BY EmptySeq
  <2>2. PICK v : Values(v, << >>) /\ NumberOf(<< >>) = v[Len(<< >>)]
    BY <2>1, NumberDefined
  <2> QED
    BY <2>1, <2>2, Zenon DEF Values
<1>3. ASSUME NEW s \in Seq(Digits), NEW c \in Digits
      PROVE  NumberOf(s \o <<c>>) = 10 * NumberOf(s) + DigitValue(c)
  <2> DEFINE t == s \o <<c>>
             N == Len(s)
  <2>1. <<c>> \in Seq(Digits) /\ Len(<<c>>) = 1 /\ <<c>>[1] = c
    BY Single
  <2>2. /\ t \in Seq(Digits) /\ Len(t) = N + 1 /\ N \in Nat
        /\ \A i \in 1..N : t[i] = s[i]
        /\ \A i \in 1..1 : t[N + i] = <<c>>[i]
    BY <2>1, Joined
  <2>3. t[N + 1] = c
    BY <2>1, <2>2
  <2> HIDE DEF t
  <2>4. PICK v : Values(v, s) /\ NumberOf(s) = v[N]
    BY NumberDefined
  <2>5. PICK w : Values(w, t) /\ NumberOf(t) = w[N + 1]
    BY <2>2, NumberDefined
  <2>6. v[0] = 0 /\ \A k \in 1..N : v[k] = 10 * v[k - 1] + DigitValue(s[k])
    BY <2>4, Zenon DEF Values
  <2>7. w[0] = 0 /\ \A k \in 1..(N + 1) : w[k] = 10 * w[k - 1] + DigitValue(t[k])
    BY <2>2, <2>5, Zenon DEF Values
  <2> HIDE DEF N
  <2> DEFINE T == {k \in Nat : k <= N => w[k] = v[k]}
  <2>8. \A k \in Nat : k \in T
    <3>1. ASSUME NEW k \in Nat, \A m \in 0..(k - 1) : m \in T PROVE k \in T
      <4> SUFFICES ASSUME k <= N PROVE w[k] = v[k]
        OBVIOUS
      <4>1. CASE k = 0
        BY <2>6, <2>7, <4>1
      <4>2. CASE k # 0
        <5>1. k - 1 \in 0..(k - 1) /\ k - 1 <= N /\ k \in 1..N /\ k \in 1..(N + 1)
          BY <2>2, <4>2
        <5>2. w[k - 1] = v[k - 1]
          BY <3>1, <5>1
        <5>3. t[k] = s[k]
          BY <2>2, <5>1
        <5> QED
          BY <2>6, <2>7, <5>1, <5>2, <5>3
      <4> QED
        BY <4>1, <4>2
    <3> HIDE DEF T
    <3> QED
      BY <3>1, Induction
  <2>9. w[N] = v[N]
    BY <2>2, <2>8
  <2>10. N + 1 \in 1..(N + 1) /\ (N + 1) - 1 = N
    BY <2>2
  <2>11. w[N + 1] = 10 * w[N] + DigitValue(c)
    BY <2>3, <2>7, <2>10
  <2> QED
    BY <2>4, <2>5, <2>9, <2>11 DEF t
<1> QED
  BY <1>1, <1>2, <1>3

(* Decimal is defined for every number and is made of digits.              *)
LEMMA DecimalEquation ==
  \A n \in Nat :
    /\ Decimal[n] \in Seq(Digits) /\ Decimal[n] # << >>
    /\ Decimal[n] = IF n < 10 THEN <<Digit[n + 1]>>
                    ELSE Decimal[n \div 10] \o <<Digit[(n % 10) + 1]>>
<1> DEFINE last == [k \in Nat |-> <<Digit[(k % 10) + 1]>>]
           prev == [k \in Nat |-> IF k < 10 THEN k ELSE k \div 10]
           step == [k \in Nat |-> [x \in Seq(Digits) |-> x \o last[k]]]
           Step(f) == [n \in Nat |-> IF n < 10 THEN <<Digit[n + 1]>>
                                     ELSE f[n \div 10] \o <<Digit[(n % 10) + 1]>>]
<1>1. \A k \in Nat : last[k] = <<Digit[(k % 10) + 1]>>
  OBVIOUS
<1>2. ASSUME NEW k \in Nat PROVE last[k] \in Seq(Digits) /\ Len(last[k]) = 1
  <2>1. k % 10 \in 0..9
    OBVIOUS
  <2>2. Digit[(k % 10) + 1] \in Digits
    BY <2>1, DigitFacts
  <2> QED
    BY <1>1, <2>2, Single, Zenon
<1>3. last \in [Nat -> Seq(Digits)]
  <2>1. last = [k \in Nat |-> last[k]]
    OBVIOUS
  <2> QED
    BY <1>2, <2>1, Zenon
<1>4. \A k \in Nat : k < 10 => last[k] = <<Digit[k + 1]>>
  <2>1. \A k \in Nat : k < 10 => k % 10 = k
    OBVIOUS
  <2> QED
    BY <1>1, <2>1
<1> HIDE DEF last
<1>5. step \in [Nat -> [Seq(Digits) -> Seq(Digits)]]
  <2> SUFFICES ASSUME NEW k \in Nat
               PROVE  [x \in Seq(Digits) |-> x \o last[k]] \in [Seq(Digits) -> Seq(Digits)]
    BY Zenon
  <2>1. ASSUME NEW x \in Seq(Digits) PROVE x \o last[k] \in Seq(Digits)
    BY <1>2, Joined
  <2> QED
    BY <2>1, Zenon
<1>6. \A k \in Nat : \A x \in Seq(Digits) : step[k][x] = x \o last[k]
  BY Zenon
<1>7. \A k \in Nat : k >= 10 => k \div 10 \in Nat /\ k \div 10 < k
  OBVIOUS
<1>8. prev \in [Nat -> Nat] /\ \A k \in Nat : prev[k] <= k
  BY <1>7
<1>9. \A k \in Nat : IF k < 10 THEN prev[k] = k ELSE prev[k] = k \div 10 /\ prev[k] # k
  BY <1>7
<1> HIDE DEF prev, step
<1>10. PICK h \in [Nat -> Seq(Digits)] : Follows(h, prev, last, step)
  <2>1. prev \in [Nat -> Nat]
    BY <1>8
  <2>2. \A k \in Nat : prev[k] <= k
    BY <1>8
  <2> QED
    BY <1>3, <1>5, <2>1, <2>2, Recursion, Zenon
<1>11. ASSUME NEW n \in Nat
       PROVE  h[n] = IF n < 10 THEN <<Digit[n + 1]>>
                     ELSE h[n \div 10] \o <<Digit[(n % 10) + 1]>>
  <2>1. h[n] = IF prev[n] = n THEN last[n] ELSE step[n][h[prev[n]]]
    BY <1>10, Zenon DEF Follows
  <2>2. CASE n < 10
    BY <2>1, <2>2, <1>4, <1>9
  <2>3. CASE ~(n < 10)
    <3>1. prev[n] = n \div 10 /\ prev[n] # n /\ n \div 10 \in Nat
      BY <2>3, <1>7, <1>9
    <3>2. h[n] = step[n][h[n \div 10]] /\ h[n \div 10] \in Seq(Digits)
      BY <2>1, <3>1
    <3>3. h[n] = h[n \div 10] \o last[n]
      BY <1>6, <3>2
    <3> QED
      BY <1>1, <2>3, <3>3
  <2> QED
    BY <2>2, <2>3
<1>12. h = Step(h)
  <2>1. h = [n \in Nat |-> h[n]]
    OBVIOUS
  <2> QED
    BY <1>11, <2>1, Zenon
<1>13. Decimal = CHOOSE f : f = Step(f)
  BY Zenon DEF Decimal
<1>14. Decimal = Step(Decimal)
  BY <1>12, <1>13, Zenon
<1>15. \A n \in Nat : Decimal[n] = IF n < 10 THEN <<Digit[n + 1]>>
                                   ELSE Decimal[n \div 10] \o <<Digit[(n % 10) + 1]>>
  BY <1>14, Zenon
<1> DEFINE T == {n \in Nat : Decimal[n] \in Seq(Digits) /\ Decimal[n] # << >>}
<1>16. \A n \in Nat : n \in T
  <2>1. ASSUME NEW n \in Nat, \A m \in 0..(n - 1) : m \in T PROVE n \in T
    <3>1. last[n] \in Seq(Digits) /\ Len(last[n]) = 1
      BY <1>2, Zenon
    <3>0. Len(<< >>) = 0 /\ 1 # 0
      BY EmptySeq
    <3>2. CASE n < 10
      <4>1. Decimal[n] = last[n]
        <5>1. last[n] = <<Digit[n + 1]>>
          BY <1>4, <3>2, Zenon
        <5>2. Decimal[n] = <<Digit[n + 1]>>
          BY <1>15, <3>2
        <5> QED
          BY <5>1, <5>2, Zenon
      <4>2. Decimal[n] \in Seq(Digits) /\ Decimal[n] # << >>
        BY <3>0, <3>1, <4>1, Zenon
      <4> QED
        BY <4>2
    <3>3. CASE ~(n < 10)
      <4>1. n \div 10 \in 0..(n - 1)
        BY <1>7, <3>3
      <4>2. Decimal[n \div 10] \in Seq(Digits)
        BY <2>1, <4>1
      <4>3. Decimal[n] = Decimal[n \div 10] \o last[n]
        BY <1>1, <1>15, <3>3
      <4>4. /\ Decimal[n] \in Seq(Digits)
            /\ Len(Decimal[n]) = Len(Decimal[n \div 10]) + Len(last[n])
            /\ Len(Decimal[n \div 10]) \in Nat
        <5> DEFINE a == Decimal[n \div 10]
                   b == last[n]
        <5>1. a \in Seq(Digits) /\ b \in Seq(Digits)
          BY <3>1, <4>2
        <5> HIDE DEF a, b
        <5>2. a \o b \in Seq(Digits) /\ Len(a \o b) = Len(a) + Len(b) /\ Len(a) \in Nat
          BY <5>1, Joined
        <5> QED
          BY <4>3, <5>2, Zenon DEF a, b
      <4>5. Len(Decimal[n]) # 0
        <5>1. \A k \in Nat : k + 1 # 0
          OBVIOUS
        <5> QED
          BY <3>1, <4>4, <5>1, Zenon
      <4>6. Decimal[n] # << >>
        BY <3>0, <4>5, Zenon
      <4> QED
        BY <4>4, <4>6
    <3> QED
      BY <3>2, <3>3
  <2> HIDE DEF T
  <2> QED
    BY <2>1, Induction
<1> QED
  BY <1>15, <1>16, Zenon

(* What %d prints, atoi reads back.                                        *)
LEMMA DecimalNumber == \A n \in Nat : NumberOf(Decimal[n]) = n
<1> DEFINE T == {n \in Nat : NumberOf(Decimal[n]) = n}
<1>1. ASSUME NEW n \in Nat, \A m \in 0..(n - 1) : m \in T PROVE n \in T
  <2>1. CASE n < 10
    <3>1. Decimal[n] = <<Digit[n + 1]>>
      BY <2>1, DecimalEquation
    <3>2. n \in 0..9
      BY <2>1
    <3>3. Digit[n + 1] \in Digits /\ DigitValue(Digit[n + 1]) = n
      BY <3>2, DigitFacts
    <3>4. << >> \in Seq(Digits) /\ << >> \o <<Digit[n + 1]>> = <<Digit[n + 1]>>
      BY <3>3, EmptySeq, Single, ConcatEmptySeq
    <3>5. NumberOf(<< >> \o <<Digit[n + 1]>>) = 10 * NumberOf(<< >>) + DigitValue(Digit[n + 1])
      BY <3>3, <3>4, NumberFacts
    <3>6. NumberOf(<< >>) = 0
      BY NumberFacts
    <3>7. NumberOf(Decimal[n]) = n
      BY <3>1, <3>3, <3>4, <3>5, <3>6
    <3> QED
      BY <3>7
  <2>2. CASE ~(n < 10)
    <3>1. n \div 10 \in 0..(n - 1) /\ n \div 10 \in Nat /\ n % 10 \in 0..9 /\ n = 10 * (n \div 10) + (n % 10)
      BY <2>2
    <3>2. Decimal[n] = Decimal[n \div 10] \o <<Digit[(n % 10) + 1]>>
      BY <2>2, DecimalEquation
    <3>3. Decimal[n \div 10] \in Seq(Digits)
      BY <3>1, DecimalEquation
    <3>4. Digit[(n % 10) + 1] \in Digits /\ DigitValue(Digit[(n % 10) + 1]) = n % 10
      BY <3>1, DigitFacts
    <3>5. NumberOf(Decimal[n \div 10]) = n \div 10
      BY <1>1, <3>1
    <3>6. NumberOf(Decimal[n]) = 10 * NumberOf(Decimal[n \div 10]) + DigitValue(Digit[(n % 10) + 1])
      BY <3>2, <3>3, <3>4, NumberFacts, Zenon
    <3>7. NumberOf(Decimal[n]) = n
      BY <3>1, <3>4, <3>5, <3>6
    <3> QED
      BY <3>7
  <2> QED
    BY <2>1, <2>2
<1>2. \A n \in Nat : n \in T
  <2> HIDE DEF T
  <2> QED
    BY <1>1, Induction
<1> QED
  BY <1>2
-----------------------------------------------------------------------------
(* The tokenizer.                                                          *)

(* The first a cells of s are delimiters and no more; the token after them *)
(* reaches up to position b.                                               *)
Splits(s, d, a, b) ==
  /\ a \in 0..Len(s) /\ b \in a..Len(s)
  /\ \A j \in 1..a : s[j] = d
  /\ a < Len(s) => s[a + 1] # d
  /\ \A j \in (a + 1)..b : s[j] # d
  /\ b < Len(s) => s[b + 1] = d

(* There is only one such pair.                                            *)
LEMMA SplitsUnique ==
  ASSUME NEW s, Len(s) \in Nat, NEW d, NEW a, NEW b, NEW e, NEW f,
         Splits(s, d, a, b), Splits(s, d, e, f)
  PROVE  a = e /\ b = f
<1>1. /\ a \in 0..Len(s) /\ b \in a..Len(s) /\ e \in 0..Len(s) /\ f \in e..Len(s)
  BY DEF Splits
<1>2. ~(a < e)
  BY <1>1 DEF Splits
<1>3. ~(e < a)
  BY <1>1 DEF Splits
<1>4. a = e
  BY <1>1, <1>2, <1>3
<1>5. ~(b < f)
  <2> SUFFICES ASSUME b < f PROVE FALSE
    OBVIOUS
  <2>1. s[b + 1] = d
    BY <1>1 DEF Splits
  <2>2. b + 1 \in (e + 1)..f
    BY <1>1, <1>4
  <2> QED
    BY <2>1, <2>2 DEF Splits
<1>6. ~(f < b)
  <2> SUFFICES ASSUME f < b PROVE FALSE
    OBVIOUS
  <2>1. s[f + 1] = d
    BY <1>1 DEF Splits
  <2>2. f + 1 \in (a + 1)..b
    BY <1>1, <1>4
  <2> QED
    BY <2>1, <2>2 DEF Splits
<1> QED
  BY <1>1, <1>4, <1>5, <1>6

(* A piece of the end of a sequence.                                       *)
LEMMA PieceOfEnd ==
  ASSUME NEW S, NEW s \in Seq(S), NEW a \in 0..Len(s),
         NEW m \in Nat, NEW n \in m..(Len(s) - a)
  PROVE  SubSeq(SubSeq(s, a + 1, Len(s)), m + 1, n) = SubSeq(s, (a + m) + 1, a + n)
<1> DEFINE t == SubSeq(s, a + 1, Len(s))
           u == SubSeq(t, m + 1, n)
           v == SubSeq(s, (a + m) + 1, a + n)
<1>1. Len(s) \in Nat /\ a \in Nat /\ Len(s) \in a..Len(s)
  BY LenProperties
<1>2. /\ t \in Seq(S) /\ Len(t) = Len(s) - a
      /\ \A j \in 1..(Len(s) - a) : t[j] = s[a + j]
  BY <1>1, Piece
<1> HIDE DEF t
<1>3. n \in m..Len(t)
  BY <1>2
<1>4. /\ u \in Seq(S) /\ Len(u) = n - m
      /\ \A j \in 1..(n - m) : u[j] = t[m + j]
  BY <1>2, <1>3, Piece
<1>5. a + m \in Nat /\ a + n \in (a + m)..Len(s) /\ (a + n) - (a + m) = n - m
  BY <1>1
<1>6. /\ v \in Seq(S) /\ Len(v) = (a + n) - (a + m)
      /\ \A j \in 1..((a + n) - (a + m)) : v[j] = s[(a + m) + j]
  BY <1>5, Piece
<1> HIDE DEF u, v
<1>7. ASSUME NEW j \in 1..Len(u) PROVE u[j] = v[j]
  <2>1. j \in 1..(n - m) /\ m + j \in 1..(Len(s) - a) /\ a + (m + j) = (a + m) + j
    BY <1>1, <1>4
  <2> QED
    BY <1>2, <1>4, <1>5, <1>6, <2>1
<1>8. u = v
  BY <1>4, <1>5, <1>6, <1>7, SeqEqual
<1> QED
  BY <1>8 DEF u, v, t

(* strtok_r cuts a text there.                                             *)
LEMMA StrtokSplits ==
  ASSUME NEW s \in Text, NEW d \in Cells
  PROVE  \E a, b : /\ Splits(s, d, a, b)
                   /\ StrtokToken[d][s] = SubSeq(s, a + 1, b)
                   /\ StrtokRest[d][s] = SubSeq(s, b + 2, Len(s))
<1> DEFINE first == SelectInSeq(s, LAMBDA c : c # d)
           t == SkipDelimiters(s, d)
           end == SelectInSeq(t, LAMBDA c : c = d)
<1>1. /\ StrtokToken[d][s] = IF end = 0 THEN t ELSE SubSeq(t, 1, end - 1)
      /\ StrtokRest[d][s] = IF end = 0 THEN NULL ELSE SubSeq(t, end + 1, Len(t))
  BY DEF StrtokToken, StrtokRest
<1>2. t = IF first = 0 THEN NULL ELSE SubSeq(s, first, Len(s))
  BY DEF SkipDelimiters
<1>3. FirstCell(first, s, Cells \ {d})
  BY Searches
<1>4. t \in Text => FirstCell(end, t, {d})
  BY Searches
<1> HIDE DEF first, t, end
<1>5. Len(s) \in Nat /\ first \in 0..Len(s) /\ \A j \in 1..Len(s) : s[j] \in Cells
  BY <1>3, LenProperties DEF FirstCell, Text
<1>6. CASE first = 0
  <2>1. t = << >> /\ << >> \in Text /\ Len(<< >>) = 0
    BY <1>2, <1>6, EmptySeq DEF NULL, Text
  <2>2. end = 0
    BY <1>4, <2>1 DEF FirstCell
  <2>3. StrtokToken[d][s] = << >> /\ StrtokRest[d][s] = << >>
    BY <1>1, <2>1, <2>2 DEF NULL
  <2>4. \A j \in 1..Len(s) : s[j] = d
    BY <1>3, <1>5, <1>6 DEF FirstCell
  <2>5. Splits(s, d, Len(s), Len(s))
    BY <1>5, <2>4 DEF Splits
  <2>6. SubSeq(s, Len(s) + 1, Len(s)) = << >> /\ SubSeq(s, Len(s) + 2, Len(s)) = << >>
    BY <1>5, SubSeqEmpty
  <2> QED
    BY <2>3, <2>5, <2>6, Zenon
<1>7. CASE first # 0
  <2> DEFINE a == first - 1
  <2>1. /\ a \in 0..Len(s) /\ a \in Nat /\ a + 1 = first /\ a < Len(s) /\ Len(s) \in a..Len(s)
    BY <1>5, <1>7
  <2> HIDE DEF a
  <2>2. s[a + 1] # d /\ \A j \in 1..a : s[j] = d
    <3>1. s[first] \in Cells \ {d} /\ \A j \in 1..(first - 1) : s[j] \notin Cells \ {d}
      BY <1>3, <1>7 DEF FirstCell
    <3>2. first - 1 = a
      BY <1>5, <2>1
    <3> QED
      BY <1>5, <2>1, <3>1, <3>2
  <2>3. t = SubSeq(s, a + 1, Len(s))
    BY <1>2, <1>7, <2>1
  <2>4. /\ t \in Text /\ Len(t) = Len(s) - a
        /\ \A j \in 1..(Len(s) - a) : t[j] = s[a + j]
    BY <2>1, <2>3, Piece DEF Text
  <2>5. FirstCell(end, t, {d})
    BY <1>4, <2>4
  <2>6. end \in 0..(Len(s) - a)
    BY <2>4, <2>5 DEF FirstCell
  <2>7. CASE end = 0
    <3>1. \A j \in 1..(Len(s) - a) : t[j] # d
      BY <2>4, <2>5, <2>7 DEF FirstCell
    <3>2. ASSUME NEW j \in (a + 1)..Len(s) PROVE s[j] # d
      <4>1. j - a \in 1..(Len(s) - a) /\ a + (j - a) = j
        BY <1>5, <2>1
      <4> QED
        BY <2>4, <3>1, <4>1
    <3>3. Splits(s, d, a, Len(s))
      BY <1>5, <2>1, <2>2, <3>2 DEF Splits
    <3>4. SubSeq(s, Len(s) + 2, Len(s)) = << >>
      BY <1>5, SubSeqEmpty
    <3>5. StrtokToken[d][s] = SubSeq(s, a + 1, Len(s)) /\ StrtokRest[d][s] = << >>
      BY <1>1, <2>3, <2>7 DEF NULL
    <3> QED
      BY <3>3, <3>4, <3>5, Zenon
  <2>8. CASE end # 0
    <3> DEFINE b == a + (end - 1)
    <3>1. t[end] = d /\ \A j \in 1..(end - 1) : t[j] # d
      BY <2>5, <2>8 DEF FirstCell
    <3>2. /\ b \in a..Len(s) /\ b < Len(s) /\ b + 1 = a + end /\ end \in 1..(Len(s) - a)
      BY <1>5, <2>1, <2>6, <2>8
    <3>3. s[b + 1] = d
      BY <2>4, <3>1, <3>2
    <3>4. ASSUME NEW j \in (a + 1)..b PROVE s[j] # d
      <4>1. j - a \in 1..(end - 1) /\ j - a \in 1..(Len(s) - a) /\ a + (j - a) = j
        BY <1>5, <2>1, <2>6, <3>2
      <4> QED
        BY <2>4, <3>1, <4>1
    <3> HIDE DEF b
    <3>5. Splits(s, d, a, b)
      BY <2>1, <2>2, <3>2, <3>3, <3>4 DEF Splits
    <3>6. SubSeq(t, 0 + 1, end - 1) = SubSeq(s, (a + 0) + 1, a + (end - 1))
      <4>1. 0 \in Nat /\ end - 1 \in 0..(Len(s) - a)
        BY <1>5, <2>1, <3>2
      <4> QED
        BY <2>1, <2>3, <4>1, PieceOfEnd DEF Text
    <3>7. SubSeq(t, end + 1, Len(s) - a) = SubSeq(s, (a + end) + 1, a + (Len(s) - a))
      <4>1. end \in Nat /\ Len(s) - a \in end..(Len(s) - a)
        BY <1>5, <2>1, <3>2
      <4> QED
        BY <2>1, <2>3, <4>1, PieceOfEnd DEF Text
    <3>8. /\ 0 + 1 = 1 /\ (a + 0) + 1 = a + 1 /\ a + (end - 1) = b
          /\ (a + end) + 1 = b + 2 /\ a + (Len(s) - a) = Len(s)
      BY <1>5, <2>1, <3>2 DEF b
    <3>9. StrtokToken[d][s] = SubSeq(t, 1, end - 1) /\ StrtokRest[d][s] = SubSeq(t, end + 1, Len(s) - a)
      BY <1>1, <2>4, <2>8
    <3>10. StrtokToken[d][s] = SubSeq(s, a + 1, b)
      BY <3>6, <3>8, <3>9
    <3>11. StrtokRest[d][s] = SubSeq(s, b + 2, Len(s))
      BY <3>7, <3>8, <3>9
    <3> QED
      BY <3>5, <3>10, <3>11, Zenon
  <2> QED
    BY <2>7, <2>8
<1> QED
  BY <1>6, <1>7

(* So whoever knows where knows the token and the rest.                    *)
LEMMA StrtokAt ==
  ASSUME NEW s \in Text, NEW d \in Cells, NEW a, NEW b, Splits(s, d, a, b)
  PROVE  /\ StrtokToken[d][s] = SubSeq(s, a + 1, b)
         /\ StrtokRest[d][s] = SubSeq(s, b + 2, Len(s))
<1>1. PICK e, f : /\ Splits(s, d, e, f)
                  /\ StrtokToken[d][s] = SubSeq(s, e + 1, f)
                  /\ StrtokRest[d][s] = SubSeq(s, f + 2, Len(s))
  BY StrtokSplits, Zenon
<1>2. Len(s) \in Nat
  BY LenProperties DEF Text
<1>3. a = e /\ b = f
  BY <1>1, <1>2, SplitsUnique, Zenon
<1> QED
  BY <1>1, <1>3

(* Tokens and rests are texts; of nothing there is neither.                *)
LEMMA StrtokType ==
  /\ \A d \in Cells : \A s \in Text : StrtokToken[d][s] \in Text /\ StrtokRest[d][s] \in Text
  /\ \A d \in Cells : StrtokToken[d][<< >>] = << >> /\ StrtokRest[d][<< >>] = << >>
<1>1. ASSUME NEW d \in Cells, NEW s \in Text
      PROVE  StrtokToken[d][s] \in Text /\ StrtokRest[d][s] \in Text
  <2>1. PICK a, b : /\ Splits(s, d, a, b)
                    /\ StrtokToken[d][s] = SubSeq(s, a + 1, b)
                    /\ StrtokRest[d][s] = SubSeq(s, b + 2, Len(s))
    BY StrtokSplits, Zenon
  <2>2. a \in 0..Len(s) /\ b \in a..Len(s) /\ Len(s) \in Nat /\ a \in Nat
    BY <2>1, LenProperties DEF Splits, Text
  <2>3. SubSeq(s, a + 1, b) \in Text
    BY <2>2, Piece DEF Text
  <2>4. CASE b = Len(s)
    <3>1. SubSeq(s, b + 2, Len(s)) = << >>
      BY <2>2, <2>4, SubSeqEmpty
    <3> QED
      BY <2>1, <2>3, <3>1, EmptySeq DEF Text
  <2>5. CASE b # Len(s)
    <3>1. b + 1 \in Nat /\ Len(s) \in (b + 1)..Len(s) /\ (b + 1) + 1 = b + 2
      BY <2>2, <2>5
    <3>2. SubSeq(s, (b + 1) + 1, Len(s)) \in Text
      BY <3>1, Piece DEF Text
    <3> QED
      BY <2>1, <2>3, <3>1, <3>2
  <2> QED
    BY <2>4, <2>5
<1>2. ASSUME NEW d \in Cells
      PROVE  StrtokToken[d][<< >>] = << >> /\ StrtokRest[d][<< >>] = << >>
  <2> DEFINE e == << >>
  <2>1. e \in Text /\ Len(e) = 0
    BY EmptySeq DEF Text
  <2>2. SubSeq(e, 0 + 1, 0) = << >> /\ SubSeq(e, 0 + 2, 0) = << >>
    BY SubSeqEmpty
  <2> HIDE DEF e
  <2>3. Splits(e, d, 0, 0)
    BY <2>1 DEF Splits
  <2>4. /\ StrtokToken[d][e] = SubSeq(e, 0 + 1, 0)
        /\ StrtokRest[d][e] = SubSeq(e, 0 + 2, Len(e))
    BY <2>1, <2>3, StrtokAt, Zenon
  <2> QED
    BY <2>1, <2>2, <2>4, Zenon DEF e
<1> QED
  BY <1>1, <1>2
-----------------------------------------------------------------------------
(* What decodeMessage finds in a text.                                     *)

(* The digits that a text begins with.                                     *)
LEMMA LeadingDigits ==
  ASSUME NEW s \in Text
  PROVE  LET stop   == SelectInSeq(s, LAMBDA c : ~IsDigit(c))
             digits == IF stop = 0 THEN s ELSE SubSeq(s, 1, stop - 1)
         IN  /\ digits \in Seq(Digits)
             /\ s \in Seq(Digits) => digits = s
<1> DEFINE stop   == SelectInSeq(s, LAMBDA c : ~IsDigit(c))
           digits == IF stop = 0 THEN s ELSE SubSeq(s, 1, stop - 1)
<1> SUFFICES digits \in Seq(Digits) /\ (s \in Seq(Digits) => digits = s)
  OBVIOUS
<1>1. FirstCell(stop, s, Cells \ Digits)
  <2>1. ":" \in Cells
    BY CellsAssumption
  <2> QED
    BY <2>1, Searches
<1> HIDE DEF stop
<1>2. Len(s) \in Nat /\ stop \in 0..Len(s) /\ s \in [1..Len(s) -> Cells]
  BY <1>1, LenProperties DEF FirstCell, Text
<1>3. CASE stop = 0
  <2>1. \A j \in 1..Len(s) : s[j] \in Digits
    BY <1>1, <1>2, <1>3 DEF FirstCell
  <2>2. s \in Seq(Digits)
    BY <1>2, <2>1
  <2> QED
    BY <1>3, <2>2
<1>4. CASE stop # 0
  <2>1. s[stop] \notin Digits /\ \A j \in 1..(stop - 1) : s[j] \in Digits
    BY <1>1, <1>2, <1>4 DEF FirstCell
  <2>2. SubSeq(s, 1, stop - 1) \in Seq(Digits)
    BY <1>2, <1>4, <2>1, SubSeqProperties
  <2>3. s \notin Seq(Digits)
    <3>1. SUFFICES ASSUME s \in Seq(Digits) PROVE FALSE
      OBVIOUS
    <3>2. stop \in 1..Len(s)
      BY <1>2, <1>4
    <3> QED
      BY <2>1, <3>1, <3>2, ElementOfSeq
  <2> QED
    BY <1>4, <2>2, <2>3
<1> QED
  BY <1>3, <1>4

(* atoi gives a number for every text, and the right one for a number.     *)
LEMMA AtoiFacts ==
  /\ \A s \in Text : Atoi[s] \in Int
  /\ \A s \in Seq(Digits) : s # << >> => Atoi[s] = NumberOf(s)
  /\ \A s \in Seq(Digits) : <<"-">> \o s \in Text => Atoi[<<"-">> \o s] = -NumberOf(s)
<1> DEFINE Body(s)   == IF s # NULL /\ s[1] = "-" THEN Tail(s) ELSE s
           Stop(s)   == SelectInSeq(s, LAMBDA c : ~IsDigit(c))
           Lead(s)   == IF Stop(s) = 0 THEN s ELSE SubSeq(s, 1, Stop(s) - 1)
<1>1. \A s \in Text : Atoi[s] = IF s # NULL /\ s[1] = "-" THEN -NumberOf(Lead(Body(s)))
                                ELSE NumberOf(Lead(Body(s)))
  BY DEF Atoi
<1>2. ASSUME NEW s \in Text
      PROVE  Lead(s) \in Seq(Digits) /\ (s \in Seq(Digits) => Lead(s) = s)
  BY LeadingDigits
<1> HIDE DEF Lead
<1>3. ASSUME NEW s \in Text PROVE Atoi[s] \in Int
  <2>1. Body(s) \in Text
    BY HeadTailProperties DEF Text, NULL
  <2> HIDE DEF Body
  <2>2. NumberOf(Lead(Body(s))) \in Nat
    BY <1>2, <2>1, NumberFacts
  <2> DEFINE n == NumberOf(Lead(Body(s)))
  <2>3. n \in Int /\ -n \in Int
    BY <2>2
  <2>4. Atoi[s] = n \/ Atoi[s] = -n
    BY <1>1
  <2> QED
    BY <2>3, <2>4, Zenon
<1>4. ASSUME NEW s \in Seq(Digits), s # << >> PROVE Atoi[s] = NumberOf(s)
  <2>1. s \in Text
    BY DigitFacts, SeqMonotonic DEF Text
  <2>2. s[1] \in Digits
    BY <1>4, EmptySeq, ElementOfSeq
  <2>3. s[1] # "-"
    BY <2>2, DigitFacts
  <2>4. Body(s) = s
    BY <2>3
  <2>5. Lead(s) = s
    BY <1>2, <2>1
  <2> QED
    BY <1>1, <2>1, <2>3, <2>4, <2>5
<1>5. ASSUME NEW s \in Seq(Digits), <<"-">> \o s \in Text
      PROVE  Atoi[<<"-">> \o s] = -NumberOf(s)
  <2> DEFINE t == <<"-">> \o s
             S == Cells \union {"-"}
  <2>1. s \in Text
    BY DigitFacts, SeqMonotonic DEF Text
  <2>2. s \in Seq(S) /\ <<"-">> \in Seq(S) /\ Len(<<"-">>) = 1 /\ <<"-">>[1] = "-"
    <3>1. "-" \in S /\ Cells \subseteq S
      OBVIOUS
    <3> QED
      BY <2>1, <3>1, SeqMonotonic, Single DEF Text
  <2> HIDE DEF S
  <2>3. /\ t \in Seq(S) /\ Len(t) = 1 + Len(s) /\ Len(s) \in Nat
        /\ \A i \in 1..1 : t[i] = <<"-">>[i]
        /\ \A i \in 1..Len(s) : t[1 + i] = s[i]
    BY <2>2, Joined
  <2> HIDE DEF t
  <2>4. t # << >> /\ t[1] = "-"
    BY <2>2, <2>3, EmptySeq
  <2>5. Tail(t) = s
    <3>1. Tail(t) \in Seq(S) /\ Len(Tail(t)) = Len(s) /\ \A i \in 1..Len(Tail(t)) : Tail(t)[i] = t[i + 1]
      BY <2>3, <2>4, HeadTailProperties
    <3>2. \A i \in 1..Len(Tail(t)) : Tail(t)[i] = s[i]
      BY <2>3, <3>1
    <3> QED
      BY <2>2, <3>1, <3>2, SeqEqual
  <2>6. t # NULL
    BY <2>4 DEF NULL
  <2>7. Body(t) = s
    BY <2>4, <2>5, <2>6
  <2>8. Lead(s) = s
    BY <1>2, <2>1
  <2>9. t \in Text
    BY <1>5 DEF t
  <2>10. Atoi[t] = -NumberOf(s)
    BY <1>1, <2>4, <2>6, <2>7, <2>8, <2>9
  <2> QED
    BY <2>10 DEF t
<1> QED
  BY <1>3, <1>4, <1>5

(* Where things are in a text with two delimiters.                         *)
LEMMA DelimitedFacts ==
  ASSUME NEW S, NEW D \in Seq(S), NEW c \in S, NEW r \in Seq(S), NEW d \in S
  PROVE  LET F == ((D \o <<c>>) \o r) \o <<d>>
         IN  /\ F \in Seq(S) /\ Len(D) \in Nat /\ Len(r) \in Nat
             /\ Len(F) = Len(D) + Len(r) + 2
             /\ \A j \in 1..Len(D) : F[j] = D[j]
             /\ F[Len(D) + 1] = c
             /\ \A j \in 1..Len(r) : F[Len(D) + 1 + j] = r[j]
             /\ F[Len(D) + Len(r) + 2] = d
<1> DEFINE L == Len(D)
           A == D \o <<c>>
           B == A \o r
           F == B \o <<d>>
<1>1. Len(r) \in Nat /\ L \in Nat
  BY LenProperties
<1>2. /\ A \in Seq(S) /\ Len(A) = L + 1
      /\ \A i \in 1..L : A[i] = D[i]
      /\ A[L + 1] = c
  BY OneMore
<1> HIDE DEF A
<1>3. /\ B \in Seq(S) /\ Len(B) = Len(A) + Len(r)
      /\ \A i \in 1..Len(A) : B[i] = A[i]
      /\ \A i \in 1..Len(r) : B[Len(A) + i] = r[i]
  <2>1. /\ B \in Seq(S) /\ Len(B) = Len(A) + Len(r)
        /\ \A i \in 1..Len(A) : B[i] = A[i]
    BY <1>2, Joined, Zenon
  <2>2. \A i \in 1..Len(r) : B[Len(A) + i] = r[i]
    BY <1>2, Joined
  <2> QED
    BY <2>1, <2>2
<1> HIDE DEF B
<1>4. /\ F \in Seq(S) /\ Len(F) = Len(B) + 1
      /\ \A i \in 1..Len(B) : F[i] = B[i]
      /\ F[Len(B) + 1] = d
  BY <1>3, OneMore
<1> HIDE DEF F, L
<1>5. Len(B) = L + 1 + Len(r) /\ Len(B) + 1 = L + Len(r) + 2
  BY <1>1, <1>2, <1>3
<1>6. Len(F) = L + Len(r) + 2 /\ F[L + Len(r) + 2] = d
  BY <1>4, <1>5
<1>7. ASSUME NEW j \in 1..L PROVE F[j] = D[j]
  <2>1. j \in 1..Len(A) /\ j \in 1..Len(B)
    BY <1>1, <1>2, <1>5
  <2> QED
    BY <1>2, <1>3, <1>4, <2>1
<1>8. F[L + 1] = c
  <2>1. L + 1 \in 1..Len(A) /\ L + 1 \in 1..Len(B)
    BY <1>1, <1>2, <1>5
  <2> QED
    BY <1>2, <1>3, <1>4, <2>1
<1>9. ASSUME NEW j \in 1..Len(r) PROVE F[L + 1 + j] = r[j]
  <2>1. L + 1 + j \in 1..Len(B) /\ L + 1 + j = Len(A) + j
    BY <1>1, <1>2, <1>5
  <2> QED
    BY <1>3, <1>4, <2>1
<1> QED
  BY <1>1, <1>4, <1>6, <1>7, <1>8, <1>9 DEF F, B, A, L

(* Where things are in a frame.                                            *)
LEMMA FrameFacts ==
  ASSUME NEW r \in Text
  PROVE  LET F == Frame(r)
             L == Len(Decimal[Len(r)])
         IN  /\ F \in Text /\ L \in Nat \ {0} /\ Len(r) \in Nat
             /\ Decimal[Len(r)] \in Seq(Digits)
             /\ Len(F) = L + Len(r) + 2
             /\ \A j \in 1..L : F[j] = Decimal[Len(r)][j] /\ F[j] \in Digits
             /\ F[L + 1] = ":"
             /\ \A j \in 1..Len(r) : F[L + 1 + j] = r[j]
             /\ F[L + Len(r) + 2] = ";"
<1> DEFINE D == Decimal[Len(r)]
           L == Len(D)
           F == Frame(r)
<1>1. Len(r) \in Nat /\ r \in Seq(Cells)
  BY LenProperties DEF Text
<1>2. D \in Seq(Digits) /\ D # << >>
  BY <1>1, DecimalEquation
<1>3. D \in Seq(Cells) /\ L \in Nat \ {0} /\ \A j \in 1..L : D[j] \in Digits
  BY <1>2, DigitFacts, SeqMonotonic, EmptySeq, ElementOfSeq
<1>4. ":" \in Cells /\ ";" \in Cells
  BY CellsAssumption
<1>5. F = ((D \o <<":">>) \o r) \o <<";">>
  BY DEF Frame
<1> HIDE DEF D, F
<1>6. /\ F \in Seq(Cells) /\ Len(F) = L + Len(r) + 2
      /\ \A j \in 1..L : F[j] = D[j]
      /\ F[L + 1] = ":"
      /\ \A j \in 1..Len(r) : F[L + 1 + j] = r[j]
      /\ F[L + Len(r) + 2] = ";"
  <2> DEFINE c == ":"
             d == ";"
             G == ((D \o <<c>>) \o r) \o <<d>>
  <2>1. c \in Cells /\ d \in Cells /\ F = G
    BY <1>4, <1>5
  <2> HIDE DEF c, d
  <2>2. /\ G \in Seq(Cells) /\ Len(G) = L + Len(r) + 2
        /\ \A j \in 1..L : G[j] = D[j]
        /\ G[L + 1] = c
    BY <1>1, <1>3, <2>1, DelimitedFacts
  <2>3. \A j \in 1..Len(r) : G[L + 1 + j] = r[j]
    BY <1>1, <1>3, <2>1, DelimitedFacts
  <2>4. G[L + Len(r) + 2] = d
    BY <1>1, <1>3, <2>1, DelimitedFacts
  <2> HIDE DEF G
  <2> QED
    BY <2>1, <2>2, <2>3, <2>4 DEF c, d
<1>7. \A j \in 1..L : F[j] = D[j] /\ F[j] \in Digits
  BY <1>3, <1>6
<1>8. F \in Text
  BY <1>6 DEF Text
<1> QED
  BY <1>1, <1>2, <1>3, <1>6, <1>7, <1>8, Zenon DEF D, F
(* The fields of a text.                                                   *)
LEMMA FieldTypes ==
  \A x \in Text :
    /\ LengthField(x) \in Int /\ MessageField(x) \in Text
    /\ Command(x) \in Text /\ Sensor(x) \in Text /\ Value(x) \in Text
<1>1. ":" \in Cells /\ ";" \in Cells /\ "|" \in Cells
  BY CellsAssumption
<1>2. \A d \in Cells : \A s \in Text : StrtokToken[d][s] \in Text /\ StrtokRest[d][s] \in Text
  BY StrtokType, Zenon
<1> SUFFICES ASSUME NEW x \in Text
             PROVE  /\ LengthField(x) \in Int /\ MessageField(x) \in Text
                    /\ Command(x) \in Text /\ Sensor(x) \in Text /\ Value(x) \in Text
  OBVIOUS
<1>3. LengthField(x) \in Int
  BY <1>1, <1>2, AtoiFacts DEF LengthField
<1>4. MessageField(x) \in Text
  BY <1>1, <1>2, Zenon DEF MessageField
<1>5. Command(x) \in Text /\ Sensor(x) \in Text /\ Value(x) \in Text
  BY <1>1, <1>2, Zenon DEF Command, Sensor, Value
<1> QED
  BY <1>3, <1>4, <1>5

(* The payloads that a host can frame: no end mark inside, and not empty.  *)
Plain(r) == r # << >> /\ \A j \in 1..Len(r) : r[j] # ";"

(* r stands in x behind position c.                                        *)
StandsIn(r, x, c) == \A j \in 1..Len(r) : x[c + j] = r[j]

(* r is what stands in x between the first delimiter e, at position c, and *)
(* the next d.                                                             *)
Encloses(x, r, e, d, a, c) ==
  /\ r # << >> /\ \A j \in 1..Len(r) : r[j] # d
  /\ c \in 1..Len(x) /\ Splits(x, e, a, c - 1)
  /\ c + Len(r) + 1 <= Len(x)
  /\ StandsIn(r, x, c) /\ x[c + Len(r) + 1] = d

LEMMA TokenAt ==
  ASSUME NEW e \in Cells, NEW d \in Cells, NEW x \in Text, NEW r \in Text,
         NEW a, NEW c, Encloses(x, r, e, d, a, c)
  PROVE  /\ StrtokToken[d][StrtokRest[e][x]] = r
         /\ d \in Range(StrtokRest[e][x])
<1> SUFFICES ASSUME r # << >>, \A j \in 1..Len(r) : r[j] # d, c \in 1..Len(x),
                    Splits(x, e, a, c - 1), c + Len(r) + 1 <= Len(x),
                    StandsIn(r, x, c), x[c + Len(r) + 1] = d
             PROVE  /\ StrtokToken[d][StrtokRest[e][x]] = r
                    /\ d \in Range(StrtokRest[e][x])
  BY Zenon DEF Encloses
<1> DEFINE y == SubSeq(x, c + 1, Len(x))
           N == Len(r)
<1>1. Len(x) \in Nat /\ N \in Nat \ {0} /\ c \in Nat /\ Len(x) \in c..Len(x)
  BY LenProperties, EmptySeq DEF Text
<1>3. StrtokRest[e][x] = y
  <2> DEFINE b == c - 1
  <2>1. Splits(x, e, a, b) /\ b + 2 = c + 1
    BY <1>1
  <2> HIDE DEF b
  <2>2. StrtokRest[e][x] = SubSeq(x, b + 2, Len(x))
    BY <2>1, StrtokAt
  <2> QED
    BY <2>1, <2>2
<1>4. /\ y \in Text /\ Len(y) = Len(x) - c
      /\ \A j \in 1..(Len(x) - c) : y[j] = x[c + j]
  <2>1. x \in Seq(Cells)
    BY DEF Text
  <2>2. y \in Seq(Cells) /\ Len(y) = Len(x) - c
    BY <1>1, <2>1, Piece
  <2>3. \A j \in 1..(Len(x) - c) : y[j] = x[c + j]
    BY <1>1, <2>1, Piece
  <2> QED
    BY <2>2, <2>3 DEF Text
<1> HIDE DEF y
<1>5. /\ N + 1 \in 1..(Len(x) - c) /\ c + (N + 1) = c + N + 1
      /\ \A j \in 1..N : j \in 1..(Len(x) - c)
  BY <1>1
<1>6. y[N + 1] = d
  BY <1>4, <1>5
<1>7. \A j \in 1..N : y[j] = r[j] /\ y[j] # d
  BY <1>4, <1>5 DEF StandsIn
<1>8. Splits(y, d, 0, N)
  <2>1. 0 \in 0..Len(y) /\ N \in 0..Len(y) /\ 0 + 1 \in 1..N
    BY <1>1, <1>4, <1>5
  <2>2. y[0 + 1] # d /\ \A j \in (0 + 1)..N : y[j] # d
    BY <1>7, <2>1
  <2>3. \A j \in 1..0 : y[j] = d
    OBVIOUS
  <2> QED
    BY <1>6, <2>1, <2>2, <2>3, Zenon DEF Splits
<1>9. StrtokToken[d][y] = SubSeq(y, 0 + 1, N)
  <2> DEFINE z == 0
  <2>1. Splits(y, d, z, N)
    BY <1>8
  <2> HIDE DEF z, N
  <2>2. StrtokToken[d][y] = SubSeq(y, z + 1, N)
    BY <1>4, <2>1, StrtokAt
  <2> QED
    BY <2>2 DEF z
<1>10. SubSeq(y, 0 + 1, N) = r
  <2> DEFINE m == SubSeq(y, 0 + 1, N)
  <2>1. 0 \in Nat /\ N \in 0..Len(y) /\ N - 0 = N
    BY <1>1, <1>4, <1>5
  <2>2. m \in Seq(Cells) /\ Len(m) = N - 0 /\ \A j \in 1..(N - 0) : m[j] = y[0 + j]
    BY <1>4, <2>1, Piece DEF Text
  <2>3. \A j \in 1..N : 0 + j = j
    BY <1>1
  <2> HIDE DEF m
  <2>4. Len(m) = Len(r) /\ \A j \in 1..Len(m) : m[j] = r[j]
    BY <1>7, <2>1, <2>2, <2>3
  <2>5. m = r
    BY <2>2, <2>4, SeqEqual DEF Text
  <2> QED
    BY <2>5 DEF m
<1>11. StrtokToken[d][StrtokRest[e][x]] = r
  BY <1>3, <1>9, <1>10, Zenon
<1>12. d \in Range(y)
  <2>1. DOMAIN y = 1..Len(y)
    BY <1>4, LenProperties DEF Text
  <2>2. N + 1 \in DOMAIN y
    BY <1>4, <1>5, <2>1
  <2> QED
    BY <1>6, <2>2 DEF Range
<1> QED
  BY <1>3, <1>11, <1>12

(* The payload is behind the first ":" and in front of the next ";".       *)
LEMMA MessageAt ==
  ASSUME NEW x \in Text, NEW r \in Text, NEW a, NEW c, Encloses(x, r, ":", ";", a, c)
  PROVE  /\ MessageField(x) = r
         /\ ";" \in Range(StrtokRest[":"][x])
<1>1. ":" \in Cells /\ ";" \in Cells
  BY CellsAssumption
<1> QED
  BY <1>1, TokenAt, Zenon DEF MessageField

(* A delimiter is not skipped if there is anything else in front of it.    *)
LEMMA SkipKeeps ==
  ASSUME NEW y \in Text, NEW d \in Cells, NEW w \in Nat, NEW z \in Nat,
         1 <= w, w < z, z <= Len(y), y[w] # d, y[z] = d
  PROVE  d \in Range(SkipDelimiters(y, d))
<1> DEFINE first == SelectInSeq(y, LAMBDA c : c # d)
           t == SkipDelimiters(y, d)
<1>1. t = IF first = 0 THEN NULL ELSE SubSeq(y, first, Len(y))
  BY DEF SkipDelimiters
<1>2. FirstCell(first, y, Cells \ {d})
  BY Searches
<1> HIDE DEF first, t
<1>3. Len(y) \in Nat /\ first \in 0..Len(y) /\ \A j \in 1..Len(y) : y[j] \in Cells
  BY <1>2, LenProperties DEF FirstCell, Text
<1>4. w \in 1..Len(y) /\ y[w] \in Cells \ {d}
  BY <1>3
<1>5. first # 0 /\ first <= w
  <2>1. first # 0
    BY <1>2, <1>4 DEF FirstCell
  <2>2. \A j \in 1..(first - 1) : y[j] \notin Cells \ {d}
    BY <1>2, <2>1 DEF FirstCell
  <2> QED
    BY <1>3, <1>4, <2>1, <2>2
<1> DEFINE m == first - 1
           i == z - m
<1>6. /\ m \in Nat /\ Len(y) \in m..Len(y) /\ m + 1 = first
      /\ i \in 1..(Len(y) - m) /\ m + i = z
  BY <1>3, <1>5
<1> HIDE DEF m, i
<1>7. t = SubSeq(y, m + 1, Len(y))
  BY <1>1, <1>5, <1>6
<1>8. t \in Seq(Cells) /\ Len(t) = Len(y) - m /\ \A j \in 1..(Len(y) - m) : t[j] = y[m + j]
  BY <1>6, <1>7, Piece DEF Text
<1>9. i \in DOMAIN t /\ t[i] = d
  BY <1>6, <1>8, LenProperties
<1> QED
  BY <1>9 DEF Range, t

(* What stands behind a delimiter e stays for the next call, if there is   *)
(* anything else in front of that delimiter; and the next call, with d,    *)
(* finds its end there, if it finds anything else before.                  *)
LEMMA RestKeeps ==
  ASSUME NEW x \in Text, NEW e \in Cells, NEW d \in Cells,
         NEW p \in Nat, NEW c \in Nat, NEW w \in Nat, NEW z \in Nat,
         1 <= p, p < c, c < w, w < z, z <= Len(x),
         x[p] # e, x[c] = e, x[w] # d, x[z] = d
  PROVE  d \in Range(SkipDelimiters(StrtokRest[e][x], d))
<1>1. PICK a, b : Splits(x, e, a, b) /\ StrtokRest[e][x] = SubSeq(x, b + 2, Len(x))
  <2>1. \E a, b : /\ Splits(x, e, a, b)
                  /\ StrtokToken[e][x] = SubSeq(x, a + 1, b)
                  /\ StrtokRest[e][x] = SubSeq(x, b + 2, Len(x))
    BY ONLY x \in Text, e \in Cells, StrtokSplits, Zenon
  <2> QED
    BY <2>1, Zenon
<1>2. Len(x) \in Nat
  BY LenProperties DEF Text
<1>3. /\ a \in 0..Len(x) /\ b \in a..Len(x)
      /\ \A j \in 1..a : x[j] = e
      /\ \A j \in (a + 1)..b : x[j] # e
  BY <1>1 DEF Splits
<1>4. a < p
  BY <1>2, <1>3
<1>5. b < c
  BY <1>2, <1>3, <1>4
<1> DEFINE m == b + 1
           n == Len(x)
           y == SubSeq(x, m + 1, n)
           i == z - m
           h == w - m
<1>6. /\ m \in Nat /\ n \in m..Len(x) /\ m + 1 = b + 2
      /\ i \in 1..(n - m) /\ m + i = z
      /\ h \in 1..(n - m) /\ m + h = w /\ 1 <= h /\ h < i
  BY <1>2, <1>3, <1>5
<1> HIDE DEF m, n, i, h
<1>7. y \in Seq(Cells) /\ Len(y) = n - m /\ \A j \in 1..(n - m) : y[j] = x[m + j]
  BY <1>6, Piece DEF Text
<1>8. StrtokRest[e][x] = y
  BY <1>1, <1>6 DEF n
<1> HIDE DEF y
<1>9. y[i] = d /\ y[h] # d
  BY <1>6, <1>7
<1>10. i \in Nat /\ h \in Nat /\ i <= Len(y) /\ y \in Text
  BY <1>6, <1>7 DEF Text
<1>11. d \in Range(SkipDelimiters(y, d))
  BY <1>6, <1>9, <1>10, SkipKeeps
<1> QED
  BY <1>8, <1>11

(* Without a second delimiter nothing is left.                             *)
LEMMA NothingLeft ==
  ASSUME NEW e \in Cells, NEW x \in Text, NEW a, Splits(x, e, a, Len(x))
  PROVE  StrtokRest[e][x] = << >>
<1>1. Len(x) \in Nat
  BY LenProperties DEF Text
<1>2. StrtokRest[e][x] = SubSeq(x, Len(x) + 2, Len(x))
  BY StrtokAt
<1>3. SubSeq(x, Len(x) + 2, Len(x)) = << >>
  BY <1>1, SubSeqEmpty
<1> QED
  BY <1>2, <1>3

(* Without a ":" behind its first cell other than ":" there is no message. *)
LEMMA NoMessage ==
  ASSUME NEW x \in Text, NEW a, Splits(x, ":", a, Len(x))
  PROVE  MessageField(x) = << >>
<1>1. ":" \in Cells /\ ";" \in Cells
  BY CellsAssumption
<1>2. StrtokRest[":"][x] = << >>
  BY <1>1, NothingLeft, Zenon
<1> QED
  BY <1>1, <1>2, StrtokType, Zenon DEF MessageField

(***************************************************************************)
(* decodeMessage takes from a frame what was put into it: the length and   *)
(* the payload, for every payload that is not empty and has no ";".        *)
(***************************************************************************)
THEOREM FrameDecodes ==
  ASSUME NEW r \in Text, Plain(r)
  PROVE  LengthField(Frame(r)) = Len(r) /\ MessageField(Frame(r)) = r
<1> DEFINE F == Frame(r)
           D == Decimal[Len(r)]
           L == Len(D)
<1>1. /\ F \in Text /\ L \in Nat \ {0} /\ Len(r) \in Nat /\ D \in Seq(Digits)
      /\ Len(F) = L + Len(r) + 2
      /\ \A j \in 1..L : F[j] = D[j] /\ F[j] \in Digits
      /\ F[L + 1] = ":"
  BY FrameFacts
<1>2. \A j \in 1..Len(r) : F[L + 1 + j] = r[j]
  BY FrameFacts
<1>3. F[L + Len(r) + 2] = ";"
  BY FrameFacts
<1>4. ":" \in Cells
  BY CellsAssumption
<1>5. NumberOf(D) = Len(r)
  BY <1>1, DecimalNumber
<1> HIDE DEF F, D
<1>6. Splits(F, ":", 0, L)
  <2>1. \A j \in 1..L : F[j] # ":"
    BY <1>1, DigitFacts
  <2>2. 0 \in 0..Len(F) /\ L \in 0..Len(F) /\ 0 + 1 \in 1..L /\ \A j \in (0 + 1)..L : j \in 1..L
    BY <1>1
  <2>3. \A j \in 1..0 : F[j] = ":"
    OBVIOUS
  <2> QED
    BY <1>1, <2>1, <2>2, <2>3, Zenon DEF Splits
<1>7. LengthField(F) = Len(r)
  <2>1. StrtokToken[":"][F] = SubSeq(F, 0 + 1, L)
    <3> DEFINE z == 0
    <3> HIDE DEF z, L
    <3>1. \A e \in Cells : Splits(F, e, z, L) => StrtokToken[e][F] = SubSeq(F, z + 1, L)
      BY <1>1, StrtokAt
    <3> QED
      BY <1>4, <1>6, <3>1, Zenon DEF z
  <2> DEFINE t == SubSeq(F, 0 + 1, L)
  <2>2. 0 \in Nat /\ L \in 0..Len(F) /\ L - 0 = L /\ \A j \in 1..L : 0 + j = j
    BY <1>1
  <2>3. t \in Seq(Cells) /\ Len(t) = L - 0 /\ \A j \in 1..(L - 0) : t[j] = F[0 + j]
    BY <1>1, <2>2, Piece DEF Text
  <2> HIDE DEF t
  <2>4. D \in Seq(Cells)
    BY <1>1, DigitFacts, SeqMonotonic
  <2>5. Len(t) = Len(D) /\ \A j \in 1..Len(t) : t[j] = D[j]
    BY <1>1, <2>2, <2>3
  <2>6. t = D
    BY <2>3, <2>4, <2>5, SeqEqual
  <2>7. D # << >>
    BY <1>1, EmptySeq
  <2>8. Atoi[D] = NumberOf(D)
    BY <1>1, <2>7, AtoiFacts
  <2> QED
    BY <1>5, <2>1, <2>6, <2>8, Zenon DEF LengthField, t
<1>8. MessageField(F) = r
  <2>1. /\ L + 1 \in 1..Len(F) /\ (L + 1) - 1 = L /\ (L + 1) + Len(r) + 1 <= Len(F)
        /\ (L + 1) + Len(r) + 1 = L + Len(r) + 2
    BY <1>1
  <2>2. Splits(F, ":", 0, (L + 1) - 1)
    BY <1>6, <2>1
  <2>3. F[(L + 1) + Len(r) + 1] = ";"
    BY <1>3, <2>1
  <2> QED
    <3>1. Encloses(F, r, ":", ";", 0, L + 1)
      BY <1>2, <2>1, <2>2, <2>3, Zenon DEF StandsIn, Encloses, Plain
    <3> QED
      BY <1>1, <3>1, MessageAt, Zenon
<1> QED
  BY <1>7, <1>8 DEF F
-----------------------------------------------------------------------------
(* The lines of the board and the replies.                                 *)

(* A sensor field selects one of the outputs or none.                      *)
LEMMA SelectedFacts ==
  \A sensor : Selected(sensor) = "none" \/ Selected(sensor) \in ToSet(Outputs)
<1> SUFFICES ASSUME NEW sensor
             PROVE  Selected(sensor) = "none" \/ Selected(sensor) \in ToSet(Outputs)
  OBVIOUS
<1> DEFINE I == {j \in 1..Len(Outputs) : Strstr(sensor, Outputs[j])}
           i == SelectInSeq(Outputs, LAMBDA o : Strstr(sensor, o))
           S == ToSet(Pins) \union ToSet(Pwms)
<1>1. Outputs \in Seq(S)
  <2>1. Pins \in Seq(ToSet(Pins)) /\ Pwms \in Seq(ToSet(Pwms))
    BY DEF Pins, Pwms, ToSet
  <2>2. Pins \in Seq(S) /\ Pwms \in Seq(S)
    BY <2>1, SeqMonotonic
  <2> QED
    BY <2>2, ConcatProperties DEF Outputs
<1>2. Len(Outputs) \in Nat /\ DOMAIN Outputs = 1..Len(Outputs)
  BY <1>1, LenProperties
<1>3. i = IF I # {} THEN Min(I) ELSE 0
  BY DEF SelectInSeq
<1>4. I # {} => Min(I) \in I
  BY <1>2, MinFacts
<1>5. i = 0 \/ i \in DOMAIN Outputs
  BY <1>2, <1>3, <1>4
<1>6. Selected(sensor) = IF i = 0 THEN "none" ELSE Outputs[i]
  BY DEF Selected
<1> HIDE DEF i
<1>7. CASE i = 0
  BY <1>6, <1>7
<1>8. CASE i # 0
  <2>1. Selected(sensor) = Outputs[i] /\ i \in DOMAIN Outputs
    BY <1>5, <1>6, <1>8, Zenon
  <2> QED
    BY <2>1, Zenon DEF ToSet
<1> QED
  BY <1>7, <1>8

(* A pulse width is a number of ticks.                                     *)
LEMMA WidthType == \A n \in Int : PwmWidth(n) \in Nat
<1> SUFFICES ASSUME NEW n \in Int PROVE PwmWidth(n) \in Nat
  OBVIOUS
<1> DEFINE low  == 10 * (n % 65536)
           sum  == 10 * (n \div 65536) + (low \div 65536)
           high == sum % 65536
           rem  == high % 10000
<1>1. n % 65536 \in Nat /\ n \div 65536 \in Int
  OBVIOUS
<1>2. low \in Nat
  BY <1>1
<1> HIDE DEF low
<1>3. low \div 65536 \in Nat /\ low % 65536 \in Nat
  BY <1>2
<1>4. sum \in Int
  BY <1>1, <1>3
<1> HIDE DEF sum
<1>5. high \in Nat
  BY <1>4
<1> HIDE DEF high
<1>6. rem \in Nat /\ high \div 10000 \in Nat
  BY <1>5
<1> HIDE DEF rem
<1>7. (high \div 10000) * 65536 + (rem * 65536 + (low % 65536)) \div 10000 \in Nat
  <2>1. rem * 65536 + (low % 65536) \in Nat
    BY <1>3, <1>6
  <2>2. (rem * 65536 + (low % 65536)) \div 10000 \in Nat
    BY <2>1
  <2> QED
    BY <1>6, <2>2
<1> QED
  BY <1>7 DEF PwmWidth, PwmPeriod, low, sum, high, rem

(* The lines stay lines with levels; a command that is repeated changes    *)
(* nothing more, and one that selects an output leaves its line there.     *)
LEMMA ProcessFacts ==
  ASSUME NEW b \in [Lines -> Nat], NEW sensor, NEW value \in Text
  PROVE  LET p == ProcessCommand(b, sensor, value)
         IN  /\ p \in [Lines -> Nat]
             /\ ProcessCommand(p, sensor, value) = p
             /\ Selected(sensor) # "none" =>
                  p[Line(Selected(sensor))] = Level(Selected(sensor), value)
<1> DEFINE o == Selected(sensor)
           l == Line(o)
           v == Level(o, value)
           p == ProcessCommand(b, sensor, value)
<1>1. v \in Nat
  <2>1. Atoi[value] \in Int
    BY AtoiFacts
  <2>2. PwmWidth(Atoi[value]) \in Nat
    BY <2>1, WidthType
  <2> QED
    BY <2>2 DEF Level
<1>2. /\ p = IF o = "none" THEN b ELSE [b EXCEPT ![l] = v]
      /\ ProcessCommand(p, sensor, value) = IF o = "none" THEN p ELSE [p EXCEPT ![l] = v]
  BY DEF ProcessCommand
<1>3. o # "none" => l \in Lines
  BY SelectedFacts DEF Lines
<1> HIDE DEF o, l, v, p
<1>4. CASE o = "none"
  <2>1. p = b /\ ProcessCommand(p, sensor, value) = p
    BY <1>2, <1>4
  <2> QED
    BY <1>4, <2>1, Zenon DEF o, l, v, p
<1>5. CASE o # "none"
  <2>1. p = [b EXCEPT ![l] = v] /\ ProcessCommand(p, sensor, value) = [p EXCEPT ![l] = v]
    BY <1>2, <1>5, Zenon
  <2>2. p \in [Lines -> Nat] /\ p[l] = v
    BY <1>1, <1>3, <1>5, <2>1
  <2>3. [p EXCEPT ![l] = v] = p
    BY <2>2
  <2> QED
    BY <2>1, <2>2, <2>3, Zenon DEF o, l, v, p
<1> QED
  BY <1>4, <1>5

(* What a reply to a set command is made of, and how it ends.              *)
LEMMA SetReplyFacts ==
  ASSUME NEW msg \in Text
  PROVE  /\ SetReply(msg) \in Text
         /\ Last(SetReply(msg)) = "ACK" <=> Selected(Sensor(msg)) # "none"
<1> DEFINE bar == <<"|">>
           c == Printed(Command(msg))
           s == Printed(Sensor(msg))
           v == Printed(Value(msg))
           verdict == IF Selected(Sensor(msg)) = "none" THEN "NACK" ELSE "ACK"
           front == (((c \o bar) \o s) \o bar) \o v
           end == <<"|", verdict>>
<1>1. c \in Text /\ s \in Text /\ v \in Text
  <2>1. <<"(null)">> \in Text
    BY CellsAssumption, Single DEF Text
  <2> QED
    BY <2>1, FieldTypes DEF Printed
<1>2. bar \in Text
  BY CellsAssumption, Single DEF Text
<1>3. "|" \in Cells /\ verdict \in Cells /\ (verdict = "ACK" <=> Selected(Sensor(msg)) # "none")
  BY CellsAssumption
<1>4. SetReply(msg) = front \o end
  BY DEF SetReply
<1> HIDE DEF verdict
<1>5. end \in Text /\ Len(end) = 2 /\ end[2] = verdict
  BY <1>3 DEF Text
<1> HIDE DEF bar, c, s, v, end
<1>6. \A t, u \in Text : t \o u \in Text
  BY Joined DEF Text
<1>7. front \in Text
  BY <1>1, <1>2, <1>6, Zenon
<1> HIDE DEF front
<1>8. /\ front \o end \in Text /\ Len(front \o end) = Len(front) + Len(end)
      /\ Len(front) \in Nat
  BY <1>5, <1>7, Joined, Zenon DEF Text
<1>9. \A i \in 1..Len(end) : (front \o end)[Len(front) + i] = end[i]
  <2>1. \A t, u \in Seq(Cells) : \A i \in 1..Len(u) : (t \o u)[Len(t) + i] = u[i]
    BY Joined
  <2> QED
    BY <1>5, <1>7, <2>1 DEF Text
<1>10. Last(front \o end) = verdict
  <2>1. 2 \in 1..Len(end) /\ Len(front \o end) = Len(front) + 2
    BY <1>5, <1>8
  <2> QED
    BY <1>5, <1>9, <2>1 DEF Last
<1> QED
  BY <1>3, <1>4, <1>8, <1>10, Zenon

(* The answer to a get is a text.                                          *)
LEMMA StatusReplyType == StatusReply \in Text
<1>1. /\ "get" \in Cells /\ "|" \in Cells /\ "status" \in Cells
      /\ "ACK" \in Cells /\ "readings" \in Cells
  BY CellsAssumption
<1>2. \A a, b, c, d, e \in Cells : <<a, b, c, b, d, b, e>> \in Text
  BY DEF Text
<1> QED
  BY <1>1, <1>2, Zenon DEF StatusReply

-----------------------------------------------------------------------------
(***************************************************************************)
(* What decodeMessage makes of the end of a frame, with another frame or   *)
(* anything else behind it.  The lemmas are about any two delimiters e and *)
(* d.                                                                      *)
(***************************************************************************)

(* F is a frame of r with a header of L cells, e behind it and d at the    *)
(* end, and neither of the two elsewhere.                                  *)
Framed(F, r, e, d, L) ==
  /\ F \in Text /\ r \in Text /\ L \in Nat \ {0} /\ Len(r) \in Nat
  /\ Len(F) = L + Len(r) + 2
  /\ \A j \in 1..L : F[j] # e
  /\ F[L + 1] = e
  /\ StandsIn(r, F, L + 1)
  /\ F[L + Len(r) + 2] = d
  /\ r # << >> /\ \A j \in 1..Len(r) : r[j] # e /\ r[j] # d
  /\ e # d

(* Two texts one behind the other.                                         *)
LEMMA JoinedText ==
  ASSUME NEW s \in Text, NEW t \in Text
  PROVE  /\ s \o t \in Text /\ Len(s \o t) = Len(s) + Len(t)
         /\ Len(s) \in Nat /\ Len(t) \in Nat
         /\ \A i \in 1..Len(s) : (s \o t)[i] = s[i]
         /\ \A i \in 1..Len(t) : (s \o t)[Len(s) + i] = t[i]
<1>1. s \in Seq(Cells) /\ t \in Seq(Cells)
  BY DEF Text
<1> QED
  BY <1>1, Joined DEF Text

(* The end of a frame behind its first m cells.                            *)
LEMMA EndCells ==
  ASSUME NEW F \in Text, NEW m \in 0..(Len(F) - 1)
  PROVE  LET E == SubSeq(F, m + 1, Len(F))
         IN  /\ E \in Text /\ Len(E) = Len(F) - m /\ Len(F) \in Nat /\ m \in Nat
             /\ \A j \in 1..Len(E) : E[j] = F[m + j]
<1>1. Len(F) \in Nat
  BY LenProperties DEF Text
<1> DEFINE n == Len(F)
<1>2. m \in Nat /\ n \in m..Len(F)
  BY <1>1
<1> HIDE DEF n
<1>3. /\ SubSeq(F, m + 1, n) \in Text /\ Len(SubSeq(F, m + 1, n)) = n - m
      /\ \A j \in 1..(n - m) : SubSeq(F, m + 1, n)[j] = F[m + j]
  BY <1>2, Piece DEF Text
<1> QED
  BY <1>1, <1>2, <1>3 DEF n

(* Some of the header is left: the request stands behind it.               *)
LEMMA HeaderLeft ==
  ASSUME NEW F, NEW r, NEW e, NEW d, NEW L, Framed(F, r, e, d, L),
         NEW m \in 0..(L - 1), NEW t \in Text
  PROVE  LET x == SubSeq(F, m + 1, Len(F)) \o t
         IN  x \in Text /\ Encloses(x, r, e, d, 0, (L - m) + 1)
<1> DEFINE E == SubSeq(F, m + 1, Len(F))
           x == E \o t
           c == (L - m) + 1
<1>1. /\ F \in Text /\ r \in Text /\ L \in Nat \ {0} /\ Len(r) \in Nat
      /\ Len(F) = L + Len(r) + 2
      /\ \A j \in 1..L : F[j] # e
      /\ F[L + 1] = e
      /\ \A j \in 1..Len(r) : F[(L + 1) + j] = r[j]
      /\ F[L + Len(r) + 2] = d
      /\ r # << >> /\ \A j \in 1..Len(r) : r[j] # e /\ r[j] # d
  BY DEF Framed, StandsIn
<1>2. m \in 0..(Len(F) - 1) /\ m \in Nat
  BY <1>1
<1>3. E \in Text /\ Len(E) = Len(F) - m /\ \A j \in 1..Len(E) : E[j] = F[m + j]
  BY <1>1, <1>2, EndCells
<1> HIDE DEF E
<1>4. x \in Text /\ Len(x) = Len(E) + Len(t) /\ Len(t) \in Nat
      /\ \A j \in 1..Len(E) : x[j] = E[j]
  BY <1>3, Joined DEF Text
<1> HIDE DEF x
<1>5. \A j \in 1..(Len(F) - m) : x[j] = F[m + j]
  BY <1>3, <1>4
<1>6. c \in 1..Len(x) /\ c - 1 = L - m /\ Len(x) \in Nat /\ c + Len(r) + 1 <= Len(x)
  BY <1>1, <1>2, <1>3, <1>4
<1>7. Splits(x, e, 0, c - 1)
  <2>1. 0 \in 0..Len(x) /\ c - 1 \in 0..Len(x) /\ \A j \in 1..0 : x[j] = e
    BY <1>6
  <2>2. \A j \in (0 + 1)..(c - 1) : x[j] # e
    <3> TAKE j \in (0 + 1)..(c - 1)
    <3>1. j \in 1..(Len(F) - m) /\ m + j \in 1..L
      BY <1>1, <1>2, <1>6
    <3> QED
      BY <3>1, <1>1, <1>5
  <2>3. x[0 + 1] # e
    <3>1. 0 + 1 \in (0 + 1)..(c - 1)
      BY <1>1, <1>2, <1>6
    <3> QED
      BY <2>2, <3>1
  <2>4. x[(c - 1) + 1] = e
    <3>1. (c - 1) + 1 \in 1..(Len(F) - m) /\ m + ((c - 1) + 1) = L + 1
      BY <1>1, <1>2, <1>6
    <3> QED
      BY <3>1, <1>1, <1>5
  <2> QED
    BY <2>1, <2>2, <2>3, <2>4 DEF Splits
<1>8. \A j \in 1..Len(r) : x[c + j] = r[j]
  <2> TAKE j \in 1..Len(r)
  <2>1. c + j \in 1..(Len(F) - m) /\ m + (c + j) = (L + 1) + j
    BY <1>1, <1>2
  <2> QED
    BY <2>1, <1>1, <1>5
<1>9. x[c + Len(r) + 1] = d
  <2>1. c + Len(r) + 1 \in 1..(Len(F) - m) /\ m + (c + Len(r) + 1) = L + Len(r) + 2
    BY <1>1, <1>2
  <2> QED
    BY <2>1, <1>1, <1>5
<1> HIDE DEF c
<1>10. Encloses(x, r, e, d, 0, c)
  BY <1>1, <1>6, <1>7, <1>8, <1>9 DEF Encloses, StandsIn
<1> QED
  BY <1>4, <1>10 DEF x, E, c

(* Nothing of the header is left: behind the first cell there is no e.     *)
LEMMA HeaderGone ==
  ASSUME NEW F, NEW r, NEW e, NEW d, NEW L, Framed(F, r, e, d, L),
         NEW m \in L..(Len(F) - 1)
  PROVE  LET E == SubSeq(F, m + 1, Len(F))
         IN  /\ E \in Text /\ Len(E) \in Nat \ {0} /\ Len(E) < Len(F)
             /\ \A j \in 2..Len(E) : E[j] # e
<1> DEFINE E == SubSeq(F, m + 1, Len(F))
<1>1. /\ F \in Text /\ r \in Text /\ L \in Nat \ {0} /\ Len(r) \in Nat
      /\ Len(F) = L + Len(r) + 2
      /\ \A j \in 1..Len(r) : F[(L + 1) + j] = r[j]
      /\ F[L + Len(r) + 2] = d /\ e # d
      /\ \A j \in 1..Len(r) : r[j] # e /\ r[j] # d
  BY DEF Framed, StandsIn
<1>2. m \in 0..(Len(F) - 1) /\ m \in Nat /\ m >= L
  BY <1>1
<1>3. E \in Text /\ Len(E) = Len(F) - m /\ \A j \in 1..Len(E) : E[j] = F[m + j]
  BY <1>1, <1>2, EndCells
<1> HIDE DEF E
<1>4. Len(E) \in Nat \ {0} /\ Len(E) < Len(F)
  BY <1>1, <1>2, <1>3
<1>5. ASSUME NEW j \in 2..Len(E) PROVE E[j] # e
  <2> DEFINE i == m + j - (L + 1)
  <2>1. j \in 1..Len(E) /\ i \in 1..(Len(r) + 1) /\ m + j = (L + 1) + i /\ i \in Int
    BY <1>1, <1>2, <1>3
  <2>2. E[j] = F[(L + 1) + i]
    BY <2>1, <1>3
  <2> HIDE DEF i
  <2>3. CASE i \in 1..Len(r)
    BY <2>2, <2>3, <1>1
  <2>4. CASE i = Len(r) + 1
    <3>1. (L + 1) + i = L + Len(r) + 2
      BY <2>4, <1>1
    <3> QED
      BY <2>2, <3>1, <1>1
  <2> QED
    BY <2>1, <2>3, <2>4, <1>1
<1> QED
  BY <1>3, <1>4, <1>5 DEF E

(* The end of a frame and nothing behind it: one token.                    *)
LEMMA EndAlone ==
  ASSUME NEW E \in Text, NEW e, Len(E) \in Nat \ {0}, \A j \in 2..Len(E) : E[j] # e
  PROVE  \E a : Splits(E, e, a, Len(E))
<1> DEFINE a == IF E[1] = e THEN 1 ELSE 0
<1>1. a \in 0..Len(E) /\ Len(E) \in a..Len(E) /\ a \in {0, 1}
  OBVIOUS
<1>2. \A j \in 1..a : E[j] = e
  OBVIOUS
<1>3. \A j \in (a + 1)..Len(E) : E[j] # e
  OBVIOUS
<1>4. a < Len(E) => E[a + 1] # e
  BY <1>1, <1>3
<1> HIDE DEF a
<1>5. Splits(E, e, a, Len(E))
  BY <1>1, <1>2, <1>3, <1>4 DEF Splits
<1> QED
  BY <1>5

(* The end of a frame and a whole one behind it: the whole one is found.   *)
LEMMA EndAndFrame ==
  ASSUME NEW E \in Text, NEW e, Len(E) \in Nat \ {0}, \A j \in 2..Len(E) : E[j] # e,
         NEW G, NEW q, NEW d, NEW K, Framed(G, q, e, d, K), NEW u \in Text
  PROVE  LET x == E \o (G \o u)
         IN  x \in Text /\ \E a : Encloses(x, q, e, d, a, Len(E) + K + 1)
<1> DEFINE g == G \o u
           x == E \o g
           a == IF E[1] = e THEN 1 ELSE 0
           N == Len(E)
           c == N + K + 1
<1>1. /\ G \in Text /\ q \in Text /\ K \in Nat \ {0} /\ Len(q) \in Nat
      /\ Len(G) = K + Len(q) + 2
      /\ \A j \in 1..K : G[j] # e
      /\ G[K + 1] = e
      /\ \A j \in 1..Len(q) : G[(K + 1) + j] = q[j]
      /\ G[K + Len(q) + 2] = d
      /\ q # << >> /\ \A j \in 1..Len(q) : q[j] # e /\ q[j] # d
  BY DEF Framed, StandsIn
<1>2. g \in Text /\ Len(g) = Len(G) + Len(u) /\ Len(u) \in Nat /\ \A j \in 1..Len(G) : g[j] = G[j]
  <2>1. G \in Text /\ u \in Text
    BY <1>1
  <2> QED
    BY <2>1, JoinedText
<1> HIDE DEF g
<1>3. /\ x \in Text /\ Len(x) = Len(E) + Len(g)
      /\ \A j \in 1..Len(E) : x[j] = E[j]
      /\ \A j \in 1..Len(g) : x[Len(E) + j] = g[j]
  <2>1. E \in Text /\ g \in Text
    BY <1>2
  <2> QED
    BY <2>1, JoinedText
<1> HIDE DEF x
<1>4. N \in Nat \ {0} /\ Len(x) \in Nat /\ c + Len(q) + 1 <= Len(x) /\ c \in 1..Len(x) /\ c - 1 = N + K
  BY <1>1, <1>2, <1>3
<1> HIDE DEF N
<1>5. \A j \in 1..Len(G) : x[N + j] = G[j]
  <2> TAKE j \in 1..Len(G)
  <2>1. j \in 1..Len(g)
    BY <1>1, <1>2
  <2> QED
    BY <2>1, <1>2, <1>3 DEF N
<1>6. \A j \in 2..N : x[j] # e
  BY <1>3, <1>4 DEF N
<1>7. a \in {0, 1} /\ (a = 1 <=> x[1] = e)
  BY <1>3, <1>4 DEF N
<1> HIDE DEF a
<1>8. Splits(x, e, a, c - 1)
  <2>1. a \in 0..Len(x) /\ c - 1 \in a..Len(x)
    BY <1>1, <1>4, <1>7
  <2>2. \A j \in 1..a : x[j] = e
    BY <1>7
  <2>3. \A j \in (a + 1)..(c - 1) : x[j] # e
    <3> TAKE j \in (a + 1)..(c - 1)
    <3>1. CASE j <= N
      BY <3>1, <1>4, <1>6, <1>7
    <3>2. CASE j > N
      <4> DEFINE i == j - N
      <4>1. i \in 1..K /\ i \in 1..Len(G) /\ N + i = j
        BY <3>2, <1>1, <1>4, <1>7
      <4> QED
        BY <4>1, <1>1, <1>5
    <3> QED
      BY <3>1, <3>2, <1>4, <1>7
  <2>4. x[a + 1] # e
    <3>1. a + 1 \in (a + 1)..(c - 1)
      BY <1>1, <1>4, <1>7
    <3> QED
      BY <2>3, <3>1
  <2>5. x[(c - 1) + 1] = e
    <3>1. K + 1 \in 1..Len(G) /\ N + (K + 1) = (c - 1) + 1
      BY <1>1, <1>4
    <3> QED
      BY <3>1, <1>1, <1>5
  <2> HIDE DEF c
  <2> QED
    BY <2>1, <2>2, <2>3, <2>4, <2>5 DEF Splits
<1>9. \A j \in 1..Len(q) : x[c + j] = q[j]
  <2> TAKE j \in 1..Len(q)
  <2>1. (K + 1) + j \in 1..Len(G) /\ N + ((K + 1) + j) = c + j
    BY <1>1, <1>4
  <2> QED
    BY <2>1, <1>1, <1>5
<1>10. x[c + Len(q) + 1] = d
  <2>1. K + Len(q) + 2 \in 1..Len(G) /\ N + (K + Len(q) + 2) = c + Len(q) + 1
    BY <1>1, <1>4
  <2> QED
    BY <2>1, <1>1, <1>5
<1> HIDE DEF c
<1>11. Encloses(x, q, e, d, a, c)
  BY <1>1, <1>4, <1>8, <1>9, <1>10 DEF Encloses, StandsIn
<1> QED
  BY <1>3, <1>11 DEF x, g, c, N

(* A text that starts within the header of a frame has the end d of that   *)
(* frame in what the tokenizer sees behind its first e, whatever the frame *)
(* holds besides a cell (the one at w) other than d.                       *)
LEMMA CutInTheHeader ==
  ASSUME NEW F \in Text, NEW L \in Nat, NEW k \in Nat, NEW m \in Nat, NEW t \in Text,
         NEW e \in Cells, NEW d \in Cells, NEW w \in 1..k,
         Len(F) = L + k + 2, F[L + 1] = e, F[L + 1 + w] # d, F[L + k + 2] = d,
         \A j \in 1..L : F[j] # e, m < L
  PROVE  d \in Range(SkipDelimiters(StrtokRest[e][SubSeq(F, m + 1, Len(F)) \o t], d))
<1> DEFINE E == SubSeq(F, m + 1, Len(F))
           x == E \o t
<1>1. m \in 0..(Len(F) - 1)
  OBVIOUS
<1>2. /\ E \in Text /\ Len(E) = Len(F) - m
      /\ \A j \in 1..(Len(F) - m) : E[j] = F[m + j]
  BY <1>1, EndCells
<1> HIDE DEF E
<1>3. /\ x \in Text /\ Len(x) = Len(E) + Len(t) /\ Len(t) \in Nat
      /\ \A j \in 1..Len(E) : x[j] = E[j]
  BY <1>2, JoinedText
<1> HIDE DEF x
<1>4. \A j \in 1..(Len(F) - m) : x[j] = F[m + j]
  BY <1>2, <1>3
<1>5. PICK c \in Nat : c = (L - m) + 1
  OBVIOUS
<1>6. PICK z \in Nat : z = Len(F) - m
  OBVIOUS
<1>h. PICK h \in Nat : h = (L - m) + 1 + w
  OBVIOUS
<1>7. /\ 1 < c /\ c < h /\ h < z /\ m + c = L + 1 /\ m + h = L + 1 + w
      /\ m + z = L + k + 2 /\ m + 1 \in 1..L
  BY <1>5, <1>6, <1>h
<1>8. /\ 1 \in 1..(Len(F) - m) /\ c \in 1..(Len(F) - m)
      /\ h \in 1..(Len(F) - m) /\ z \in 1..(Len(F) - m)
  BY <1>6, <1>7
<1>9. x[1] # e
  BY <1>4, <1>7, <1>8
<1>10. x[c] = e
  BY <1>4, <1>7, <1>8
<1>11. x[z] = d
  BY <1>4, <1>7, <1>8
<1>12. z <= Len(x)
  BY <1>2, <1>3, <1>6
<1>13. 1 \in Nat /\ 1 <= 1
  OBVIOUS
<1>14. x[h] # d
  BY <1>4, <1>7, <1>8
<1>15. d \in Range(SkipDelimiters(StrtokRest[e][x], d))
  BY <1>3, <1>7, <1>9, <1>10, <1>11, <1>12, <1>13, <1>14, RestKeeps
<1> QED
  BY <1>15 DEF x, E

(* So has one that starts with the end of a frame and goes on with another.*)
LEMMA EndThenFrame ==
  ASSUME NEW e \in Cells, NEW d \in Cells, d # e,
         NEW E \in Text, NEW N \in Nat, Len(E) = N, 1 <= N, E[N] = d,
         NEW G \in Text, NEW K \in Nat, NEW k \in Nat, NEW u \in Text, NEW w \in 1..k,
         Len(G) = K + k + 2, G[K + 1] = e, G[K + 1 + w] # d, G[K + k + 2] = d
  PROVE  d \in Range(SkipDelimiters(StrtokRest[e][E \o (G \o u)], d))
<1> DEFINE t == G \o u
           x == E \o t
<1>1. /\ t \in Text /\ Len(t) = Len(G) + Len(u) /\ Len(u) \in Nat
      /\ \A j \in 1..Len(G) : t[j] = G[j]
  BY JoinedText
<1> HIDE DEF t
<1>2. /\ x \in Text /\ Len(x) = N + Len(t)
      /\ \A j \in 1..N : x[j] = E[j]
      /\ \A i \in 1..Len(t) : x[N + i] = t[i]
  BY <1>1, JoinedText
<1> HIDE DEF x
<1>3. PICK c \in Nat : c = N + (K + 1)
  OBVIOUS
<1>4. PICK z \in Nat : z = N + (K + k + 2)
  OBVIOUS
<1>h. PICK h \in Nat : h = N + (K + 1 + w)
  OBVIOUS
<1>5. N < c /\ c < h /\ h < z
  BY <1>3, <1>4, <1>h
<1>6. z <= Len(x)
  BY <1>1, <1>2, <1>4
<1>7. /\ K + 1 \in 1..Len(G) /\ K + 1 + w \in 1..Len(G)
      /\ K + k + 2 \in 1..Len(G) /\ N \in 1..N
  OBVIOUS
<1>8. K + 1 \in 1..Len(t) /\ K + 1 + w \in 1..Len(t) /\ K + k + 2 \in 1..Len(t)
  BY <1>1
<1>9. x[c] = e
  BY <1>1, <1>2, <1>3, <1>7, <1>8
<1>10. x[z] = d
  BY <1>1, <1>2, <1>4, <1>7, <1>8
<1>11. x[N] # e
  BY <1>2, <1>7
<1>12. x[h] # d
  BY <1>1, <1>2, <1>7, <1>8, <1>h
<1>13. d \in Range(SkipDelimiters(StrtokRest[e][x], d))
  BY <1>2, <1>5, <1>6, <1>9, <1>10, <1>11, <1>12, RestKeeps
<1> QED
  BY <1>13 DEF x, t

=============================================================================
