----------------------- MODULE ShadowLogsQuery_proofs -----------------------
(***************************************************************************)
(* What the TEXT comparison of block numbers does, for every number: the   *)
(* decimal texts are those of Digits, no two numbers have the same one,    *)
(* and texts of one width are ordered as their numbers are.                *)
(***************************************************************************)
EXTENDS ShadowLogsQuery, NaturalsLeast

-----------------------------------------------------------------------------
(***************************************************************************)
(* The recursive definition of Digits defines a function.  Its             *)
(* approximations on 0..n exist and agree, so that their last values make  *)
(* up a function that satisfies the definition.                            *)
(***************************************************************************)
Approximates(g, n) ==
  /\ DOMAIN g = 0..n
  /\ \A i \in 0..n : g[i] = IF i < 10 THEN <<i>> ELSE Append(g[i \div 10], i % 10)

LEMMA DivTen ==
  ASSUME NEW n \in Nat
  PROVE  /\ n \div 10 \in Nat /\ n % 10 \in 0..9 /\ n = 10 * (n \div 10) + (n % 10)
         /\ n >= 10 => (n \div 10 < n /\ n \div 10 >= 1)
OBVIOUS

LEMMA ApproximationsAgree ==
  ASSUME NEW m \in Nat, NEW n \in Nat, NEW g, NEW h,
         Approximates(g, m), Approximates(h, n),
         NEW i \in Nat, i <= m, i <= n
  PROVE  g[i] = h[i]
<1> DEFINE Differ == {k \in Nat : k <= m /\ k <= n /\ g[k] # h[k]}
<1> SUFFICES ASSUME Differ # {} PROVE FALSE
  OBVIOUS
<1>1. PICK k \in Differ : \A l \in Differ : k <= l
  BY Least
<1>2. k \in 0..m /\ k \in 0..n
  BY <1>1
<1>3. CASE k < 10
  BY <1>1, <1>2, <1>3 DEF Approximates
<1>4. CASE k >= 10
  <2>1. k \div 10 \in Nat /\ k \div 10 < k
    BY <1>2, <1>4, DivTen
  <2>2. g[k \div 10] = h[k \div 10]
    BY <1>1, <2>1
  <2> QED
    BY <1>1, <1>2, <1>4, <2>2 DEF Approximates
<1> QED
  BY <1>1, <1>3, <1>4

LEMMA ApproximationExists ==
  ASSUME NEW n \in Nat
  PROVE  \E g : Approximates(g, n)
<1> DEFINE Reached == {k \in Nat : \E g : Approximates(g, k)}
<1>1. 0 \in Reached
  <2>1. Approximates([i \in 0..0 |-> <<i>>], 0)
    BY DEF Approximates
  <2> QED
    BY <2>1
<1>2. ASSUME NEW k \in Nat, k \in Reached
      PROVE  k + 1 \in Reached
  <2>1. PICK g : Approximates(g, k)
    BY <1>2
  <2> DEFINE next == IF k + 1 < 10 THEN <<k + 1>>
                     ELSE Append(g[(k + 1) \div 10], (k + 1) % 10)
             h    == [i \in 0..(k + 1) |-> IF i <= k THEN g[i] ELSE next]
  <2>2. ASSUME NEW i \in 0..(k + 1)
        PROVE  h[i] = IF i < 10 THEN <<i>> ELSE Append(h[i \div 10], i % 10)
    <3>1. CASE i = k + 1
      <4>1. i >= 10 => (i \div 10 \in 0..(k + 1) /\ i \div 10 <= k)
        BY <3>1, DivTen
      <4> QED
        BY <3>1, <4>1
    <3>2. CASE i \in 0..k
      <4>1. i >= 10 => (i \div 10 \in 0..(k + 1) /\ i \div 10 <= k)
        BY <3>2, DivTen
      <4>2. h[i] = g[i] /\ (i >= 10 => h[i \div 10] = g[i \div 10])
        BY <3>2, <4>1
      <4>3. g[i] = IF i < 10 THEN <<i>> ELSE Append(g[i \div 10], i % 10)
        BY <2>1, <3>2 DEF Approximates
      <4> HIDE DEF h
      <4> QED
        BY <3>2, <4>2, <4>3
    <3> QED
      BY <3>1, <3>2
  <2>3. Approximates(h, k + 1)
    BY <2>2 DEF Approximates
  <2> QED
    BY <2>3
<1> HIDE DEF Reached
<1>3. \A k \in Nat : k >= 0 => k \in Reached
  BY <1>1, <1>2, FromOn
<1> QED
  BY <1>3 DEF Reached

LEMMA DigitsUnfold ==
  /\ DOMAIN Digits = Nat
  /\ \A n \in Nat :
       Digits[n] = IF n < 10 THEN <<n>> ELSE Append(Digits[n \div 10], n % 10)
<1> DEFINE A(n) == CHOOSE g : Approximates(g, n)
           F    == [n \in Nat |-> A(n)[n]]
<1>1. \A n \in Nat : Approximates(A(n), n)
  BY ApproximationExists
<1>2. ASSUME NEW n \in Nat
      PROVE  F[n] = IF n < 10 THEN <<n>> ELSE Append(F[n \div 10], n % 10)
  <2>1. n \in 0..n /\ Approximates(A(n), n)
    BY <1>1
  <2>2. CASE n < 10
    BY <2>1, <2>2 DEF Approximates
  <2>3. CASE n >= 10
    <3>1. n \div 10 \in Nat /\ n \div 10 <= n
      BY <2>3, DivTen
    <3>2. A(n)[n \div 10] = A(n \div 10)[n \div 10]
      BY <1>1, <3>1, ApproximationsAgree
    <3> QED
      BY <2>1, <2>3, <3>1, <3>2 DEF Approximates
  <2> QED
    BY <2>2, <2>3
<1>3. F = [n \in Nat |-> IF n < 10 THEN <<n>> ELSE Append(F[n \div 10], n % 10)]
  <2>1. F = [n \in Nat |-> F[n]]
    OBVIOUS
  <2> HIDE DEF F
  <2> QED
    BY <1>2, <2>1
<1> HIDE DEF F
<1>4. Digits = [n \in Nat |->
                  IF n < 10 THEN <<n>> ELSE Append(Digits[n \div 10], n % 10)]
  BY <1>3 DEF Digits
<1> QED
  BY <1>4

LEMMA DigitsShort ==
  ASSUME NEW n \in Nat, n < 10
  PROVE  Digits[n] = <<n>>
BY DigitsUnfold, Zenon

LEMMA DigitsLong ==
  ASSUME NEW n \in Nat, n >= 10
  PROVE  Digits[n] = Append(Digits[n \div 10], n % 10)
<1>1. ~(n < 10)
  OBVIOUS
<1> QED
  BY <1>1, DigitsUnfold, Zenon

\* Every text has a digit, and digits only.
IsText(s) == s \in Seq(0..9) /\ Len(s) >= 1

LEMMA DigitsType ==
  ASSUME NEW n \in Nat
  PROVE  Digits[n] \in Seq(0..9) /\ Len(Digits[n]) >= 1
<1> DEFINE Other == {k \in Nat : ~IsText(Digits[k])}
<1> SUFFICES ASSUME Other # {} PROVE FALSE
  BY DEF IsText
<1>1. PICK k \in Other : \A l \in Other : k <= l
  BY Least
<1>2. CASE k < 10
  <2>1. Digits[k] = <<k>> /\ k \in 0..9
    BY <1>1, <1>2, DigitsShort
  <2>2. IsText(<<k>>)
    BY <2>1 DEF IsText
  <2> QED
    BY <1>1, <2>1, <2>2
<1>3. CASE k >= 10
  <2>1. k \div 10 \in Nat /\ k \div 10 < k /\ k % 10 \in 0..9
    BY <1>1, <1>3, DivTen
  <2>2. k \div 10 \notin Other
    BY <1>1, <2>1
  <2>3. Digits[k \div 10] \in Seq(0..9)
    BY <2>1, <2>2 DEF IsText
  <2>4. Digits[k] = Append(Digits[k \div 10], k % 10)
    BY <1>1, <1>3, DigitsLong
  <2>5. IsText(Digits[k])
    BY <2>1, <2>3, <2>4 DEF IsText
  <2> QED
    BY <1>1, <2>5
<1> QED
  BY <1>1, <1>2, <1>3

-----------------------------------------------------------------------------
(***************************************************************************)
(* The order of texts.                                                     *)
(***************************************************************************)
LEMMA TextReflexive ==
  ASSUME NEW s \in Seq(0..9)
  PROVE  TextLeq(s, s)
BY DEF TextLeq

LEMMA TextAntisymmetric ==
  ASSUME NEW s \in Seq(0..9), NEW t \in Seq(0..9), TextLeq(s, t), TextLeq(t, s)
  PROVE  s = t
<1> DEFINE Within(u, v)  == Len(u) <= Len(v) /\ \A i \in DOMAIN u : u[i] = v[i]
           At(u, v, i)   == /\ i \in DOMAIN u \cap DOMAIN v
                            /\ u[i] < v[i] /\ \A j \in 1..(i - 1) : u[j] = v[j]
<1>1. /\ DOMAIN s = 1..Len(s) /\ DOMAIN t = 1..Len(t) /\ Len(s) \in Nat /\ Len(t) \in Nat
      /\ \A i \in DOMAIN s : s[i] \in Int
      /\ \A i \in DOMAIN t : t[i] \in Int
  OBVIOUS
<1>2. /\ Within(s, t) \/ \E i \in DOMAIN s : At(s, t, i)
      /\ Within(t, s) \/ \E i \in DOMAIN s : At(t, s, i)
  BY DEF TextLeq
<1>3. CASE Within(s, t) /\ Within(t, s)
  BY <1>1, <1>3
<1>4. ASSUME NEW i \in DOMAIN s, At(s, t, i)
      PROVE  FALSE
  <2>1. ~Within(t, s)
    BY <1>1, <1>4
  <2>2. PICK j \in DOMAIN s : At(t, s, j)
    BY <1>2, <2>1
  <2>3. i \in Nat /\ j \in Nat /\ i >= 1 /\ j >= 1
    BY <1>1
  <2>4. CASE i < j
    BY <1>1, <1>4, <2>2, <2>3, <2>4
  <2>5. CASE j < i
    BY <1>1, <1>4, <2>2, <2>3, <2>5
  <2>6. CASE i = j
    BY <1>1, <1>4, <2>2, <2>6
  <2> QED
    BY <2>3, <2>4, <2>5, <2>6
<1>5. ASSUME NEW i \in DOMAIN s, At(t, s, i), Within(s, t)
      PROVE  FALSE
  BY <1>1, <1>5
<1> QED
  BY <1>2, <1>3, <1>4, <1>5

\* Two texts of one width compare by their last digits only if the rest is equal.
ByLast(s, t, x, y) ==
  TextLeq(Append(s, x), Append(t, y)) <=>
    \/ s = t /\ x <= y
    \/ s # t /\ TextLeq(s, t)

LEMMA TextLast ==
  ASSUME NEW s \in Seq(0..9), NEW t \in Seq(0..9), Len(s) = Len(t),
         NEW x \in 0..9, NEW y \in 0..9
  PROVE  ByLast(s, t, x, y)
<1> DEFINE u == Append(s, x)
           v == Append(t, y)
           n == Len(s)
<1>1. /\ n \in Nat /\ Len(u) = n + 1 /\ Len(v) = n + 1
      /\ DOMAIN s = 1..n /\ DOMAIN t = 1..n
      /\ DOMAIN u = 1..(n + 1) /\ DOMAIN v = 1..(n + 1)
      /\ u[n + 1] = x /\ v[n + 1] = y
      /\ \A i \in 1..n : u[i] = s[i] /\ v[i] = t[i] /\ s[i] \in Int /\ t[i] \in Int
  OBVIOUS
<1>2. s = t <=> \A i \in 1..n : s[i] = t[i]
  BY <1>1
<1> HIDE DEF u, v, n
<1>3. TextLeq(u, v) <=>
        \/ \A i \in 1..(n + 1) : u[i] = v[i]
        \/ \E i \in 1..(n + 1) : u[i] < v[i] /\ \A j \in 1..(i - 1) : u[j] = v[j]
  <2>1. Len(u) <= Len(v) /\ DOMAIN u = 1..(n + 1) /\ DOMAIN u \cap DOMAIN v = 1..(n + 1)
    BY <1>1
  <2> QED
    BY <2>1, Zenon DEF TextLeq
<1>4. TextLeq(s, t) <=>
        \/ \A i \in 1..n : s[i] = t[i]
        \/ \E i \in 1..n : s[i] < t[i] /\ \A j \in 1..(i - 1) : s[j] = t[j]
  <2>1. Len(s) <= Len(t) /\ DOMAIN s = 1..n /\ DOMAIN s \cap DOMAIN t = 1..n
    BY <1>1 DEF n
  <2> QED
    BY <2>1, Zenon DEF TextLeq
<1>5. ASSUME TextLeq(u, v)
      PROVE  (s = t /\ x <= y) \/ (s # t /\ TextLeq(s, t))
  <2>1. CASE \A i \in 1..(n + 1) : u[i] = v[i]
    BY <1>1, <1>2, <2>1
  <2>2. ASSUME NEW i \in 1..(n + 1), u[i] < v[i], \A j \in 1..(i - 1) : u[j] = v[j]
        PROVE  (s = t /\ x <= y) \/ (s # t /\ TextLeq(s, t))
    <3>1. CASE i = n + 1
      BY <1>1, <1>2, <2>2, <3>1
    <3>2. CASE i \in 1..n
      <4>1. s[i] < t[i] /\ \A j \in 1..(i - 1) : s[j] = t[j]
        BY <1>1, <2>2, <3>2
      <4>2. s # t
        BY <1>1, <3>2, <4>1
      <4> QED
        BY <1>4, <3>2, <4>1, <4>2
    <3> QED
      BY <1>1, <3>1, <3>2
  <2> QED
    BY <1>3, <1>5, <2>1, <2>2
<1>6. ASSUME s = t, x <= y
      PROVE  TextLeq(u, v)
  <2>1. \A j \in 1..n : u[j] = v[j]
    BY <1>1, <1>6
  <2>2. CASE x = y
    BY <1>1, <1>3, <2>1, <2>2
  <2>3. CASE x < y
    <3>1. n + 1 \in 1..(n + 1) /\ (n + 1) - 1 = n
      BY <1>1
    <3> QED
      BY <1>1, <1>3, <2>1, <2>3, <3>1
  <2> QED
    BY <1>6, <2>2, <2>3
<1>7. ASSUME s # t, TextLeq(s, t)
      PROVE  TextLeq(u, v)
  <2>1. PICK i \in 1..n : s[i] < t[i] /\ \A j \in 1..(i - 1) : s[j] = t[j]
    BY <1>2, <1>4, <1>7
  <2>2. i \in 1..(n + 1) /\ u[i] < v[i] /\ \A j \in 1..(i - 1) : u[j] = v[j]
    BY <1>1, <2>1
  <2> QED
    BY <1>3, <2>2
<1> QED
  BY <1>5, <1>6, <1>7 DEF u, v, ByLast

-----------------------------------------------------------------------------
\* Numbers of one width are ordered as their texts are.
OrderedAlike(m, n) == TextLeq(Digits[m], Digits[n]) <=> m <= n

LEMMA WidthShort ==
  ASSUME NEW m \in Nat, NEW n \in Nat, SameWidth(m, n), m < 10
  PROVE  n < 10
<1> SUFFICES ASSUME n >= 10 PROVE FALSE
  OBVIOUS
<1>1. Digits[m] = <<m>>
  BY DigitsShort
<1>2. n \div 10 \in Nat /\ n % 10 \in 0..9
  BY DivTen
<1>3. Digits[n] = Append(Digits[n \div 10], n % 10)
  BY DigitsLong
<1>4. Digits[n \div 10] \in Seq(0..9) /\ Len(Digits[n \div 10]) >= 1
  BY <1>2, DigitsType
<1> PICK s : s = Digits[n \div 10]
  OBVIOUS
<1> PICK y : y = n % 10
  OBVIOUS
<1>5. Len(Append(s, y)) = Len(s) + 1 /\ Len(s) \in Nat /\ Len(s) >= 1
  BY <1>4
<1>6. Len(<<m>>) = 1
  OBVIOUS
<1> QED
  BY <1>1, <1>3, <1>5, <1>6 DEF SameWidth

LEMMA OrderShort ==
  ASSUME NEW m \in Nat, NEW n \in Nat, m < 10, n < 10
  PROVE  OrderedAlike(m, n)
<1>1. Digits[m] = <<m>> /\ Digits[n] = <<n>>
  BY DigitsShort
<1>2. ASSUME NEW s, NEW t, s = <<m>>, t = <<n>>
      PROVE  TextLeq(s, t) <=> m <= n
  <2>1. /\ Len(s) = 1 /\ Len(t) = 1 /\ DOMAIN s = {1} /\ DOMAIN t = {1}
        /\ s[1] = m /\ t[1] = n
    BY <1>2
  <2> QED
    BY <2>1 DEF TextLeq
<1> QED
  BY <1>1, <1>2 DEF OrderedAlike

LEMMA OrderLong ==
  ASSUME NEW m \in Nat, NEW n \in Nat, m >= 10, n >= 10, SameWidth(m, n),
         SameWidth(m \div 10, n \div 10) =>
           OrderedAlike(m \div 10, n \div 10) /\ OrderedAlike(n \div 10, m \div 10)
  PROVE  OrderedAlike(m, n) /\ SameWidth(m \div 10, n \div 10)
<1> PICK a : a = m \div 10
  OBVIOUS
<1> PICK b : b = n \div 10
  OBVIOUS
<1> PICK x : x = m % 10
  OBVIOUS
<1> PICK y : y = n % 10
  OBVIOUS
<1>1. /\ a \in Nat /\ b \in Nat /\ x \in 0..9 /\ y \in 0..9
      /\ m = 10 * a + x /\ n = 10 * b + y
  BY DivTen
<1>2. Digits[m] = Append(Digits[a], x) /\ Digits[n] = Append(Digits[b], y)
  BY DigitsLong
<1>3. Digits[a] \in Seq(0..9) /\ Digits[b] \in Seq(0..9)
  BY <1>1, DigitsType
<1>4. Len(Digits[a]) = Len(Digits[b])
  <2>1. Len(Digits[m]) = Len(Digits[n])
    BY DEF SameWidth
  <2>2. /\ Len(Append(Digits[a], x)) = Len(Digits[a]) + 1 /\ Len(Digits[a]) \in Nat
        /\ Len(Append(Digits[b], y)) = Len(Digits[b]) + 1 /\ Len(Digits[b]) \in Nat
    BY <1>1, <1>3
  <2> QED
    BY <1>2, <2>1, <2>2
<1>5. /\ TextLeq(Digits[a], Digits[b]) <=> a <= b
      /\ TextLeq(Digits[b], Digits[a]) <=> b <= a
  <2>1. SameWidth(a, b)
    BY <1>4 DEF SameWidth
  <2>2. OrderedAlike(a, b) /\ OrderedAlike(b, a)
    BY <2>1
  <2> QED
    BY <2>2 DEF OrderedAlike
<1>6. Digits[a] = Digits[b] <=> a = b
  BY <1>1, <1>3, <1>5, TextReflexive
<1>7. TextLeq(Append(Digits[a], x), Append(Digits[b], y)) <=>
        \/ Digits[a] = Digits[b] /\ x <= y
        \/ Digits[a] # Digits[b] /\ TextLeq(Digits[a], Digits[b])
  <2>1. ByLast(Digits[a], Digits[b], x, y)
    BY <1>1, <1>3, <1>4, TextLast
  <2> QED
    BY <2>1 DEF ByLast
<1>8. m <= n <=> (a = b /\ x <= y) \/ (a # b /\ a <= b)
  BY <1>1
<1>9. OrderedAlike(m, n)
  BY <1>2, <1>5, <1>6, <1>7, <1>8 DEF OrderedAlike
<1> QED
  BY <1>4, <1>9 DEF SameWidth

LEMMA SameWidthOrder ==
  ASSUME NEW m \in Nat, NEW n \in Nat, SameWidth(m, n)
  PROVE  OrderedAlike(m, n)
<1> DEFINE Off == {k \in Nat : \E l \in Nat :
                     SameWidth(k, l) /\ ~(OrderedAlike(k, l) /\ OrderedAlike(l, k))}
<1> SUFFICES ASSUME Off # {} PROVE FALSE
  OBVIOUS
<1>1. PICK k \in Off : \A i \in Off : k <= i
  BY Least
<1>2. PICK l \in Nat : SameWidth(k, l) /\ ~(OrderedAlike(k, l) /\ OrderedAlike(l, k))
  BY <1>1
<1>3. k \in Nat /\ SameWidth(l, k)
  BY <1>1, <1>2 DEF SameWidth
<1>4. CASE k < 10
  <2>1. l < 10
    BY <1>2, <1>3, <1>4, WidthShort
  <2> QED
    BY <1>2, <1>3, <1>4, <2>1, OrderShort
<1>5. CASE k >= 10
  <2>1. l >= 10
    <3>1. ~(l < 10)
      BY <1>2, <1>3, <1>5, WidthShort
    <3> QED
      BY <1>2, <3>1
  <2>2. k \div 10 \in Nat /\ k \div 10 < k /\ l \div 10 \in Nat
    BY <1>2, <1>3, <1>5, DivTen
  <2>3. k \div 10 \notin Off
    BY <1>1, <1>3, <2>2
  <2>4. SameWidth(k \div 10, l \div 10) =>
          OrderedAlike(k \div 10, l \div 10) /\ OrderedAlike(l \div 10, k \div 10)
    BY <2>2, <2>3
  <2>5. SameWidth(l \div 10, k \div 10) => SameWidth(k \div 10, l \div 10)
    BY DEF SameWidth
  <2>6. OrderedAlike(k, l)
    BY <1>2, <1>3, <1>5, <2>1, <2>4, OrderLong
  <2>7. OrderedAlike(l, k)
    BY <1>2, <1>3, <1>5, <2>1, <2>4, <2>5, OrderLong
  <2> QED
    BY <1>2, <2>6, <2>7
<1> QED
  BY <1>3, <1>4, <1>5

\* No two numbers have the same text.
LEMMA DigitsInjective ==
  ASSUME NEW m \in Nat, NEW n \in Nat, Digits[m] = Digits[n]
  PROVE  m = n
<1>1. SameWidth(m, n) /\ SameWidth(n, m)
  BY DEF SameWidth
<1>2. OrderedAlike(m, n) /\ OrderedAlike(n, m)
  BY <1>1, SameWidthOrder
<1>3. Digits[m] \in Seq(0..9)
  BY DigitsType
<1>4. TextLeq(Digits[m], Digits[n]) /\ TextLeq(Digits[n], Digits[m])
  BY <1>3, TextReflexive
<1> QED
  BY <1>2, <1>4 DEF OrderedAlike

-----------------------------------------------------------------------------
\* BETWEEN a number and itself lets that number through and no other, whatever
\* the widths (NumberBetween; shadow_logs_query.rs).
THEOREM OneNumber ==
  ASSUME NEW n \in Nat, NEW k \in Nat
  PROVE  NumberBetween(n, k, k) <=> n = k
<1>1. Digits[n] \in Seq(0..9) /\ Digits[k] \in Seq(0..9)
  BY DigitsType
<1>2. NumberBetween(n, k, k) => Digits[n] = Digits[k]
  BY <1>1, TextAntisymmetric DEF NumberBetween
<1>3. NumberBetween(k, k, k)
  BY <1>1, TextReflexive DEF NumberBetween
<1> QED
  BY <1>2, <1>3, DigitsInjective

\* BETWEEN two bounds of a number's own width is the range of numbers.
THEOREM SameWidthRange ==
  ASSUME NEW n \in Nat, NEW from \in Nat, NEW to \in Nat,
         SameWidth(n, from), SameWidth(n, to)
  PROVE  NumberBetween(n, from, to) <=> n \in from..to
<1>1. SameWidth(from, n)
  BY DEF SameWidth
<1>2. OrderedAlike(from, n) /\ OrderedAlike(n, to)
  BY <1>1, SameWidthOrder
<1> QED
  BY <1>2 DEF OrderedAlike, NumberBetween
=============================================================================
