---- MODULE MarketParserProofs ----
(***************************************************************************)
(* What MarketParser makes of numbers, levels and changes of any size.     *)
(***************************************************************************)
EXTENDS MarketParser, FiniteSetTheorems, SequenceTheorems, NaturalsInduction, WellFoundedInduction, TLAPS

-----------------------------------------------------------------------------
(* Recursion.                                                              *)

\* A set of numbers that is not empty has a least element.
LEMMA FirstOf ==
  ASSUME NEW T, T \subseteq Nat, T # {}
  PROVE  \E k \in T : \A j \in T : k <= j
<1> DEFINE R == {ss \in Nat \X Nat : ss[1] < ss[2]}
<1>1. IsWellFoundedOn(R, Nat)
  BY NatLessThanWellFounded DEF OpToRel
<1> HIDE DEF R
<1>2. PICK x \in T : \A y \in T : ~(<<y, x>> \in R)
  BY <1>1, WFMin, Zenon
<1>3. ASSUME NEW y \in T PROVE x <= y
  <2>1. <<y, x>> \in Nat \X Nat /\ ~(y < x)
    BY <1>2 DEF R
  <2> QED
    BY <2>1
<1> QED
  BY <1>3

\* A property of 0 that each number up to n passes on holds up to n; T is the
\* set of the numbers that have it.
LEMMA UpTo ==
  ASSUME NEW n \in Nat, NEW T, 0 \in T, \A i \in 1 .. n : i - 1 \in T => i \in T
  PROVE  \A i \in 0 .. n : i \in T
<1> DEFINE U == {i \in 0 .. n : i \notin T}
<1>1. SUFFICES ASSUME U # {} PROVE FALSE
  OBVIOUS
<1>2. U \subseteq Nat
  OBVIOUS
<1>3. PICK k \in U : \A j \in U : k <= j
  BY <1>1, <1>2, FirstOf
<1>4. k \in 1 .. n /\ k - 1 \in 0 .. n /\ k - 1 \notin U
  BY <1>3
<1> QED
  BY <1>3, <1>4

\* The sequence of values that starts with a and goes on with F.
Iterates(g, a, F, n) == g[0] = a /\ \A i \in 1 .. n : g[i] = F[g[i - 1]][i]

\* There is such a sequence.
LEMMA Iteration ==
  ASSUME NEW D, NEW a \in D, NEW n \in Nat, NEW F \in [D -> [1 .. n -> D]]
  PROVE  \E g \in [0 .. n -> D] : Iterates(g, a, F, n)
<1> DEFINE Good(g, k) == g[0] = a /\ \A i \in 1 .. k : g[i] = F[g[i - 1]][i]
           T == {k \in 0 .. n : \E g \in [0 .. k -> D] : Good(g, k)}
<1>1. 0 \in T
  <2> DEFINE g == [i \in 0 .. 0 |-> a]
  <2>1. g \in [0 .. 0 -> D] /\ Good(g, 0)
    OBVIOUS
  <2> HIDE DEF g
  <2> QED
    BY <2>1
<1>2. ASSUME NEW k \in 1 .. n, k - 1 \in T PROVE k \in T
  <2>1. PICK g \in [0 .. k - 1 -> D] : Good(g, k - 1)
    BY <1>2
  <2> DEFINE v == F[g[k - 1]][k]
             h == [i \in 0 .. k |-> IF i = k THEN v ELSE g[i]]
  <2>2. g[k - 1] \in D
    OBVIOUS
  <2>3. v \in D
    BY <2>2
  <2>4. h \in [0 .. k -> D]
    BY <2>3
  <2>5. h[0] = a /\ h[k] = v /\ \A i \in 0 .. k - 1 : h[i] = g[i]
    BY <2>1
  <2>6. ASSUME NEW i \in 1 .. k PROVE h[i] = F[h[i - 1]][i]
    <3>1. CASE i = k
      <4>1. h[k - 1] = g[k - 1]
        BY <2>5
      <4> QED
        BY <2>5, <3>1, <4>1
    <3>2. CASE i # k
      <4>1. i \in 1 .. k - 1 /\ i - 1 \in 0 .. k - 1 /\ i \in 0 .. k - 1
        BY <3>2
      <4> QED
        BY <2>1, <2>5, <4>1
    <3> QED
      BY <3>1, <3>2
  <2> HIDE DEF h
  <2>7. Good(h, k)
    BY <2>5, <2>6
  <2>8. \E x \in [0 .. k -> D] : Good(x, k)
    <3> HIDE DEF Good
    <3> QED
      BY <2>4, <2>7, Zenon
  <2>9. k \in 0 .. n
    OBVIOUS
  <2> HIDE DEF Good
  <2> QED
    BY <2>8, <2>9, Zenon
<1>3. n \in T
  <2> HIDE DEF T
  <2>1. \A i \in 0 .. n : i \in T
    BY ONLY n \in Nat, <1>1, <1>2, UpTo
  <2> QED
    BY <2>1
<1>4. PICK g \in [0 .. n -> D] : Good(g, n)
  BY <1>3
<1>5. Iterates(g, a, F, n)
  BY <1>4 DEF Iterates
<1> QED
  BY <1>5, Zenon

-----------------------------------------------------------------------------
(* Numbers.                                                                *)

\* The digits of a text that has no other characters.
LEMMA DigitFacts ==
  ASSUME NEW S, NEW frac \in Seq(S), AllDigits(frac), NEW i \in Nat \ {0}
  PROVE  Digit(frac, i) \in 0 .. 9
BY DEF Digit, AllDigits

\* The values of the loop that scales a number.
ScaledBy(v, whole, frac, n) ==
  /\ v[0] = whole /\ \A i \in 1 .. n : v[i] = 10 * v[i - 1] + Digit(frac, i)
  /\ Scaled(whole, frac, n) = v[n]

\* There are such values.
LEMMA ScaledValues ==
  ASSUME NEW whole \in Nat, NEW frac, NEW n \in Nat, \A i \in 1 .. n : Digit(frac, i) \in 0 .. 9
  PROVE  \E v \in [0 .. n -> Nat] : ScaledBy(v, whole, frac, n)
<1> DEFINE F == [y \in Nat |-> [i \in 1 .. n |-> 10 * y + Digit(frac, i)]]
           step(f) == [i \in 0 .. n |-> IF i = 0 THEN whole ELSE 10 * f[i - 1] + Digit(frac, i)]
           value == CHOOSE f : f = step(f)
<1>1. F \in [Nat -> [1 .. n -> Nat]]
  OBVIOUS
<1>2. \A y \in Nat, i \in 1 .. n : F[y][i] = 10 * y + Digit(frac, i)
  OBVIOUS
<1> HIDE DEF F
<1>a. PICK g \in [0 .. n -> Nat] : Iterates(g, whole, F, n)
  BY <1>1, Iteration, Zenon
<1>3. g[0] = whole /\ \A i \in 1 .. n : g[i] = F[g[i - 1]][i]
  BY <1>a DEF Iterates
<1>4. ASSUME NEW i \in 1 .. n PROVE g[i] = 10 * g[i - 1] + Digit(frac, i)
  <2>1. g[i - 1] \in Nat /\ g[i] = F[g[i - 1]][i]
    BY <1>3
  <2> QED
    BY <1>2, <2>1, Zenon
<1>5. g = step(g)
  BY <1>3, <1>4
<1>6. value = step(value)
  BY <1>5
<1>7. Scaled(whole, frac, n) = value[n]
  BY DEF Scaled
<1> HIDE DEF value
<1>8. DOMAIN value = 0 .. n /\ value[0] = whole
  BY <1>6
<1>9. \A i \in 1 .. n : value[i] = 10 * value[i - 1] + Digit(frac, i)
  BY <1>6
<1>10. \A i \in 0 .. n : value[i] = g[i]
  <2> DEFINE T == {i \in 0 .. n : value[i] = g[i]}
  <2>1. 0 \in T
    BY <1>3, <1>8
  <2>2. ASSUME NEW i \in 1 .. n, i - 1 \in T PROVE i \in T
    BY <1>4, <1>9, <2>2
  <2> HIDE DEF T
  <2>3. \A i \in 0 .. n : i \in T
    BY <2>1, <2>2, UpTo
  <2> QED
    BY <2>3 DEF T
<1>11. ScaledBy(g, whole, frac, n)
  BY <1>3, <1>4, <1>7, <1>10 DEF ScaledBy
<1> QED
  BY <1>11, Zenon

\* One more decimal.
LEMMA ScaledStep ==
  ASSUME NEW whole \in Nat, NEW frac, \A i \in Nat \ {0} : Digit(frac, i) \in 0 .. 9
  PROVE  /\ Scaled(whole, frac, 0) = whole
         /\ \A n \in Nat : Scaled(whole, frac, n) \in Nat
         /\ \A n \in Nat \ {0} :
              Scaled(whole, frac, n) = 10 * Scaled(whole, frac, n - 1) + Digit(frac, n)
<1>1. ASSUME NEW n \in Nat
      PROVE  \E v \in [0 .. n -> Nat] : ScaledBy(v, whole, frac, n)
  <2>1. \A i \in 1 .. n : Digit(frac, i) \in 0 .. 9
    OBVIOUS
  <2> QED
    BY <2>1, ScaledValues, Zenon
<1>2. ASSUME NEW n \in Nat \ {0}
      PROVE  Scaled(whole, frac, n) = 10 * Scaled(whole, frac, n - 1) + Digit(frac, n)
  <2> DEFINE m == n - 1
  <2>1. m \in Nat /\ n = m + 1
    OBVIOUS
  <2> HIDE DEF m
  <2>a. PICK v \in [0 .. n -> Nat] : ScaledBy(v, whole, frac, n)
    BY <1>1, n \in Nat, Zenon
  <2>b. PICK u \in [0 .. m -> Nat] : ScaledBy(u, whole, frac, m)
    BY <1>1, <2>1, Zenon
  <2>2. /\ v[0] = whole /\ \A i \in 1 .. n : v[i] = 10 * v[i - 1] + Digit(frac, i)
        /\ Scaled(whole, frac, n) = v[n]
    BY <2>a DEF ScaledBy
  <2>3. /\ u[0] = whole /\ \A i \in 1 .. m : u[i] = 10 * u[i - 1] + Digit(frac, i)
        /\ Scaled(whole, frac, m) = u[m]
    BY <2>b DEF ScaledBy
  <2> DEFINE T == {i \in 0 .. m : u[i] = v[i]}
  <2>4. 0 \in T
    BY <2>1, <2>2, <2>3
  <2>5. ASSUME NEW i \in 1 .. m, i - 1 \in T PROVE i \in T
    BY <2>1, <2>2, <2>3, <2>5
  <2> HIDE DEF T
  <2>6. m \in T
    <3>1. \A i \in 0 .. m : i \in T
      BY ONLY <2>1, <2>4, <2>5, UpTo
    <3> QED
      BY <2>1, <3>1
  <2>7. u[m] = v[m]
    BY <2>6 DEF T
  <2>8. v[n] = 10 * v[m] + Digit(frac, n)
    BY <2>1, <2>2
  <2> QED
    BY <2>2, <2>3, <2>7, <2>8 DEF m
<1>3. Scaled(whole, frac, 0) = whole
  <2>1. 0 \in Nat
    OBVIOUS
  <2>2. PICK v \in [0 .. 0 -> Nat] : ScaledBy(v, whole, frac, 0)
    BY <1>1, <2>1, Zenon
  <2> QED
    BY <2>2 DEF ScaledBy
<1>4. ASSUME NEW n \in Nat PROVE Scaled(whole, frac, n) \in Nat
  <2>1. PICK v \in [0 .. n -> Nat] : ScaledBy(v, whole, frac, n)
    BY <1>1, Zenon
  <2>2. v[n] \in Nat /\ Scaled(whole, frac, n) = v[n]
    BY <2>1 DEF ScaledBy
  <2> QED
    BY <2>2
<1> QED
  BY <1>2, <1>3, <1>4

\* A scaled number is 0 only if none of its digits is kept.
LEMMA ScaledZero ==
  ASSUME NEW w \in Nat, NEW frac, \A i \in Nat \ {0} : Digit(frac, i) \in 0 .. 9, NEW n \in Nat
  PROVE  Scaled(w, frac, n) = 0 <=> w = 0 /\ \A i \in 1 .. n : Digit(frac, i) = 0
<1> DEFINE S(j) == Scaled(w, frac, j)
           d(i) == Digit(frac, i)
           Same(j) == S(j) = 0 <=> w = 0 /\ \A i \in 1 .. j : d(i) = 0
           T == {j \in 0 .. n : Same(j)}
<1>1. \A i \in Nat \ {0} : d(i) \in 0 .. 9
  OBVIOUS
<1>2. /\ S(0) = w /\ \A j \in Nat : S(j) \in Nat
      /\ \A j \in Nat \ {0} : S(j) = 10 * S(j - 1) + d(j)
  BY ScaledStep
<1> HIDE DEF S, d
<1>3. 0 \in T
  BY <1>2
<1>4. ASSUME NEW j \in 1 .. n, j - 1 \in T PROVE j \in T
  <2>1. j \in 0 .. n /\ j \in Nat \ {0} /\ j - 1 \in Nat
    OBVIOUS
  <2>2. S(j) = 10 * S(j - 1) + d(j) /\ S(j - 1) \in Nat /\ d(j) \in 0 .. 9
    BY <1>1, <1>2, <2>1
  <2>3. S(j) = 0 <=> S(j - 1) = 0 /\ d(j) = 0
    BY <2>2
  <2>4. 1 .. j = (1 .. j - 1) \cup {j}
    BY <2>1
  <2>5. (\A i \in 1 .. j : d(i) = 0) <=> (\A i \in 1 .. j - 1 : d(i) = 0) /\ d(j) = 0
    BY <2>4
  <2>6. Same(j - 1)
    BY <1>4
  <2>7. Same(j)
    BY <2>3, <2>5, <2>6
  <2> HIDE DEF Same
  <2> QED
    BY <2>1, <2>7
<1>5. n \in T
  <2> HIDE DEF T
  <2>1. \A j \in 0 .. n : j \in T
    BY <1>3, <1>4, UpTo
  <2> QED
    BY <2>1
<1> QED
  BY <1>5 DEF S, d

\* A decimal price is its cents, rounded at the third decimal.
LEMMA PriceOfDecimals ==
  ASSUME NEW text, text.dot, text.frac # <<>>, AllDigits(text.frac), WholePart(text) # Reject
  PROVE  parse_price_cents(text)
           = (WholePart(text) * 100 + 10 * Digit(text.frac, 1) + Digit(text.frac, 2)
                + (IF Digit(text.frac, 3) >= 5 THEN 1 ELSE 0)) % WordRange
BY DEF parse_price_cents

\* A scaled number is at least the number.
LEMMA ScaledAbove ==
  ASSUME NEW w \in Nat, NEW frac, \A i \in Nat \ {0} : Digit(frac, i) \in 0 .. 9, NEW n \in Nat
  PROVE  Scaled(w, frac, n) >= w
<1> DEFINE S(j) == Scaled(w, frac, j)
           T == {j \in 0 .. n : S(j) >= w}
<1>1. /\ S(0) = w /\ \A j \in Nat : S(j) \in Nat
      /\ \A j \in Nat \ {0} : S(j) = 10 * S(j - 1) + Digit(frac, j)
  BY ScaledStep
<1> HIDE DEF S
<1>2. 0 \in T
  BY <1>1
<1>3. ASSUME NEW j \in 1 .. n, j - 1 \in T PROVE j \in T
  <2>1. j \in Nat \ {0} /\ j - 1 \in Nat /\ j \in 0 .. n
    BY <1>3
  <2>5. Digit(frac, j) \in 0 .. 9
    BY <2>1
  <2>2. S(j) = 10 * S(j - 1) + Digit(frac, j) /\ S(j - 1) \in Nat /\ Digit(frac, j) \in Nat
    BY ONLY <1>1, <2>1, <2>5
  <2>3. S(j - 1) >= w
    BY <1>3
  <2>4. S(j) >= w
    BY ONLY <2>2, <2>3, w \in Nat
  <2> QED
    BY <2>1, <2>4
<1> HIDE DEF T
<1>4. \A i \in 0 .. n : i \in T
  BY ONLY <1>2, <1>3, n \in Nat, UpTo
<1>5. n \in T
  BY <1>4
<1> QED
  BY <1>5 DEF S, T

\* An integer is kept if it fits.
LEMMA IntegerTexts ==
  ASSUME NEW text, ~text.dot, NEW n \in Int, text.int = n
  PROVE  /\ n \in 0 .. WordRange - 1 => parse_size_u32(text) = n /\ parse_price_cents(text) = n
         /\ n < 0 => parse_price_cents(text) = Reject
BY DEF parse_size_u32, parse_price_cents, parse_u32, Reject

-----------------------------------------------------------------------------
(* Arrays.                                                                 *)

\* What has been put together after each element of ss.
FlatBy(g, ss, n) ==
  /\ g[0] = <<>> /\ \A i \in 1 .. n : g[i] = g[i - 1] \o ss[i]
  /\ FlattenSeq(ss) = g[n]

\* There are such sequences.
LEMMA FlattenValues ==
  ASSUME NEW S, NEW n \in Nat, NEW ss \in [1 .. n -> Seq(S)]
  PROVE  \E g \in [0 .. n -> Seq(S)] : FlatBy(g, ss, n)
<1> DEFINE F == [y \in Seq(S) |-> [i \in 1 .. n |-> y \o ss[i]]]
           step(f) == [i \in 1 .. n |-> IF i = 1 THEN ss[i] ELSE f[i - 1] \o ss[i]]
           flatten == CHOOSE f : f = step(f)
<1>1. \A y \in Seq(S), i \in 1 .. n : y \o ss[i] \in Seq(S)
  OBVIOUS
<1>2. /\ F \in [Seq(S) -> [1 .. n -> Seq(S)]]
      /\ \A y \in Seq(S), i \in 1 .. n : F[y][i] = y \o ss[i]
  BY <1>1
<1>3. <<>> \in Seq(S)
  OBVIOUS
<1> HIDE DEF F
<1>4. PICK g \in [0 .. n -> Seq(S)] : Iterates(g, <<>>, F, n)
  BY <1>2, <1>3, Iteration, Zenon
<1>5. ASSUME NEW i \in 1 .. n PROVE g[i] = g[i - 1] \o ss[i]
  <2>1. i - 1 \in 0 .. n
    OBVIOUS
  <2>2. g[i - 1] \in Seq(S)
    BY <2>1, Zenon
  <2>3. g[i] = F[g[i - 1]][i]
    BY <1>4, Zenon DEF Iterates
  <2> QED
    BY <1>2, <2>2, <2>3, Zenon
<1>6. g[0] = <<>>
  BY <1>4 DEF Iterates
<1>7. Len(ss) = n
  OBVIOUS
<1>8. CASE n = 0
  <2>1. ss = <<>>
    BY <1>8
  <2>2. FlattenSeq(ss) = g[n]
    BY <1>6, <1>7, <1>8, <2>1 DEF FlattenSeq
  <2>3. FlatBy(g, ss, n)
    BY <1>5, <1>6, <2>2, Zenon DEF FlatBy
  <2> QED
    BY <2>3, Zenon
<1>9. CASE n # 0
  <2>1. 1 \in 1 .. n
    BY <1>9
  <2>2. g[1] = ss[1]
    <3>1. ss[1] \in Seq(S)
      BY <2>1, Zenon
    <3>2. g[1] = g[1 - 1] \o ss[1]
      BY <1>5, <2>1, Zenon
    <3>3. g[1 - 1] = <<>>
      BY <1>6
    <3>4. <<>> \o ss[1] = ss[1]
      BY <3>1, ConcatEmptySeq
    <3> QED
      BY <3>2, <3>3, <3>4, Zenon
  <2> DEFINE h == [i \in 1 .. n |-> g[i]]
  <2>3. h = step(h)
    <3>1. ASSUME NEW i \in 1 .. n
          PROVE  g[i] = IF i = 1 THEN ss[i] ELSE h[i - 1] \o ss[i]
      <4>1. CASE i = 1
        BY <2>2, <4>1
      <4>2. CASE i # 1
        <5>1. i - 1 \in 1 .. n
          BY <4>2
        <5>2. h[i - 1] = g[i - 1]
          BY <5>1
        <5> HIDE DEF h
        <5> QED
          BY <1>5, <4>2, <5>2
      <4> QED
        BY <4>1, <4>2
    <3> QED
      BY <3>1, Zenon
  <2>4. flatten = step(flatten)
    <3>1. \E f : f = step(f)
      BY <2>3, Zenon
    <3> QED
      BY ONLY <3>1
  <2>5. FlattenSeq(ss) = flatten[n]
    BY <1>7, <1>9 DEF FlattenSeq
  <2> HIDE DEF flatten
  <2> DEFINE T == {i \in 0 .. n : i = 0 \/ flatten[i] = g[i]}
  <2>6. ASSUME NEW i \in 1 .. n, i - 1 \in T PROVE i \in T
    <3>1. flatten[i] = IF i = 1 THEN ss[i] ELSE flatten[i - 1] \o ss[i]
      BY <2>4
    <3>2. CASE i = 1
      <4>1. flatten[i] = g[i]
        BY <2>2, <3>1, <3>2
      <4>2. i \in 0 .. n
        OBVIOUS
      <4> QED
        BY <4>1, <4>2
    <3>3. CASE i # 1
      <4>1. flatten[i - 1] = g[i - 1]
        BY <2>6, <3>3
      <4>2. flatten[i] = g[i]
        BY <1>5, <3>1, <3>3, <4>1
      <4>3. i \in 0 .. n
        OBVIOUS
      <4> QED
        BY <4>2, <4>3
    <3> QED
      BY <3>2, <3>3
  <2>7. 0 \in T
    OBVIOUS
  <2>8. flatten[n] = g[n]
    <3>1. \A i \in 0 .. n : i \in T
      <4> HIDE DEF T
      <4> QED
        BY <2>6, <2>7, UpTo
    <3> QED
      BY <1>9, <3>1
  <2>9. FlatBy(g, ss, n)
    BY <1>5, <1>6, <2>5, <2>8, Zenon DEF FlatBy
  <2> QED
    BY <2>9, Zenon
<1> QED
  BY <1>8, <1>9

\* What sequences of elements of S make together is one.
LEMMA FlattenType ==
  ASSUME NEW S, NEW n \in Nat, NEW ss \in [1 .. n -> Seq(S)]
  PROVE  FlattenSeq(ss) \in Seq(S)
<1>1. PICK g \in [0 .. n -> Seq(S)] : FlatBy(g, ss, n)
  BY FlattenValues, Zenon
<1>2. g[n] \in Seq(S)
  OBVIOUS
<1> QED
  BY <1>1, <1>2 DEF FlatBy

\* The elements of a sequence.
Elements(s) == {s[i] : i \in DOMAIN s}

\* Those of two sequences, one after the other.
LEMMA ConcatElements ==
  ASSUME NEW S, NEW x \in Seq(S), NEW y \in Seq(S)
  PROVE  Elements(x \o y) = Elements(x) \cup Elements(y)
<1> DEFINE c == x \o y
           m == Len(x)
           n == Len(y)
<1>1. m \in Nat /\ n \in Nat /\ DOMAIN x = 1 .. m /\ DOMAIN y = 1 .. n
  OBVIOUS
<1>2. /\ DOMAIN c = 1 .. m + n
      /\ \A i \in 1 .. m + n : c[i] = IF i <= m THEN x[i] ELSE y[i - m]
  <2>1. /\ c \in Seq(S) /\ Len(c) = m + n
        /\ \A i \in 1 .. m + n : c[i] = IF i <= m THEN x[i] ELSE y[i - m]
    BY ConcatProperties
  <2> HIDE DEF c, m, n
  <2> QED
    BY <2>1
<1> HIDE DEF c, m, n
<1>3. ASSUME NEW i \in 1 .. m + n PROVE c[i] \in Elements(x) \cup Elements(y)
  <2>1. CASE i <= m
    <3>1. i \in 1 .. m /\ c[i] = x[i]
      BY ONLY <1>1, <1>2, <1>3, <2>1
    <3> QED
      BY <1>1, <3>1 DEF Elements
  <2>2. CASE ~(i <= m)
    <3>1. i - m \in 1 .. n /\ c[i] = y[i - m]
      BY ONLY <1>1, <1>2, <1>3, <2>2
    <3> QED
      BY <1>1, <3>1 DEF Elements
  <2> QED
    BY <2>1, <2>2
<1>4. ASSUME NEW i \in 1 .. m PROVE x[i] \in Elements(c)
  <2>1. i \in 1 .. m + n /\ i <= m
    BY ONLY <1>1, <1>4
  <2>2. c[i] = x[i]
    BY ONLY <1>2, <2>1
  <2> QED
    BY <1>2, <2>1, <2>2 DEF Elements
<1>5. ASSUME NEW i \in 1 .. n PROVE y[i] \in Elements(c)
  <2>1. m + i \in 1 .. m + n /\ ~(m + i <= m) /\ (m + i) - m = i
    BY ONLY <1>1, <1>5
  <2>2. c[m + i] = y[i]
    BY ONLY <1>2, <2>1
  <2> QED
    BY <1>2, <2>1, <2>2 DEF Elements
<1>6. Elements(c) = Elements(x) \cup Elements(y)
  BY <1>1, <1>2, <1>3, <1>4, <1>5 DEF Elements
<1> QED
  BY <1>6 DEF c

\* Those of any number of sequences put together.
LEMMA FlattenElements ==
  ASSUME NEW S, NEW n \in Nat, NEW ss \in [1 .. n -> Seq(S)]
  PROVE  \A x : x \in Elements(FlattenSeq(ss)) <=> \E k \in 1 .. n : x \in Elements(ss[k])
<1>1. PICK g \in [0 .. n -> Seq(S)] : FlatBy(g, ss, n)
  BY FlattenValues, Zenon
<1> DEFINE Holds(k) == \A x : x \in Elements(g[k]) <=> \E j \in 1 .. k : x \in Elements(ss[j])
           T == {k \in 0 .. n : Holds(k)}
<1>2. 0 \in T
  <2>1. Elements(g[0]) = {}
    BY <1>1 DEF FlatBy, Elements
  <2> QED
    BY <2>1
<1>3. ASSUME NEW k \in 1 .. n, k - 1 \in T PROVE k \in T
  <2>1. Holds(k - 1)
    BY <1>3
  <2>2. g[k - 1] \in Seq(S) /\ ss[k] \in Seq(S) /\ g[k] = g[k - 1] \o ss[k]
    BY <1>1, <1>3 DEF FlatBy
  <2>3. Elements(g[k]) = Elements(g[k - 1]) \cup Elements(ss[k])
    BY <2>2, ConcatElements
  <2>4. \A j : j \in 1 .. k <=> j \in 1 .. k - 1 \/ j = k
    BY <1>3
  <2>5. Holds(k)
    BY ONLY <2>1, <2>3, <2>4
  <2>6. k \in 0 .. n
    BY <1>3
  <2> QED
    BY <2>5, <2>6
<1> HIDE DEF T
<1>4. \A i \in 0 .. n : i \in T
  BY ONLY <1>2, <1>3, n \in Nat, UpTo
<1>5. n \in T
  BY <1>4
<1>6. Holds(n)
  BY <1>5 DEF T
<1> QED
  BY <1>1, <1>6 DEF FlatBy

\* An array whose elements all have the right structure.
LEMMA GoodArray ==
  ASSUME NEW field, field.status = "array", NEW n \in Nat, NEW S,
         field.elements \in [1 .. n -> S],
         \A i \in 1 .. n : ~Stops(field.elements[i]),
         NEW T, NEW emitted \in [1 .. n -> T]
  PROVE  ParseArray(field, emitted) = [status |-> "ok", ticks |-> FlattenSeq(emitted)]
<1>1. Len(field.elements) = n
  <2> DEFINE e == field.elements
  <2>1. e \in [1 .. n -> S]
    OBVIOUS
  <2> HIDE DEF e
  <2>2. Len(e) = n
    BY <2>1
  <2> QED
    BY <2>2 DEF e
<1>2. {i \in 1 .. n : Stops(field.elements[i])} = {}
  OBVIOUS
<1>3. SubSeq(emitted, 1, n) = emitted
  <2>1. emitted \in Seq(T) /\ Len(emitted) = n
    OBVIOUS
  <2> QED
    BY <2>1
<1> QED
  BY <1>1, <1>2, <1>3 DEF ParseArray

\* An array of one element.
LEMMA FlattenOne ==
  ASSUME NEW s, NEW S, s \in S, NEW ss \in [1 .. 1 -> S], ss[1] = s
  PROVE  FlattenSeq(ss) = s
<1> DEFINE step(f) == [i \in 1 .. 1 |-> IF i = 1 THEN ss[i] ELSE f[i - 1] \o ss[i]]
           g == [i \in 1 .. 1 |-> s]
           flatten == CHOOSE f : f = step(f)
<1>1. Len(ss) = 1
  OBVIOUS
<1>2. g = step(g)
  <2>1. \A i \in 1 .. 1 : i = 1
    OBVIOUS
  <2> QED
    BY <2>1
<1>3. flatten = step(flatten)
  BY <1>2
<1>4. FlattenSeq(ss) = flatten[1]
  BY <1>1 DEF FlattenSeq
<1> HIDE DEF flatten
<1> QED
  BY <1>3, <1>4

\* The ticks of a change: its own, then those of its hints.
LEMMA OwnTickFirst ==
  ASSUME NEW S, NEW own \in S, NEW h1 \in Seq(S), NEW h2 \in Seq(S), NEW H,
         \A i \in DOMAIN h1 : h1[i] \in H, \A i \in DOMAIN h2 : h2[i] \in H,
         NEW c, c = <<own>> \o h1 \o h2
  PROVE  /\ c \in Seq(S) /\ Len(c) >= 1 /\ c[1] = own
         /\ \A i \in 2 .. Len(c) : c[i] \in H
<1> DEFINE x == <<own>>
           y == x \o h1
<1>1. x \in Seq(S) /\ Len(x) = 1 /\ x[1] = own
  OBVIOUS
<1> HIDE DEF x
<1>2. /\ y \in Seq(S) /\ Len(y) = Len(x) + Len(h1)
      /\ \A i \in 1 .. Len(x) + Len(h1) : y[i] = IF i <= Len(x) THEN x[i] ELSE h1[i - Len(x)]
  BY <1>1, ConcatProperties
<1> HIDE DEF y
<1>3. c = y \o h2
  BY DEF x, y
<1>4. /\ c \in Seq(S) /\ Len(c) = Len(y) + Len(h2)
      /\ \A i \in 1 .. Len(y) + Len(h2) : c[i] = IF i <= Len(y) THEN y[i] ELSE h2[i - Len(y)]
  <2>1. y \in Seq(S) /\ h2 \in Seq(S)
    BY <1>2
  <2> QED
    BY ONLY <1>3, <2>1, ConcatProperties
<1> DEFINE n == Len(h1)
           m == Len(h2)
<1>5. n \in Nat /\ m \in Nat /\ DOMAIN h1 = 1 .. n /\ DOMAIN h2 = 1 .. m
  OBVIOUS
<1> HIDE DEF n, m
<1>6. Len(y) = 1 + n /\ Len(c) = 1 + n + m
  BY <1>1, <1>2, <1>4, <1>5 DEF n, m
<1>7. c[1] = own /\ Len(c) >= 1
  <2>1. c[1] = y[1]
    BY <1>4, <1>5, <1>6 DEF m
  <2>2. y[1] = x[1]
    BY <1>1, <1>2, <1>5 DEF n
  <2> QED
    BY <1>1, <1>5, <1>6, <2>1, <2>2
<1>8. ASSUME NEW i \in 2 .. Len(c) PROVE c[i] \in H
  <2>1. CASE i <= 1 + n
    <3>1. c[i] = y[i] /\ y[i] = h1[i - 1] /\ i - 1 \in 1 .. n
      BY <1>1, <1>2, <1>4, <1>5, <1>6, <1>8, <2>1 DEF n, m
    <3> QED
      BY <1>5, <3>1
  <2>2. CASE ~(i <= 1 + n)
    <3>1. c[i] = h2[i - (1 + n)] /\ i - (1 + n) \in 1 .. m
      BY <1>4, <1>5, <1>6, <1>8, <2>2 DEF n, m
    <3> QED
      BY <1>5, <3>1
  <2> QED
    BY <2>1, <2>2
<1> QED
  BY <1>4, <1>7, <1>8

====
