---- MODULE ParserInputsProofs ----
(***************************************************************************)
(* Proofs about ParserInputs for texts with any number of decimals and     *)
(* documents with any number of messages, levels and changes.              *)
(***************************************************************************)
EXTENDS ParserInputs, MarketParserProofs

-----------------------------------------------------------------------------
(* Numbers.                                                                *)

\* Quotients by a divisor that is not a literal.
LEMMA Quotient ==
  ASSUME NEW n \in Int, NEW d \in Nat \ {0}, NEW q \in Int, d * q <= n, n < d * q + d
  PROVE  n \div d = q
<1> DEFINE m == n \div d
           r == n % d
<1>1. m \in Int /\ r \in 0 .. d - 1 /\ n = d * m + r
  OBVIOUS
<1> HIDE DEF m, r
<1>2. ~(m <= q - 1)
  <2> SUFFICES ASSUME m <= q - 1 PROVE FALSE
    OBVIOUS
  <2>1. d * m <= d * (q - 1)
    BY <1>1
  <2>2. d * (q - 1) = d * q - d
    BY <1>1
  <2> QED
    BY <1>1, <2>1, <2>2
<1>3. ~(m >= q + 1)
  <2> SUFFICES ASSUME m >= q + 1 PROVE FALSE
    OBVIOUS
  <2>1. d * m >= d * (q + 1)
    BY <1>1
  <2>2. d * (q + 1) = d * q + d
    BY <1>1
  <2> QED
    BY <1>1, <2>1, <2>2
<1> QED
  BY <1>1, <1>2, <1>3 DEF m

\* Multiplying and distributing, for factors that are not literals.
LEMMA Products ==
  ASSUME NEW x \in Int, NEW y \in Int
  PROVE  /\ x * y \in Int /\ (10 * x) * y = 10 * (x * y)
         /\ x * (2 * y - 1) = 2 * (x * y) - x
         /\ x * (2 * y + 1) = 2 * (x * y) + x
         /\ (2 * x) * y = 2 * (x * y)
OBVIOUS

\* The nearest cent to a number with p decimals is settled by the third: the
\* others only move it between two bounds half a cent from that cent.
LEMMA NearestCent ==
  ASSUME NEW w \in Nat, NEW frac, \A i \in Nat \ {0} : Digit(frac, i) \in 0 .. 9,
         NEW p \in Nat, p >= 3, NEW c,
         c = 100 * w + 10 * Digit(frac, 1) + Digit(frac, 2)
               + (IF Digit(frac, 3) >= 5 THEN 1 ELSE 0)
  PROVE  /\ Scaled(w, frac, p) \in Nat /\ Scaled(1, <<>>, p - 2) \in Nat \ {0}
         /\ (2 * Scaled(w, frac, p) + Scaled(1, <<>>, p - 2)) \div (2 * Scaled(1, <<>>, p - 2)) = c
<1> DEFINE S(j) == Scaled(w, frac, j)
           C(j) == Scaled(1, <<>>, j)
           d(i) == Digit(frac, i)
<1>1. \A i \in Nat \ {0} : d(i) \in 0 .. 9
  OBVIOUS
<1>2. /\ S(0) = w /\ \A n \in Nat : S(n) \in Nat
      /\ \A n \in Nat \ {0} : S(n) = 10 * S(n - 1) + d(n)
  BY ScaledStep
<1>3. \A i \in Nat \ {0} : Digit(<<>>, i) = 0
  BY DEF Digit
<1>4. /\ C(0) = 1 /\ \A n \in Nat : C(n) \in Nat
      /\ \A n \in Nat \ {0} : C(n) = 10 * C(n - 1)
  <2>1. \A i \in Nat \ {0} : Digit(<<>>, i) \in 0 .. 9
    BY <1>3
  <2>2. /\ C(0) = 1 /\ \A n \in Nat : C(n) \in Nat
        /\ \A n \in Nat \ {0} : C(n) = 10 * C(n - 1) + Digit(<<>>, n)
    BY <2>1, 1 \in Nat, ScaledStep, Zenon
  <2> QED
    BY <1>3, <2>2
<1>5. c = 100 * w + 10 * d(1) + d(2) + (IF d(3) >= 5 THEN 1 ELSE 0)
  OBVIOUS
<1> HIDE DEF S, C, d
<1>6. d(1) \in 0 .. 9 /\ d(2) \in 0 .. 9 /\ d(3) \in 0 .. 9
  BY <1>1
<1>7. c \in Nat
  BY <1>5, <1>6
<1>8. S(3) = 1000 * w + 100 * d(1) + 10 * d(2) + d(3)
  <2>1. S(0) = w /\ S(1) = 10 * S(0) + d(1)
    BY <1>2
  <2>2. S(2) = 10 * S(1) + d(2)
    BY <1>2
  <2>3. S(3) = 10 * S(2) + d(3)
    BY <1>2
  <2> QED
    BY ONLY w \in Nat, <1>6, <2>1, <2>2, <2>3
<1>9. C(1) = 10
  BY <1>4
<1> DEFINE m == p - 3
           Between(j) == /\ C(j + 1) >= 1
                         /\ C(j + 1) * (2 * c - 1) <= 2 * S(j + 3)
                         /\ 2 * S(j + 3) + 2 <= C(j + 1) * (2 * c + 1)
           T == {j \in 0 .. m : Between(j)}
<1>10. m \in Nat /\ p = m + 3 /\ p - 2 = m + 1
  OBVIOUS
<1> HIDE DEF m
<1>11. 0 \in T
  <2>1. Between(0)
    BY <1>5, <1>6, <1>7, <1>8, <1>9
  <2> QED
    BY <1>10, <2>1
<1>12. ASSUME NEW j \in 1 .. m, j - 1 \in T PROVE j \in T
  <2>1. j \in Nat \ {0} /\ j \in 0 .. m /\ (j - 1) + 1 = j /\ (j - 1) + 3 = j + 2
    BY <1>10
  <2> DEFINE k == C(j)
             s == S(j + 2)
             lo == 2 * c - 1
             hi == 2 * c + 1
  <2>2. Between(j - 1)
    BY <1>12
  <2>3. k >= 1 /\ k * lo <= 2 * s /\ 2 * s + 2 <= k * hi
    BY <2>1, <2>2
  <2>4. C(j + 1) = 10 * k
    BY <1>4, <2>1
  <2>5. S(j + 3) = 10 * s + d(j + 3) /\ d(j + 3) \in 0 .. 9
    BY <1>1, <1>2, <2>1
  <2>6. k \in Nat /\ s \in Nat /\ lo \in Int /\ hi \in Int
    BY <1>2, <1>4, <1>7, <2>1
  <2> DEFINE a == k * lo
             b == k * hi
  <2>7. /\ a \in Int /\ b \in Int
        /\ (10 * k) * lo = 10 * a /\ (10 * k) * hi = 10 * b
    BY <2>6, Products
  <2> HIDE DEF k, s, lo, hi
  <2>8. a <= 2 * s /\ 2 * s + 2 <= b
    BY <2>3
  <2> HIDE DEF a, b
  <2>9. /\ C(j + 1) >= 1 /\ C(j + 1) * lo <= 2 * S(j + 3)
        /\ 2 * S(j + 3) + 2 <= C(j + 1) * hi
    BY <2>3, <2>4, <2>5, <2>6, <2>7, <2>8
  <2>10. Between(j)
    BY <2>9 DEF lo, hi
  <2> HIDE DEF Between
  <2> QED
    BY <2>1, <2>10
<1>13. Between(m)
  <2> HIDE DEF T
  <2>1. \A j \in 0 .. m : j \in T
    BY <1>10, <1>11, <1>12, UpTo
  <2>2. m \in T
    BY <1>10, <2>1
  <2> HIDE DEF Between
  <2> QED
    BY <2>2 DEF T
<1> DEFINE k == C(m + 1)
           s == S(m + 3)
           x == k * c
<1>14. k \in Nat \ {0} /\ s \in Nat
  BY <1>2, <1>4, <1>10, <1>13
<1>15. 2 * x - k <= 2 * s /\ 2 * s + 2 <= 2 * x + k
  <2>1. k * (2 * c - 1) <= 2 * s /\ 2 * s + 2 <= k * (2 * c + 1)
    BY <1>13
  <2>2. k \in Int /\ c \in Int
    BY <1>7, <1>14
  <2> HIDE DEF k, s
  <2>3. k * (2 * c - 1) = 2 * x - k /\ k * (2 * c + 1) = 2 * x + k
    BY <2>2, Products
  <2> QED
    BY <2>1, <2>3
<1> HIDE DEF k, s
<1>16. x \in Int /\ (2 * k) * c = 2 * x
  BY <1>7, <1>14, Products
<1> HIDE DEF x
<1>17. /\ 2 * k \in Nat \ {0} /\ 2 * s + k \in Int
       /\ (2 * k) * c <= 2 * s + k /\ 2 * s + k < (2 * k) * c + 2 * k
  BY <1>14, <1>15, <1>16
<1> DEFINE dd == 2 * k
           nn == 2 * s + k
<1>18. nn \div dd = c
  <2>1. dd \in Nat \ {0} /\ nn \in Int /\ c \in Int /\ dd * c <= nn /\ nn < dd * c + dd
    BY <1>7, <1>17
  <2> HIDE DEF dd, nn
  <2> QED
    BY ONLY <2>1, Quotient
<1> QED
  BY <1>10, <1>14, <1>18 DEF S, C, k, s

-----------------------------------------------------------------------------
(* Texts.                                                                  *)

\* A text is one with a dot or one without.
LEMMA TextCases ==
  ASSUME text \in NumberText
  PROVE  /\ text.int \in Nat \cup {Empty, Bad}
         /\ text.dot => text.frac \in Seq(0 .. 10)
         /\ ~text.dot => text.frac = <<>>
         /\ text.dot \in BOOLEAN
BY DEF NumberText

\* Every text is converted to the nearest cent.
LEMMA TextConverts ==
  ASSUME text \in NumberText
  PROVE  ConvertsToCents
<1> SUFFICES ASSUME NearestCents < WordRange PROVE parse_price_cents(text) = NearestCents
  BY DEF ConvertsToCents
<1> USE DEF Empty, Bad, Reject
<1>1. CASE ~text.dot
  <2>1. parse_price_cents(text) = parse_u32(text.int)
    BY <1>1 DEF parse_price_cents
  <2>2. CASE text.int \in Nat
    <3>1. NearestCents = text.int
      BY <1>1, <2>2 DEF NearestCents
    <3> QED
      BY <2>1, <2>2, <3>1, ParserAssumption DEF parse_u32
  <2>3. CASE text.int \in {Empty, Bad}
    BY <1>1, <2>1, <2>3 DEF NearestCents, parse_u32
  <2> QED
    BY <2>2, <2>3, TextCases
<1>2. CASE text.dot /\ ~IsDecimal
  <2>1. NearestCents = Reject
    BY <1>2 DEF NearestCents
  <2>2. CASE text.int = Bad
    BY <1>2, <2>1, <2>2 DEF parse_price_cents, WholePart, parse_u32
  <2>3. CASE text.frac = <<>> \/ ~AllDigits(text.frac)
    BY <1>2, <2>1, <2>3 DEF parse_price_cents
  <2> QED
    BY <1>2, <2>2, <2>3 DEF IsDecimal
<1>3. CASE text.dot /\ IsDecimal
  <2> DEFINE w == IF text.int = Empty THEN 0 ELSE text.int
             frac == text.frac
             c == 100 * w + 10 * Digit(frac, 1) + Digit(frac, 2)
                    + (IF Digit(frac, 3) >= 5 THEN 1 ELSE 0)
  <2>1. w \in Nat /\ frac \in Seq(0 .. 10) /\ AllDigits(frac) /\ frac # <<>>
    BY <1>3, TextCases DEF IsDecimal
  <2>2. \A i \in Nat \ {0} : Digit(frac, i) \in 0 .. 9
    BY <2>1, DigitFacts
  <2>3. Places \in Nat /\ Places >= 3
    BY <2>1 DEF Places
  <2>4. NearestCents = (2 * Scaled(w, frac, Places) + Scaled(1, <<>>, Places - 2))
                         \div (2 * Scaled(1, <<>>, Places - 2))
    BY <1>3 DEF NearestCents, Value, Cent
  <2>5. NearestCents = c
    <3> DEFINE v == w
               f == frac
               p == Places
               e == c
    <3>1. e = 100 * v + 10 * Digit(f, 1) + Digit(f, 2) + (IF Digit(f, 3) >= 5 THEN 1 ELSE 0)
      OBVIOUS
    <3>2. /\ v \in Nat /\ p \in Nat /\ p >= 3
          /\ \A i \in Nat \ {0} : Digit(f, i) \in 0 .. 9
      BY <2>1, <2>2, <2>3
    <3>3. NearestCents = (2 * Scaled(v, f, p) + Scaled(1, <<>>, p - 2))
                           \div (2 * Scaled(1, <<>>, p - 2))
      BY <2>4
    <3> HIDE DEF v, f, p, e
    <3>4. (2 * Scaled(v, f, p) + Scaled(1, <<>>, p - 2)) \div (2 * Scaled(1, <<>>, p - 2)) = e
      BY ONLY <3>1, <3>2, NearestCent
    <3>5. NearestCents = e
      BY <3>3, <3>4
    <3> QED
      BY <3>5 DEF e
  <2>6. Digit(frac, 1) \in 0 .. 9 /\ Digit(frac, 2) \in 0 .. 9 /\ Digit(frac, 3) \in 0 .. 9
    BY <2>2
  <2>7. c \in 0 .. WordRange - 1 /\ w \in 0 .. WordRange - 1
    <3> HIDE DEF w, frac
    <3>1. ASSUME NEW d1 \in 0 .. 9, NEW d2 \in 0 .. 9, NEW r \in {0, 1}
          PROVE  LET x == 100 * w + 10 * d1 + d2 + r IN x \in Nat /\ w <= x
      BY <2>1
    <3>2. (IF Digit(frac, 3) >= 5 THEN 1 ELSE 0) \in {0, 1}
      OBVIOUS
    <3>3. c \in Nat /\ w <= c
      BY ONLY <2>6, <3>1, <3>2, ZenonT(60)
    <3> HIDE DEF c
    <3> QED
      BY <2>1, <2>5, <3>3, ParserAssumption
  <2>8. WholePart(text) = w /\ w # Reject
    BY <2>7 DEF WholePart, parse_u32
  <2>9. parse_price_cents(text) = c % WordRange
    <3>1. parse_price_cents(text) = (w * 100 + 10 * Digit(frac, 1) + Digit(frac, 2)
                + (IF Digit(frac, 3) >= 5 THEN 1 ELSE 0)) % WordRange
      BY <1>3, <2>1, <2>8, PriceOfDecimals
    <3>2. w * 100 = 100 * w
      BY <2>1
    <3> QED
      BY <3>1, <3>2
  <2>10. c % WordRange = c
    <3> HIDE DEF c
    <3> QED
      BY <2>7, ParserAssumption
  <2> QED
    BY <2>5, <2>9, <2>10
<1>4. text.dot \in BOOLEAN
  BY TextCases
<1> QED
  BY ONLY <1>1, <1>2, <1>3, <1>4

\* No text's size is lost.
LEMMA TextSize ==
  ASSUME text \in NumberText
  PROVE  SizeNeverRemoves
<1> DEFINE size == parse_size_u32(text)
           frac == text.frac
           w == WholePart(text)
           zero == \A i \in 1 .. SizeDigits : Digit(frac, i) = 0
<1> SUFFICES ASSUME size # Reject
             PROVE  size = 0 <=> text.int \in {Empty, 0} /\ zero
  BY DEF SizeNeverRemoves
<1> USE DEF Empty, Bad, Reject
<1>1. CASE ~text.dot
  <2>1. size = text.int /\ text.int \in Nat
    BY <1>1 DEF parse_size_u32, parse_u32
  <2>2. zero
    BY <1>1, TextCases, ParserAssumption DEF Digit
  <2> QED
    BY <2>1, <2>2
<1>2. CASE text.dot
  <2>1. frac \in Seq(0 .. 10) /\ w # Reject /\ AllDigits(frac)
    BY <1>2, TextCases DEF parse_size_u32
  <2>2. w \in Nat /\ (w = 0 <=> text.int \in {Empty, 0})
    BY <2>1, TextCases DEF WholePart, parse_u32
  <2>3. \A i \in Nat \ {0} : Digit(frac, i) \in 0 .. 9
    BY <2>1, DigitFacts
  <2>4. CASE \A i \in DOMAIN frac : frac[i] = 0
    <3>1. size = w
      BY <1>2, <2>1, <2>4 DEF parse_size_u32
    <3>2. \A i \in 1 .. SizeDigits : Digit(frac, i) = 0
      <4> SUFFICES ASSUME NEW i \in 1 .. SizeDigits PROVE Digit(frac, i) = 0
        OBVIOUS
      <4> HIDE DEF frac
      <4>1. i \in Nat /\ (i <= Len(frac) => i \in DOMAIN frac)
        BY <2>1, ParserAssumption
      <4> QED
        BY <2>4, <4>1 DEF Digit
    <3> QED
      BY <2>2, <3>1, <3>2
  <2>5. CASE ~\A i \in DOMAIN frac : frac[i] = 0
    <3>1. size = Scaled(w, frac, SizeDigits)
      BY <1>2, <2>1, <2>5 DEF parse_size_u32
    <3>2. Scaled(w, frac, SizeDigits) = 0 <=> w = 0 /\ zero
      <4>1. SizeDigits \in Nat
        BY ParserAssumption
      <4>2. w \in Nat
        BY <2>2
      <4> HIDE DEF w, frac
      <4> QED
        BY ONLY <2>3, <4>1, <4>2, ScaledZero, Zenon
    <3> QED
      BY <2>2, <3>1, <3>2
  <2> QED
    BY <2>4, <2>5
<1> QED
  BY <1>1, <1>2, TextCases

-----------------------------------------------------------------------------
(* Arrays.                                                                 *)

\* IsPrefix, element by element.
Begins(s, t) == Len(s) <= Len(t) /\ \A i \in 1 .. Len(s) : s[i] = t[i]

\* The two agree.
LEMMA BeginsIsPrefix ==
  ASSUME NEW S, NEW s \in Seq(S), NEW t \in Seq(S), Begins(s, t)
  PROVE  IsPrefix(s, t)
<1> DEFINE n == Len(s)
           a == SubSeq(s, 1, n)
           b == SubSeq(t, 1, n)
<1>1. n \in Nat /\ n <= Len(t) /\ \A i \in 1 .. n : s[i] = t[i]
  BY DEF Begins
<1>2. a = [i \in 1 .. n |-> s[i]] /\ b = [i \in 1 .. n |-> t[i]]
  BY <1>1
<1>3. a = b
  BY <1>1, <1>2
<1> QED
  BY <1>1, <1>3 DEF IsPrefix

\* A sequence begins itself.
LEMMA BeginsSelf ==
  ASSUME NEW S, NEW s \in Seq(S)
  PROVE  Begins(s, s)
BY DEF Begins

\* A sequence begins its continuations.
LEMMA BeginsConcat ==
  ASSUME NEW S, NEW s \in Seq(S), NEW t \in Seq(S)
  PROVE  s \o t \in Seq(S) /\ Begins(s, s \o t)
<1> DEFINE z == s \o t
<1>1. /\ z \in Seq(S) /\ Len(z) = Len(s) + Len(t)
      /\ \A i \in 1 .. Len(s) + Len(t) : z[i] = IF i <= Len(s) THEN s[i] ELSE t[i - Len(s)]
  BY ConcatProperties
<1>2. Len(s) \in Nat /\ Len(t) \in Nat
  OBVIOUS
<1> HIDE DEF z
<1>3. Begins(s, z)
  BY <1>1, <1>2 DEF Begins
<1> QED
  BY <1>1, <1>3 DEF z

\* A prefix of a prefix is one.
LEMMA BeginsTransitive ==
  ASSUME NEW S, NEW s \in Seq(S), NEW t \in Seq(S), NEW u \in Seq(S),
         Begins(s, t), Begins(t, u)
  PROVE  Begins(s, u)
<1>1. Len(s) \in Nat /\ Len(t) \in Nat /\ Len(u) \in Nat
  OBVIOUS
<1> QED
  BY <1>1 DEF Begins

\* Prefixes stay prefixes after a common beginning.
LEMMA BeginsAfter ==
  ASSUME NEW S, NEW s \in Seq(S), NEW t \in Seq(S), NEW u \in Seq(S), Begins(t, u)
  PROVE  Begins(s \o t, s \o u)
<1> DEFINE y == s \o t
           z == s \o u
<1>1. /\ Len(y) = Len(s) + Len(t)
      /\ \A i \in 1 .. Len(s) + Len(t) : y[i] = IF i <= Len(s) THEN s[i] ELSE t[i - Len(s)]
  BY ConcatProperties
<1>2. /\ Len(z) = Len(s) + Len(u)
      /\ \A i \in 1 .. Len(s) + Len(u) : z[i] = IF i <= Len(s) THEN s[i] ELSE u[i - Len(s)]
  BY ConcatProperties
<1>3. /\ Len(s) \in Nat /\ Len(t) \in Nat /\ Len(u) \in Nat
      /\ Len(t) <= Len(u) /\ \A i \in 1 .. Len(t) : t[i] = u[i]
  BY DEF Begins
<1> HIDE DEF y, z
<1>4. ASSUME NEW i \in 1 .. Len(s) + Len(t) PROVE y[i] = z[i]
  <2>1. i \in 1 .. Len(s) + Len(u)
    BY <1>3
  <2>2. CASE i <= Len(s)
    BY <1>1, <1>2, <2>1, <2>2
  <2>3. CASE ~(i <= Len(s))
    <3>1. i - Len(s) \in 1 .. Len(t)
      BY <1>3, <2>3
    <3> QED
      BY <1>1, <1>2, <1>3, <2>1, <2>3, <3>1
  <2> QED
    BY <2>2, <2>3
<1>5. Begins(y, z)
  BY <1>1, <1>2, <1>3, <1>4 DEF Begins
<1> QED
  BY <1>5 DEF y, z

\* The first k sequences make a prefix of what all of them make.
LEMMA FlattenPrefix ==
  ASSUME NEW S, NEW n \in Nat, NEW ss \in [1 .. n -> Seq(S)], NEW k \in 0 .. n
  PROVE  /\ FlattenSeq(SubSeq(ss, 1, k)) \in Seq(S) /\ FlattenSeq(ss) \in Seq(S)
         /\ Begins(FlattenSeq(SubSeq(ss, 1, k)), FlattenSeq(ss))
         /\ k = n => FlattenSeq(SubSeq(ss, 1, k)) = FlattenSeq(ss)
<1> DEFINE rr == SubSeq(ss, 1, k)
<1>1. k \in Nat /\ rr \in [1 .. k -> Seq(S)] /\ \A i \in 1 .. k : rr[i] = ss[i]
  <2>1. ss \in Seq(Seq(S)) /\ Len(ss) = n
    OBVIOUS
  <2>2. rr = [i \in 1 .. k |-> ss[i]]
    BY <2>1
  <2>3. k \in Nat /\ \A i \in 1 .. k : ss[i] \in Seq(S)
    OBVIOUS
  <2> HIDE DEF rr
  <2> QED
    BY <2>2, <2>3
<1>2. k = n => rr = ss
  BY <1>1
<1> HIDE DEF rr
<1>3. PICK g \in [0 .. n -> Seq(S)] : FlatBy(g, ss, n)
  BY FlattenValues, Zenon
<1>4. PICK h \in [0 .. k -> Seq(S)] : FlatBy(h, rr, k)
  BY <1>1, FlattenValues, Zenon
<1>5. /\ g[0] = <<>> /\ \A i \in 1 .. n : g[i] = g[i - 1] \o ss[i]
      /\ FlattenSeq(ss) = g[n]
  BY <1>3, Zenon DEF FlatBy
<1>6. /\ h[0] = <<>> /\ \A i \in 1 .. k : h[i] = h[i - 1] \o rr[i]
      /\ FlattenSeq(rr) = h[k]
  BY <1>4, Zenon DEF FlatBy
<1>7. h[k] = g[k]
  <2> DEFINE T == {i \in 0 .. k : h[i] = g[i]}
  <2>1. 0 \in T
    BY <1>5, <1>6
  <2>2. ASSUME NEW i \in 1 .. k, i - 1 \in T PROVE i \in T
    <3>1. i \in 1 .. n /\ i \in 0 .. k /\ h[i - 1] = g[i - 1] /\ rr[i] = ss[i]
      BY <1>1, <2>2
    <3>2. h[i] = g[i]
      BY <1>5, <1>6, <3>1, Zenon
    <3> QED
      BY <3>1, <3>2
  <2> HIDE DEF T
  <2>3. \A i \in 0 .. k : i \in T
    BY <1>1, <2>1, <2>2, UpTo
  <2>4. k \in T
    BY <1>1, <2>3
  <2> QED
    BY <2>4 DEF T
<1>8. \A i \in 0 .. n : g[i] \in Seq(S)
  BY Zenon
<1>9. Begins(g[k], g[n])
  <2> DEFINE m == n - k
             T == {i \in 0 .. m : Begins(g[k], g[k + i])}
  <2>1. m \in Nat /\ k + m = n
    BY <1>1
  <2>2. 0 \in T
    <3>1. Begins(g[k], g[k])
      BY <1>8, BeginsSelf, Zenon
    <3>2. k + 0 = k /\ 0 \in 0 .. m
      BY <1>1, <2>1
    <3> QED
      BY <3>1, <3>2
  <2> HIDE DEF m
  <2>3. ASSUME NEW i \in 1 .. m, i - 1 \in T PROVE i \in T
    <3>1. /\ k + i \in 1 .. n /\ k + i \in 0 .. n /\ k + (i - 1) \in 0 .. n
          /\ (k + i) - 1 = k + (i - 1) /\ i \in 0 .. m
      BY <1>1, <2>1
    <3> DEFINE a == g[k]
               b == g[k + (i - 1)]
               c == ss[k + i]
    <3>2. Begins(a, b)
      BY <2>3
    <3>3. g[k + i] = b \o c
      BY <1>5, <3>1, Zenon
    <3>4. a \in Seq(S) /\ b \in Seq(S) /\ c \in Seq(S)
      BY <1>8, <3>1, Zenon
    <3> HIDE DEF a, b, c
    <3>5. b \o c \in Seq(S) /\ Begins(b, b \o c)
      BY <3>4, BeginsConcat, Zenon
    <3>6. Begins(a, b \o c)
      BY <3>2, <3>4, <3>5, BeginsTransitive, Zenon
    <3>7. Begins(g[k], g[k + i])
      BY <3>3, <3>6, Zenon DEF a
    <3> QED
      BY <3>1, <3>7
  <2> HIDE DEF T
  <2>4. \A i \in 0 .. m : i \in T
    BY <2>1, <2>2, <2>3, UpTo
  <2>5. m \in T
    BY <2>1, <2>4
  <2>6. Begins(g[k], g[k + m])
    BY <2>5, Zenon DEF T
  <2> QED
    BY <2>1, <2>6, Zenon
<1>10. g[k] \in Seq(S) /\ g[n] \in Seq(S)
  BY <1>1, <1>8
<1>11. FlattenSeq(rr) = g[k] /\ FlattenSeq(ss) = g[n]
  BY <1>5, <1>6, <1>7
<1> QED
  BY <1>2, <1>9, <1>10, <1>11 DEF rr

\* An element may be made one that is skipped.
Skippable(E) ==
  \A e \in E : /\ [e EXCEPT !.shape = "skip"] \in E
               /\ [e EXCEPT !.shape = "skip"].shape = "skip"

\* A result r of parsing, and the result q of parsing what was repaired: q is
\* no failure, the ticks of r begin those of q, and are those unless r failed.
Result(S) == [status : {"ok", "refused", "terminated"}, ticks : Seq(S)]
Parsed(r, q, S) ==
  /\ r \in Result(S) /\ q \in Result(S)
  /\ q.status = "ok" /\ Begins(r.ticks, q.ticks) /\ (r.status = "ok" => r.ticks = q.ticks)

\* What the loop over an array yields, and the loop over the repaired array.
LEMMA ArrayParse ==
  ASSUME NEW E, Skippable(E),
         NEW field \in FieldOf(E), NEW S, NEW emitted \in [DOMAIN field.elements -> Seq(S)],
         NEW r, r = ParseArray(field, emitted),
         NEW q, q = ParseArray(RepairedField(field), emitted)
  PROVE  Parsed(r, q, S)
<1> SUFFICES /\ r \in Result(S) /\ q \in Result(S)
             /\ q.status = "ok" /\ Begins(r.ticks, q.ticks)
             /\ (r.status = "ok" => r.ticks = q.ticks)
  BY Zenon DEF Parsed
<1> DEFINE els == field.elements
           n == Len(els)
           fixed == RepairedField(field)
           rep == fixed.elements
           stops == {i \in 1 .. n : Stops(els[i])}
           good == IF stops = {} THEN n ELSE Min(stops) - 1
           end == IF stops = {} THEN "ok"
                  ELSE IF els[good + 1].shape = "abort" THEN "refused" ELSE "terminated"
           all == FlattenSeq(emitted)
           some == FlattenSeq(SubSeq(emitted, 1, good))
<1>1. field.status \in {"missing", "bad", "array"} /\ els \in Seq(E)
  BY DEF FieldOf
<1>2. n \in Nat /\ els \in [1 .. n -> E] /\ DOMAIN els = 1 .. n
  BY <1>1
<1>3. emitted \in [1 .. n -> Seq(S)]
  BY <1>2
<1>4. /\ fixed.status = IF field.status = "bad" THEN "missing" ELSE field.status
      /\ rep = [i \in 1 .. n |-> IF Stops(els[i])
                                 THEN [els[i] EXCEPT !.shape = "skip"]
                                 ELSE els[i]]
  BY <1>2 DEF RepairedField
<1>5. rep \in [1 .. n -> E] /\ \A i \in 1 .. n : ~Stops(rep[i])
  <2> HIDE DEF els, n, rep, fixed
  <2>1. ASSUME NEW i \in 1 .. n PROVE rep[i] \in E /\ ~Stops(rep[i])
    <3>1. els[i] \in E
      BY <1>2
    <3>2. rep[i] = IF Stops(els[i]) THEN [els[i] EXCEPT !.shape = "skip"] ELSE els[i]
      BY <1>4
    <3>3. \A e : e.shape = "skip" => ~Stops(e)
      BY DEF Stops
    <3> QED
      BY <3>1, <3>2, <3>3, Zenon DEF Skippable
  <2> QED
    BY <1>4, <2>1
<1>6. good \in 0 .. n
  <2>1. CASE stops = {}
    BY <1>2, <2>1
  <2>2. CASE stops # {}
    <3> HIDE DEF n
    <3>1. stops \subseteq Nat
      BY <1>2
    <3>2. \E k \in stops : \A j \in stops : k <= j
      BY <2>2, <3>1, FirstOf
    <3>3. Min(stops) \in stops
      <4> HIDE DEF stops
      <4> QED
        BY <3>2 DEF Min
    <3> QED
      BY <1>2, <2>2, <3>3
  <2> QED
    BY <2>1, <2>2
<1>7. some \in Seq(S) /\ all \in Seq(S) /\ Begins(some, all) /\ (good = n => some = all)
  <2> HIDE DEF n, good
  <2> QED
    BY <1>2, <1>3, <1>6, FlattenPrefix
<1>8. r = CASE field.status = "missing" -> [status |-> "ok", ticks |-> <<>>]
            [] field.status = "bad" -> [status |-> "refused", ticks |-> <<>>]
            [] field.status = "array" -> [status |-> end, ticks |-> some]
  BY DEF ParseArray
<1>9. fixed.status = "array" => q = [status |-> "ok", ticks |-> all]
  <2> HIDE DEF fixed, n, all
  <2>1. ASSUME fixed.status = "array" PROVE q = [status |-> "ok", ticks |-> FlattenSeq(emitted)]
    <3>1. q = ParseArray(fixed, emitted)
      BY DEF fixed
    <3> QED
      BY ONLY <1>2, <1>3, <1>5, <2>1, <3>1, GoodArray, Zenon
  <2> QED
    BY <2>1 DEF all
<1>10. fixed.status = "missing" => q = [status |-> "ok", ticks |-> <<>>]
  <2>1. q = ParseArray(fixed, emitted)
    OBVIOUS
  <2> HIDE DEF fixed
  <2> QED
    BY ONLY <2>1 DEF ParseArray
<1>11. <<>> \in Seq(S) /\ Begins(<<>>, <<>>)
  <2>1. <<>> \in Seq(S)
    OBVIOUS
  <2> QED
    BY <2>1, BeginsSelf, Zenon
<1>a. end \in {"ok", "refused", "terminated"} /\ (end = "ok" => good = n)
  OBVIOUS
<1> HIDE DEF fixed, good, n, some, all, end
<1>12. CASE field.status = "array"
  <2>1. r = [status |-> end, ticks |-> some]
    BY <1>8, <1>12
  <2>2. q = [status |-> "ok", ticks |-> all]
    BY <1>4, <1>9, <1>12
  <2>3. end = "ok" => some = all
    BY <1>7, <1>a
  <2> QED
    BY ONLY <1>7, <1>a, <2>1, <2>2, <2>3 DEF Result
<1>13. CASE field.status = "missing"
  <2>1. r = [status |-> "ok", ticks |-> <<>>] /\ q = [status |-> "ok", ticks |-> <<>>]
    BY <1>4, <1>8, <1>10, <1>13
  <2> QED
    BY <1>11, <2>1 DEF Result
<1>14. CASE field.status = "bad"
  <2>1. r = [status |-> "refused", ticks |-> <<>>] /\ q = [status |-> "ok", ticks |-> <<>>]
    BY <1>4, <1>8, <1>10, <1>14
  <2> QED
    BY <1>11, <2>1 DEF Result
<1> QED
  BY <1>1, <1>12, <1>13, <1>14

-----------------------------------------------------------------------------
(* Levels and changes.                                                     *)

\* A tick the order book takes.
Tick == [price : 0 .. TopPrice, size : 0 .. WordRange - 1, is_bid : BOOLEAN]

\* A size is refused or fits the type.
LEMMA SizeFits ==
  ASSUME NEW t \in NumberText
  PROVE  parse_size_u32(t) \in (0 .. WordRange - 1) \cup {Reject}
<1> DEFINE size == parse_size_u32(t)
           frac == t.frac
           w == WholePart(t)
<1> USE DEF Empty, Bad, Reject
<1>1. /\ t.dot \in BOOLEAN /\ t.int \in Nat \cup {Empty, Bad}
      /\ t.dot => frac \in Seq(0 .. 10)
  BY DEF NumberText
<1>2. CASE ~t.dot
  BY <1>2 DEF parse_size_u32, parse_u32
<1>3. CASE t.dot /\ (w = Reject \/ ~AllDigits(frac))
  BY <1>3 DEF parse_size_u32
<1>4. CASE t.dot /\ w # Reject /\ AllDigits(frac)
  <2>1. w \in 0 .. WordRange - 1
    BY <1>1, <1>4, ParserAssumption DEF WholePart, parse_u32
  <2>2. CASE \A i \in DOMAIN frac : frac[i] = 0
    BY <1>4, <2>1, <2>2 DEF parse_size_u32
  <2>3. CASE ~\A i \in DOMAIN frac : frac[i] = 0
    <3>1. \A i \in Nat \ {0} : Digit(frac, i) \in 0 .. 9
      BY <1>1, <1>4, DigitFacts
    <3>2. w \in Nat /\ SizeDigits \in Nat
      BY <2>1, ParserAssumption
    <3>3. Scaled(w, frac, SizeDigits) \in Nat
      <4> HIDE DEF w, frac
      <4> QED
        BY ONLY <3>1, <3>2, ScaledStep, Zenon
    <3>4. size = IF Scaled(w, frac, SizeDigits) < WordRange
                 THEN Scaled(w, frac, SizeDigits) ELSE Reject
      BY <1>4, <2>3 DEF parse_size_u32
    <3> QED
      BY <3>3, <3>4, ParserAssumption
  <2> QED
    BY <2>2, <2>3
<1> QED
  BY <1>1, <1>2, <1>3, <1>4

\* A sequence with one tick, or none.
LEMMA OneTick ==
  ASSUME NEW p \in 0 .. TopPrice, NEW s \in 0 .. WordRange - 1, NEW b \in BOOLEAN
  PROVE  <<[price |-> p, size |-> s, is_bid |-> b]>> \in Seq(Tick)
<1> DEFINE t == [price |-> p, size |-> s, is_bid |-> b]
<1>1. t \in Tick
  BY DEF Tick
<1> HIDE DEF t
<1>2. <<t>> \in Seq(Tick)
  BY <1>1
<1> QED
  BY <1>2 DEF t

\* A level becomes ticks of the book; one that is skipped none.
LEMMA LevelTicksType ==
  ASSUME NEW level, level.size \in NumberText, NEW b \in BOOLEAN
  PROVE  /\ LevelTicks(level, b) \in Seq(Tick)
         /\ level.shape # "level" => LevelTicks(level, b) = <<>>
<1> DEFINE p == parse_price_cents(level.price)
           s == parse_size_u32(level.size)
<1>1. LevelTicks(level, b)
        = IF level.shape = "level" /\ in_price_range(p) /\ s # Reject
          THEN <<[price |-> p, size |-> s, is_bid |-> b]>> ELSE <<>>
  BY Zenon DEF LevelTicks
<1>2. s \in (0 .. WordRange - 1) \cup {Reject}
  BY SizeFits, Zenon
<1> HIDE DEF p, s
<1>3. CASE level.shape = "level" /\ in_price_range(p) /\ s # Reject
  <2>1. p \in 0 .. TopPrice /\ s \in 0 .. WordRange - 1
    BY <1>2, <1>3 DEF in_price_range
  <2>2. <<[price |-> p, size |-> s, is_bid |-> b]>> \in Seq(Tick)
    BY ONLY <2>1, b \in BOOLEAN, OneTick, Zenon
  <2> QED
    BY <1>1, <1>3, <2>2, Zenon
<1>4. CASE ~(level.shape = "level" /\ in_price_range(p) /\ s # Reject)
  <2>1. LevelTicks(level, b) = <<>>
    BY <1>1, <1>4, Zenon
  <2> QED
    BY ONLY <2>1
<1> QED
  BY <1>3, <1>4, Zenon

\* So does a hint.
LEMMA HintTicksType ==
  ASSUME NEW t, NEW b \in BOOLEAN
  PROVE  HintTicks(t, b) \in Seq(Tick)
<1> DEFINE p == parse_price_cents(t)
<1>1. HintTicks(t, b) = IF in_price_range(p) /\ p # 0
                        THEN <<[price |-> p, size |-> 1, is_bid |-> b]>> ELSE <<>>
  BY Zenon DEF HintTicks
<1> HIDE DEF p
<1>2. CASE in_price_range(p) /\ p # 0
  <2>1. p \in 0 .. TopPrice /\ 1 \in 0 .. WordRange - 1
    BY <1>2, ParserAssumption DEF in_price_range
  <2>2. <<[price |-> p, size |-> 1, is_bid |-> b]>> \in Seq(Tick)
    BY ONLY <2>1, b \in BOOLEAN, OneTick, Zenon
  <2> QED
    BY <1>1, <1>2, <2>2, Zenon
<1>3. CASE ~(in_price_range(p) /\ p # 0)
  <2>1. HintTicks(t, b) = <<>>
    BY <1>1, <1>3, Zenon
  <2> QED
    BY ONLY <2>1
<1> QED
  BY <1>2, <1>3, Zenon

\* And a change, with its hints.
LEMMA ChangeTicksType ==
  ASSUME NEW change, change.size \in NumberText
  PROVE  /\ ChangeTicks(change) \in Seq(Tick)
         /\ change.shape # "level" => ChangeTicks(change) = <<>>
<1> DEFINE b == change.side = "BUY"
           l == LevelTicks(change, b)
           own == IF change.side \in {"BUY", "SELL"} THEN l ELSE <<>>
           x == HintTicks(change.best_bid, TRUE)
           y == HintTicks(change.best_ask, FALSE)
<1>1. ChangeTicks(change) = IF own = <<>> THEN <<>> ELSE own \o x \o y
  BY Zenon DEF ChangeTicks
<1>2. b \in BOOLEAN
  BY Zenon
<1>3. l \in Seq(Tick) /\ (change.shape # "level" => l = <<>>)
  <2> HIDE DEF b
  <2> QED
    BY <1>2, LevelTicksType, Zenon
<1>4. x \in Seq(Tick) /\ y \in Seq(Tick)
  <2>1. TRUE \in BOOLEAN /\ FALSE \in BOOLEAN
    OBVIOUS
  <2> QED
    BY <2>1, HintTicksType, Zenon
<1> HIDE DEF l, x, y
<1>5. <<>> \in Seq(Tick)
  OBVIOUS
<1>6. own \in Seq(Tick) /\ (change.shape # "level" => own = <<>>)
  BY <1>3, <1>5, Zenon
<1> HIDE DEF own
<1>7. own \o x \o y \in Seq(Tick)
  BY <1>4, <1>6
<1> QED
  BY <1>1, <1>5, <1>6, <1>7, Zenon

\* Repairing an array keeps its elements, or makes one that is malformed one
\* that is skipped.
Mended(els, rep, E) ==
  /\ DOMAIN rep = DOMAIN els
  /\ \A i \in DOMAIN els :
       /\ els[i] \in E /\ rep[i] \in E
       /\ rep[i] = els[i] \/ (Stops(els[i]) /\ rep[i].shape = "skip")

\* RepairedField does it.
LEMMA RepairedElements ==
  ASSUME NEW E, Skippable(E), NEW field \in FieldOf(E)
  PROVE  Mended(field.elements, RepairedField(field).elements, E)
<1> DEFINE els == field.elements
           rep == RepairedField(field).elements
<1>1. rep = [i \in DOMAIN els |-> IF Stops(els[i])
                                  THEN [els[i] EXCEPT !.shape = "skip"] ELSE els[i]]
  BY DEF RepairedField
<1>2. els \in Seq(E)
  BY DEF FieldOf
<1> HIDE DEF els, rep
<1>3. \A i \in DOMAIN els : els[i] \in E
  BY ONLY <1>2
<1>4. DOMAIN rep = DOMAIN els
  BY ONLY <1>1, Zenon
<1>5. ASSUME NEW i \in DOMAIN els
      PROVE  /\ els[i] \in E /\ rep[i] \in E
             /\ rep[i] = els[i] \/ (Stops(els[i]) /\ rep[i].shape = "skip")
  <2> DEFINE x == [els[i] EXCEPT !.shape = "skip"]
  <2>1. rep[i] = IF Stops(els[i]) THEN x ELSE els[i]
    BY <1>1, Zenon
  <2>2. els[i] \in E
    BY <1>3, Zenon
  <2>3. x \in E /\ x.shape = "skip"
    BY <2>2, Zenon DEF Skippable
  <2> HIDE DEF x
  <2> QED
    BY ONLY <2>1, <2>2, <2>3, Zenon
<1> QED
  BY <1>4, <1>5, Zenon DEF Mended, els, rep

\* Levels and changes may be made ones that are skipped.
LEMMA LevelsSkippable ==
  Skippable(Level) /\ Skippable(Change)
<1>1. ASSUME NEW e \in Level
      PROVE  [e EXCEPT !.shape = "skip"] \in Level /\ [e EXCEPT !.shape = "skip"].shape = "skip"
  BY DEF Level, Shape
<1>2. ASSUME NEW e \in Change
      PROVE  [e EXCEPT !.shape = "skip"] \in Change /\ [e EXCEPT !.shape = "skip"].shape = "skip"
  BY DEF Change, Shape
<1> QED
  BY <1>1, <1>2, Zenon DEF Skippable

\* The levels of one side, and what they would be without a failure.
LEMMA LevelsParse ==
  ASSUME NEW field \in FieldOf(Level), NEW b \in BOOLEAN,
         NEW r, r = parse_levels(field, b),
         NEW q, q = parse_levels(RepairedField(field), b)
  PROVE  Parsed(r, q, Tick)
<1> DEFINE els == field.elements
           rep == RepairedField(field).elements
           em == [i \in DOMAIN els |-> LevelTicks(els[i], b)]
           en == [i \in DOMAIN rep |-> LevelTicks(rep[i], b)]
<1>a. Mended(els, rep, Level)
  BY LevelsSkippable, RepairedElements, Zenon
<1>1. /\ DOMAIN rep = DOMAIN els
      /\ \A i \in DOMAIN els :
           /\ els[i] \in Level /\ rep[i] \in Level
           /\ rep[i] = els[i] \/ (Stops(els[i]) /\ rep[i].shape = "skip")
  BY <1>a, Zenon DEF Mended
<1>2. r = ParseArray(field, em) /\ q = ParseArray(RepairedField(field), en)
  BY Zenon DEF parse_levels
<1> HIDE DEF els, rep
<1>3. ASSUME NEW i \in DOMAIN els
      PROVE  LevelTicks(els[i], b) \in Seq(Tick) /\ LevelTicks(rep[i], b) = LevelTicks(els[i], b)
  <2>1. els[i].size \in NumberText /\ rep[i].size \in NumberText
    BY <1>1 DEF Level
  <2>2. LevelTicks(els[i], b) \in Seq(Tick)
    BY <2>1, LevelTicksType, Zenon
  <2>3. CASE Stops(els[i]) /\ rep[i].shape = "skip"
    <3>1. els[i].shape # "level" /\ rep[i].shape # "level"
      BY <2>3 DEF Stops
    <3> QED
      BY <2>1, <2>2, <3>1, LevelTicksType, Zenon
  <2> QED
    BY <1>1, <2>2, <2>3, Zenon
<1>4. em \in [DOMAIN els -> Seq(Tick)]
  BY <1>3, Zenon
<1>5. en = em
  BY <1>1, <1>3, Zenon
<1> HIDE DEF em, en
<1>6. em \in [DOMAIN field.elements -> Seq(Tick)]
  BY <1>4 DEF els
<1>7. r = ParseArray(field, em) /\ q = ParseArray(RepairedField(field), em)
  BY <1>2, <1>5, Zenon
<1> QED
  BY <1>6, <1>7, LevelsSkippable, ArrayParse, Zenon

\* The same of changes.
LEMMA ChangesParse ==
  ASSUME NEW field \in FieldOf(Change),
         NEW r, r = parse_price_change(field),
         NEW q, q = parse_price_change(RepairedField(field))
  PROVE  Parsed(r, q, Tick)
<1> DEFINE els == field.elements
           rep == RepairedField(field).elements
           em == [i \in DOMAIN els |-> ChangeTicks(els[i])]
           en == [i \in DOMAIN rep |-> ChangeTicks(rep[i])]
<1>a. Mended(els, rep, Change)
  BY LevelsSkippable, RepairedElements, Zenon
<1>1. /\ DOMAIN rep = DOMAIN els
      /\ \A i \in DOMAIN els :
           /\ els[i] \in Change /\ rep[i] \in Change
           /\ rep[i] = els[i] \/ (Stops(els[i]) /\ rep[i].shape = "skip")
  BY <1>a, Zenon DEF Mended
<1>2. r = ParseArray(field, em) /\ q = ParseArray(RepairedField(field), en)
  BY Zenon DEF parse_price_change
<1> HIDE DEF els, rep
<1>3. ASSUME NEW i \in DOMAIN els
      PROVE  ChangeTicks(els[i]) \in Seq(Tick) /\ ChangeTicks(rep[i]) = ChangeTicks(els[i])
  <2>1. els[i].size \in NumberText /\ rep[i].size \in NumberText
    BY <1>1 DEF Change
  <2>2. ChangeTicks(els[i]) \in Seq(Tick)
    BY <2>1, ChangeTicksType, Zenon
  <2>3. CASE Stops(els[i]) /\ rep[i].shape = "skip"
    <3>1. els[i].shape # "level" /\ rep[i].shape # "level"
      BY <2>3 DEF Stops
    <3> QED
      BY <2>1, <2>2, <3>1, ChangeTicksType, Zenon
  <2> QED
    BY <1>1, <2>2, <2>3, Zenon
<1>4. em \in [DOMAIN els -> Seq(Tick)]
  BY <1>3, Zenon
<1>5. en = em
  BY <1>1, <1>3, Zenon
<1> HIDE DEF em, en
<1>6. em \in [DOMAIN field.elements -> Seq(Tick)]
  BY <1>4 DEF els
<1>7. r = ParseArray(field, em) /\ q = ParseArray(RepairedField(field), em)
  BY <1>2, <1>5, Zenon
<1> QED
  BY <1>6, <1>7, LevelsSkippable, ArrayParse, Zenon

-----------------------------------------------------------------------------
(* Messages and documents.                                                 *)

\* The second part after the first: what it yields if either of them fails
\* begins what both yield if none does.
LEMMA ThenParse ==
  ASSUME NEW S, NEW r1, NEW q1, NEW r2, NEW q2, Parsed(r1, q1, S), Parsed(r2, q2, S)
  PROVE  Parsed(Then(r1, r2), Then(q1, q2), S)
<1> DEFINE ends == {"ok", "refused", "terminated"}
           a1 == r1.ticks
           a2 == r2.ticks
           b1 == q1.ticks
           b2 == q2.ticks
<1>1. /\ r1 \in Result(S) /\ q1 \in Result(S) /\ r2 \in Result(S) /\ q2 \in Result(S)
      /\ q1.status = "ok" /\ q2.status = "ok" /\ Begins(a1, b1) /\ Begins(a2, b2)
      /\ (r1.status = "ok" => a1 = b1) /\ (r2.status = "ok" => a2 = b2)
  BY Zenon DEF Parsed
<1>2. a1 \in Seq(S) /\ a2 \in Seq(S) /\ b1 \in Seq(S) /\ b2 \in Seq(S)
  BY <1>1 DEF Result
<1>3. Then(q1, q2) = [status |-> q2.status, ticks |-> b1 \o b2]
  BY <1>1, Zenon DEF Then
<1>4. b1 \o b2 \in Seq(S) /\ Begins(b1, b1 \o b2)
  BY <1>2, BeginsConcat, Zenon
<1>5. CASE r1.status = "ok"
  <2>1. Then(r1, r2) = [status |-> r2.status, ticks |-> a1 \o a2]
    BY <1>5, Zenon DEF Then
  <2>2. a1 = b1
    BY <1>1, <1>5
  <2>3. a1 \o a2 \in Seq(S)
    BY <1>2, BeginsConcat, Zenon
  <2>4. Begins(a1 \o a2, b1 \o b2)
    BY <1>1, <1>2, <2>2, BeginsAfter, Zenon
  <2>5. r2.status = "ok" => a1 \o a2 = b1 \o b2
    BY <1>1, <2>2, Zenon
  <2>6. r2.status \in ends
    BY <1>1 DEF Result
  <2> DEFINE a == a1 \o a2
             b == b1 \o b2
             x == r2.status
             y == q2.status
             r == Then(r1, r2)
             q == Then(q1, q2)
  <2>7. /\ r = [status |-> x, ticks |-> a] /\ q = [status |-> y, ticks |-> b]
        /\ a \in Seq(S) /\ b \in Seq(S) /\ x \in ends /\ y = "ok"
        /\ Begins(a, b) /\ (x = "ok" => a = b)
    BY <1>1, <1>3, <1>4, <2>1, <2>3, <2>4, <2>5, <2>6, Zenon
  <2> HIDE DEF a, b, x, y, r, q
  <2>8. Parsed(r, q, S)
    BY ONLY <2>7 DEF Parsed, Result
  <2> QED
    BY <2>8 DEF r, q
<1>6. CASE r1.status # "ok"
  <2>1. Then(r1, r2) = r1
    BY <1>6, Zenon DEF Then
  <2>2. Begins(a1, b1 \o b2)
    BY <1>1, <1>2, <1>4, BeginsTransitive, Zenon
  <2>3. q2.status \in ends
    BY <1>1
  <2> DEFINE b == b1 \o b2
             y == q2.status
             q == Then(q1, q2)
  <2>4. /\ q = [status |-> y, ticks |-> b] /\ b \in Seq(S) /\ y = "ok"
        /\ r1 \in Result(S) /\ r1.status # "ok" /\ Begins(r1.ticks, b)
    BY <1>1, <1>3, <1>4, <1>6, <2>2, <2>3, Zenon
  <2> HIDE DEF b, y, q
  <2>5. Parsed(r1, q, S)
    BY ONLY <2>4 DEF Parsed, Result
  <2> QED
    BY <2>1, <2>5, Zenon DEF q
<1> QED
  BY <1>5, <1>6

\* A message's ticks fit the book and begin the ones of the repaired message.
LEMMA MessageParse ==
  ASSUME NEW m \in Message, NEW r, r = parse_message_object(m),
         NEW q, q = parse_message_object(Repaired(m))
  PROVE  r.ticks \in Seq(Tick) /\ q.ticks \in Seq(Tick) /\ IsPrefix(r.ticks, q.ticks)
<1>1. SUFFICES r.ticks \in Seq(Tick) /\ q.ticks \in Seq(Tick) /\ Begins(r.ticks, q.ticks)
  BY <1>1, BeginsIsPrefix, Zenon
<1>2. ASSUME Parsed(r, q, Tick)
      PROVE  r.ticks \in Seq(Tick) /\ q.ticks \in Seq(Tick) /\ Begins(r.ticks, q.ticks)
  <2>1. /\ r \in Result(Tick) /\ q \in Result(Tick)
        /\ Begins(r.ticks, q.ticks)
    BY <1>2, Zenon DEF Parsed
  <2> QED
    BY ONLY <2>1 DEF Result
<1>3. CASE m \in OtherMessage
  <2>1. m.event_type \in {"error", "ignored"}
    BY <1>3 DEF OtherMessage
  <2>2. Repaired(m) = m
    BY <2>1 DEF Repaired
  <2>3. r.ticks = <<>> /\ q.ticks = <<>>
    BY <2>1, <2>2 DEF parse_message_object
  <2>4. <<>> \in Seq(Tick)
    OBVIOUS
  <2>5. Begins(<<>>, <<>>)
    BY <2>4, BeginsSelf, Zenon
  <2> QED
    BY <2>3, <2>4, <2>5, Zenon
<1>4. CASE m \in ChangeMessage
  <2> DEFINE f == m.price_changes
             n == [m EXCEPT !.price_changes = RepairedField(@)]
  <2>1. m.event_type = "price_change" /\ f \in FieldOf(Change)
    BY <1>4 DEF ChangeMessage
  <2>2. Repaired(m) = n
    BY <2>1 DEF Repaired
  <2>3. n.event_type = "price_change" /\ n.price_changes = RepairedField(f)
    BY <1>4 DEF ChangeMessage
  <2> HIDE DEF f, n
  <2>4. r = parse_price_change(f)
    BY <2>1 DEF parse_message_object, f
  <2>5. q = parse_price_change(RepairedField(f))
    BY <2>2, <2>3 DEF parse_message_object
  <2>6. Parsed(r, q, Tick)
    BY <2>1, <2>4, <2>5, ChangesParse, Zenon
  <2> QED
    BY <1>2, <2>6
<1>5. CASE m \in BookMessage
  <2> DEFINE f == m.bids
             g == m.asks
             n == [m EXCEPT !.bids = RepairedField(@), !.asks = RepairedField(@)]
             r1 == parse_levels(f, TRUE)
             r2 == parse_levels(g, FALSE)
             q1 == parse_levels(RepairedField(f), TRUE)
             q2 == parse_levels(RepairedField(g), FALSE)
  <2>1. m.event_type \in {"book", "absent"} /\ f \in FieldOf(Level) /\ g \in FieldOf(Level)
    BY <1>5 DEF BookMessage
  <2>2. Repaired(m) = n
    BY <2>1 DEF Repaired
  <2>3. /\ n.event_type = m.event_type
        /\ n.bids = RepairedField(f) /\ n.asks = RepairedField(g)
    BY <1>5 DEF BookMessage
  <2> HIDE DEF n
  <2>4. r = Then(r1, r2)
    BY <2>1 DEF parse_message_object
  <2>5. q = Then(q1, q2)
    BY <2>1, <2>2, <2>3 DEF parse_message_object
  <2>6. TRUE \in BOOLEAN /\ FALSE \in BOOLEAN
    OBVIOUS
  <2> HIDE DEF f, g
  <2>7. Parsed(r1, q1, Tick)
    BY <2>1, <2>6, LevelsParse, Zenon
  <2>8. Parsed(r2, q2, Tick)
    BY <2>1, <2>6, LevelsParse, Zenon
  <2> HIDE DEF r1, r2, q1, q2
  <2>9. Parsed(r, q, Tick)
    BY <2>4, <2>5, <2>7, <2>8, ThenParse, Zenon
  <2> QED
    BY <1>2, <2>9
<1> QED
  BY <1>3, <1>4, <1>5 DEF Message

\* The same of an element of a batch, broken or not.
LEMMA ElementParse ==
  ASSUME NEW m \in Message \cup BrokenMessage, NEW r, r = ParseElement(m),
         NEW q, q = ParseElement(Repaired(m))
  PROVE  r.ticks \in Seq(Tick) /\ q.ticks \in Seq(Tick) /\ IsPrefix(r.ticks, q.ticks)
<1>1. CASE m \in Message
  <2>1. m.event_type # "broken" /\ Repaired(m).event_type # "broken"
    <3>1. CASE m \in OtherMessage
      BY <3>1 DEF OtherMessage, Repaired
    <3>2. CASE m \in ChangeMessage
      BY <3>2 DEF ChangeMessage, Repaired
    <3>3. CASE m \in BookMessage
      BY <3>3 DEF BookMessage, Repaired
    <3> QED
      BY <1>1, <3>1, <3>2, <3>3 DEF Message
  <2>2. r = parse_message_object(m) /\ q = parse_message_object(Repaired(m))
    BY <2>1, Zenon DEF ParseElement
  <2> QED
    BY <1>1, <2>2, MessageParse, Zenon
<1>2. CASE m \in BrokenMessage
  <2>1. m.event_type = "broken"
    BY <1>2 DEF BrokenMessage
  <2>2. Repaired(m) = m
    BY <2>1 DEF Repaired
  <2>3. r.ticks = <<>> /\ q.ticks = <<>>
    BY <2>1, <2>2 DEF ParseElement
  <2>4. <<>> \in Seq(Tick)
    OBVIOUS
  <2>5. IsPrefix(<<>>, <<>>)
    BY <2>4, BeginsSelf, BeginsIsPrefix, Zenon
  <2> QED
    BY <2>3, <2>4, <2>5, Zenon
<1> QED
  BY <1>1, <1>2

\* A document's messages.
LEMMA DocumentMessages ==
  ASSUME doc \in Document
  PROVE  /\ doc.kind \in {"object", "array", "invalid"}
         /\ doc.kind = "object" => doc.messages \in [1 .. 1 -> Message]
         /\ doc.kind = "array" => doc.messages \in Seq(Message \cup BrokenMessage)
         /\ doc.kind = "invalid" => doc.messages = <<>>
         /\ \A i \in DOMAIN doc.messages : doc.messages[i] \in Message \cup BrokenMessage
<1> DEFINE M == Message \cup BrokenMessage
<1>1. /\ doc.kind \in {"object", "array", "invalid"}
      /\ doc.kind = "object" => doc.messages \in [1 .. 1 -> Message]
      /\ doc.kind = "array" => doc.messages \in Seq(M)
      /\ doc.kind = "invalid" => doc.messages = <<>>
  BY DEF Document
<1> DEFINE ms == doc.messages
<1>2. ms \in [1 .. 1 -> Message] \/ ms \in Seq(M) \/ ms = <<>>
  BY <1>1
<1> HIDE DEF ms
<1>3. \A i \in DOMAIN ms : ms[i] \in M
  <2> HIDE DEF M
  <2>1. \A m \in Message : m \in M
    BY DEF M
  <2> QED
    BY ONLY <1>2, <2>1
<1> QED
  BY <1>1, <1>3 DEF ms

\* Every document's ticks fit the book.
LEMMA DocumentTicks ==
  ASSUME doc \in Document
  PROVE  TicksFitBook
<1> DEFINE ticks == parse_tick(doc).ticks
           ms == doc.messages
           of(i) == ParseElement(ms[i]).ticks
<1>1. \A i \in DOMAIN ms : of(i) \in Seq(Tick)
  <2> SUFFICES ASSUME NEW i \in DOMAIN ms PROVE of(i) \in Seq(Tick)
    BY Zenon
  <2>1. ms[i] \in Message \cup BrokenMessage
    BY DocumentMessages, Zenon
  <2> HIDE DEF ms
  <2> QED
    BY <2>1, ElementParse, Zenon
<1>2. ASSUME doc.kind = "object" PROVE ticks \in Seq(Tick)
  <2>1. ms \in [1 .. 1 -> Message]
    BY <1>2, DocumentMessages
  <2>2. ms[1] \in Message
    <3> HIDE DEF ms
    <3> QED
      BY <2>1
  <2>3. ticks = parse_message_object(ms[1]).ticks
    BY <1>2 DEF parse_tick
  <2> HIDE DEF ms, ticks
  <2> QED
    BY <2>2, <2>3, MessageParse, Zenon
<1>3. ASSUME doc.kind = "array" PROVE ticks \in Seq(Tick)
  <2> DEFINE n == Len(ms)
             fatal == {i \in 1 .. n : ParseElement(ms[i]).status = "terminated"}
             last == IF fatal = {} THEN n ELSE Min(fatal)
             some == [i \in 1 .. last |-> of(i)]
  <2>1. ms \in Seq(Message \cup BrokenMessage)
    BY <1>3, DocumentMessages
  <2>2. n \in Nat /\ DOMAIN ms = 1 .. n
    <3> HIDE DEF ms
    <3> QED
      BY <2>1
  <2>3. ticks = FlattenSeq(some)
    BY <1>3 DEF parse_tick
  <2>4. last \in 0 .. n
    <3>1. CASE fatal = {}
      BY <2>2, <3>1
    <3>2. CASE fatal # {}
      <4> HIDE DEF n
      <4>1. fatal \subseteq 1 .. n
        OBVIOUS
      <4> HIDE DEF fatal
      <4>2. fatal \subseteq Nat
        BY <2>2, <4>1
      <4>3. \E k \in fatal : \A j \in fatal : k <= j
        BY <3>2, <4>2, FirstOf
      <4>4. Min(fatal) \in fatal
        BY <4>3 DEF Min
      <4>5. Min(fatal) \in 1 .. n
        BY <4>1, <4>4, Zenon
      <4>6. last = Min(fatal)
        BY <3>2, Zenon
      <4> HIDE DEF last
      <4> QED
        BY ONLY <2>2, <4>5, <4>6
    <3> QED
      BY <3>1, <3>2
  <2> HIDE DEF last, of, n, ms
  <2>5. last \in Nat /\ \A i \in 1 .. last : of(i) \in Seq(Tick)
    BY <1>1, <2>2, <2>4
  <2>6. some \in [1 .. last -> Seq(Tick)]
    BY <2>5, Zenon
  <2> HIDE DEF some, ticks
  <2> QED
    BY <2>3, <2>5, <2>6, FlattenType, Zenon
<1>4. ASSUME doc.kind = "invalid" PROVE ticks \in Seq(Tick)
  <2>1. ticks = <<>>
    BY <1>4 DEF parse_tick
  <2> HIDE DEF ticks
  <2> QED
    BY <2>1
<1> QED
  <2> HIDE DEF ticks
  <2>1. ticks \in Seq(Tick)
    BY <1>2, <1>3, <1>4, DocumentMessages
  <2>2. \A i \in DOMAIN ticks : ticks[i] \in Tick
    BY <2>1
  <2>3. \A i \in DOMAIN ticks :
          ticks[i].price \in 0 .. TopPrice /\ ticks[i].size \in 0 .. WordRange - 1
    BY <2>2 DEF Tick
  <2> QED
    BY <2>3, Zenon DEF TicksFitBook, ticks

\* Every message of a document that is not parsed to its end leaves a prefix.
LEMMA DocumentPrefix ==
  ASSUME doc \in Document
  PROVE  PartialIsPrefix
<1> SUFFICES ASSUME NEW i \in DOMAIN doc.messages
             PROVE  IsPrefix(ParseElement(doc.messages[i]).ticks,
                             ParseElement(Repaired(doc.messages[i])).ticks)
  BY Zenon DEF PartialIsPrefix
<1>1. doc.messages[i] \in Message \cup BrokenMessage
  BY DocumentMessages, Zenon
<1> QED
  BY <1>1, ElementParse, Zenon

-----------------------------------------------------------------------------
(* The specification.                                                      *)

\* What is shown is a text and a document.
Shown == text \in NumberText /\ doc \in Document

\* The parser is only shown what it may receive: number texts with any
\* decimals and documents with any messages.
THEOREM InputsShown == Spec => []Shown
<1>1. NoText \in NumberText
  <2>1. <<>> \in {<<>>} /\ Empty \in Nat \cup {Empty, Bad}
    OBVIOUS
  <2> QED
    BY <2>1 DEF NoText, NumberText
<1>2. NoDoc \in Document
  BY DEF NoDoc, Document
<1>3. Init => Shown
  BY <1>1, <1>2, Zenon DEF Init, Shown
<1>4. Shown /\ [Next]_vars => Shown'
  <2> SUFFICES ASSUME Shown, [Next]_vars PROVE Shown'
    OBVIOUS
  <2>1. CASE ShowText
    BY <1>2, <2>1, InputsAssumption DEF ShowText, Shown
  <2>2. CASE ShowDocument
    BY <1>1, <2>2, InputsAssumption DEF ShowDocument, Shown
  <2>3. CASE UNCHANGED vars
    BY <2>3 DEF vars, Shown
  <2> QED
    BY <2>1, <2>2, <2>3 DEF Next
<1> QED
  BY <1>3, <1>4, PTL DEF Spec

\* parse_price_cents converts every price whose cents fit a uint32_t to the
\* nearest cent, halves up, however many decimals its text has, and refuses
\* every text that is no price.
THEOREM PricesConvert == Spec => []ConvertsToCents
<1>1. Shown => ConvertsToCents
  BY TextConverts, Zenon DEF Shown
<1> QED
  BY <1>1, InputsShown, PTL

\* parse_size_u32 accepts as 0, which removes a level, no size whose integer
\* part or kept decimals have a digit other than 0.
THEOREM SizesKept == Spec => []SizeNeverRemoves
<1>1. Shown => SizeNeverRemoves
  BY TextSize, Zenon DEF Shown
<1> QED
  BY <1>1, InputsShown, PTL

\* parse_tick pushes only ticks whose price the order book has and whose size
\* fits a uint32_t, from documents with any number of messages, levels,
\* changes and hints, whether it succeeds or not.
THEOREM TicksFit == Spec => []TicksFitBook
<1>1. Shown => TicksFitBook
  BY DocumentTicks, Zenon DEF Shown
<1> QED
  BY <1>1, InputsShown, PTL

\* A message that parse_message_object refuses half way, or in which a broken
\* array ends the process, has pushed a prefix of the ticks it would have
\* pushed without its malformed parts.
THEOREM PartialPrefix == Spec => []PartialIsPrefix
<1>1. Shown => PartialIsPrefix
  BY DocumentPrefix, Zenon DEF Shown
<1> QED
  BY <1>1, InputsShown, PTL

====
