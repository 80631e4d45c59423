---- MODULE PositionManagerProofs ----
(***************************************************************************)
(* Proofs about PositionManager for any sequence of fills, of any size and *)
(* at any price: what it reports is what the fills brought in, and the     *)
(* entry price is a price that the position could have been bought at.     *)
(* They rest on the arithmetic of Fractions: Q(n, d) is n / d in lowest    *)
(* terms, two fractions are equal when their cross products are, and the   *)
(* operators compute sum, product and order of what they stand for.        *)
(***************************************************************************)
EXTENDS PositionManager, NaturalsInduction, WellFoundedInduction, TLAPS

-----------------------------------------------------------------------------
(* Fractions.                                                              *)

Positive == Nat \ {0}

\* Quotient and remainder.
LEMMA Division ==
  ASSUME NEW n \in Int, NEW d \in Positive
  PROVE  /\ n % d \in 0 .. d - 1 /\ n \div d \in Int
         /\ n = d * (n \div d) + (n % d)
BY DEF Positive

\* d divides n exactly when n is a multiple of d.
LEMMA Divides ==
  ASSUME NEW n \in Int, NEW d \in Positive
  PROVE  /\ n % d = 0 => n = d * (n \div d)
         /\ \A m \in Int : n = d * m => n % d = 0 /\ n \div d = m
<1>1. d \in Nat \ {0}
  BY DEF Positive
<1>2. n % d = 0 => n = d * (n \div d)
  BY <1>1, Division DEF Positive
<1>3. ASSUME NEW m \in Int, n = d * m
      PROVE  n % d = 0 /\ n \div d = m
  <2> DEFINE q == n \div d
             r == n % d
  <2>1. q \in Int /\ r \in 0 .. d - 1 /\ n = d * q + r
    BY Division
  <2> HIDE DEF q, r
  <2>2. r = 0 /\ m = q
    BY ONLY <1>1, <1>3, <2>1, m \in Int
  <2> QED
    BY <2>2 DEF q, r
<1> QED
  BY <1>2, <1>3

\* A set of numbers that is not empty has a least element.
LEMMA FirstOf ==
  ASSUME NEW T, T \subseteq Nat, T # {}
  PROVE  \E k \in T : \A j \in T : k <= j
<1> DEFINE R == {ss \in Nat \X Nat : ss[1] < ss[2]}
<1>1. IsWellFoundedOn(R, Nat)
  BY NatLessThanWellFounded DEF OpToRel
<1> HIDE DEF R
<1>2. PICK x \in T : \A y \in T : ~(<<y, x>> \in R)
  BY <1>1, WFMin, Zenon
<1>3. ASSUME NEW y \in T PROVE x <= y
  <2>1. <<y, x>> \in Nat \X Nat /\ ~(y < x)
    BY <1>2 DEF R
  <2> QED
    BY <2>1
<1> QED
  BY <1>3

\* The denominators of n / d are the multiples of a least one, found by
\* Denominator.
LEMMA LeastDenominator ==
  ASSUME NEW n \in Int, NEW d \in Positive
  PROVE  /\ Denominator(n, d) \in 1 .. d
         /\ (n * Denominator(n, d)) % d = 0
         /\ \A j \in 1 .. Denominator(n, d) - 1 : (n * j) % d # 0
<1> DEFINE T == {k \in 1 .. d : (n * k) % d = 0}
<1>1. d \in T
  <2>1. n * d \in Int /\ n * d = d * n /\ d \in 1 .. d
    BY DEF Positive
  <2> QED
    BY <2>1, Divides
<1>2. T \subseteq Nat
  BY DEF Positive
<1>3. PICK k \in T : \A j \in T : k <= j
  BY <1>1, <1>2, FirstOf
<1>4. \A j \in 1 .. (k - 1) : (n * j) % d # 0
  <2> SUFFICES ASSUME NEW j \in 1 .. (k - 1), (n * j) % d = 0 PROVE FALSE
    OBVIOUS
  <2>1. j \in 1 .. d /\ ~(k <= j)
    BY <1>2 DEF Positive
  <2> QED
    BY <1>3, <2>1
<1>5. \E i \in 1 .. d : (n * i) % d = 0 /\ \A j \in 1 .. (i - 1) : (n * j) % d # 0
  BY <1>4
<1> QED
  BY <1>5, Zenon DEF Denominator

\* What Q(n, d) is.
LEMMA QFacts ==
  ASSUME NEW n \in Int, NEW d \in Positive
  PROVE  /\ Q(n, d) = <<Q(n, d)[1], Q(n, d)[2]>>
         /\ Q(n, d)[1] \in Int /\ Q(n, d)[2] \in Positive
         /\ Q(n, d)[1] * d = n * Q(n, d)[2]
         /\ \A j \in Positive, m \in Int : m * d = n * j => Q(n, d)[2] <= j
<1> DEFINE k == Denominator(n, d)
           a == (n * k) \div d
<1>1. /\ k \in 1 .. d
      /\ (n * k) % d = 0
      /\ \A j \in 1 .. k - 1 : (n * j) % d # 0
  BY LeastDenominator
<1>2. Q(n, d) = <<a, k>>
  BY DEF Q
<1> HIDE DEF k
<1>3. k \in Positive /\ n * k \in Int
  BY <1>1 DEF Positive
<1>4. a \in Int /\ n * k = d * a
  BY <1>1, <1>3, Division, Divides
<1> HIDE DEF a
<1>5. a * d = n * k
  BY <1>3, <1>4 DEF Positive
<1>6. ASSUME NEW j \in Positive, NEW m \in Int, m * d = n * j
      PROVE  k <= j
  <2>1. n * j \in Int /\ n * j = d * m
    BY <1>6 DEF Positive
  <2>2. (n * j) % d = 0
    BY <2>1, Divides
  <2> QED
    BY <1>1, <2>2 DEF Positive
<1>7. Q(n, d)[1] = a /\ Q(n, d)[2] = k
  BY <1>2
<1> QED
  BY <1>2, <1>3, <1>4, <1>5, <1>6, <1>7

\* Fractions are equal exactly when their cross products are.
LEMMA QEqual ==
  ASSUME NEW n \in Int, NEW d \in Positive, NEW m \in Int, NEW e \in Positive
  PROVE  Q(n, d) = Q(m, e) <=> n * e = m * d
<1> DEFINE x == Q(n, d)
           y == Q(m, e)
<1>1. /\ x = <<x[1], x[2]>> /\ x[1] \in Int /\ x[2] \in Positive
      /\ x[1] * d = n * x[2]
      /\ \A j \in Positive, i \in Int : i * d = n * j => x[2] <= j
  BY QFacts
<1>2. /\ y = <<y[1], y[2]>> /\ y[1] \in Int /\ y[2] \in Positive
      /\ y[1] * e = m * y[2]
      /\ \A j \in Positive, i \in Int : i * e = m * j => y[2] <= j
  BY QFacts
<1> HIDE DEF x, y
<1>3. ASSUME x = y PROVE n * e = m * d
  <2> DEFINE a == x[1]
             k == x[2]
  <2>1. a \in Int /\ k \in Nat \ {0} /\ a * d = n * k /\ a * e = m * k
    BY <1>1, <1>2, <1>3 DEF Positive
  <2> HIDE DEF a, k
  <2>2. d \in Nat \ {0} /\ e \in Nat \ {0}
    BY DEF Positive
  <2>3. (n * e) * k = (m * d) * k
    BY ONLY <2>1, <2>2, n \in Int, m \in Int
  <2> QED
    BY ONLY <2>1, <2>2, <2>3, n \in Int, m \in Int
<1>4. ASSUME n * e = m * d PROVE x = y
  <2> DEFINE a == x[1]
             k == x[2]
             b == y[1]
             l == y[2]
  <2>1. /\ a \in Int /\ k \in Nat \ {0} /\ a * d = n * k
        /\ b \in Int /\ l \in Nat \ {0} /\ b * e = m * l
        /\ d \in Nat \ {0} /\ e \in Nat \ {0}
    BY <1>1, <1>2 DEF Positive
  <2> HIDE DEF a, k, b, l
  <2>2. a * e = m * k
    <3>1. (a * e) * d = (m * k) * d
      BY ONLY <1>4, <2>1, n \in Int, m \in Int
    <3> QED
      BY ONLY <2>1, <3>1, m \in Int
  <2>3. b * d = n * l
    <3>1. (b * d) * e = (n * l) * e
      BY ONLY <1>4, <2>1, n \in Int, m \in Int
    <3> QED
      BY ONLY <2>1, <3>1, n \in Int
  <2>4. k <= l /\ l <= k
    BY <1>1, <1>2, <2>1, <2>2, <2>3 DEF Positive, k, l
  <2>5. k = l
    BY ONLY <2>1, <2>4
  <2>6. a = b
    <3>1. a * e = b * e
      BY ONLY <2>1, <2>2, <2>5
    <3> QED
      BY ONLY <2>1, <3>1
  <2> QED
    BY <1>1, <1>2, <2>5, <2>6 DEF a, b, k, l
<1> QED
  BY <1>3, <1>4 DEF x, y
-----------------------------------------------------------------------------
(* The operators.                                                          *)

\* A fraction is what it stands for, and Q returns fractions.
LEMMA QIsFraction ==
  ASSUME NEW n \in Int, NEW d \in Positive
  PROVE  IsFraction(Q(n, d))
<1> DEFINE x == Q(n, d)
<1>1. x[1] \in Int /\ x[2] \in Positive /\ x[1] * d = n * x[2]
  BY QFacts
<1>2. x = Q(x[1], x[2])
  <2> HIDE DEF x
  <2>1. n * x[2] = x[1] * d
    BY <1>1
  <2>2. Q(n, d) = Q(x[1], x[2])
    BY <1>1, <2>1, QEqual
  <2> QED
    BY <2>2 DEF x
<1> HIDE DEF x
<1>3. IsFraction(x)
  BY <1>1, <1>2 DEF IsFraction, Positive
<1> QED
  BY <1>3 DEF x

\* Integers are fractions with denominator 1.
LEMMA WholeQ ==
  ASSUME NEW n \in Int
  PROVE  Whole(n) = Q(n, 1)
<1> DEFINE x == Q(n, 1)
<1>1. 1 \in Positive
  BY DEF Positive
<1>2. /\ x = <<x[1], x[2]>> /\ x[1] \in Int /\ x[2] \in Nat \ {0}
      /\ x[1] * 1 = n * x[2]
      /\ \A j \in Positive, m \in Int : m * 1 = n * j => x[2] <= j
  BY <1>1, QFacts DEF Positive
<1> HIDE DEF x
<1>3. x[2] <= 1
  BY <1>1, <1>2
<1>4. x[2] = 1 /\ x[1] = n
  BY <1>2, <1>3
<1> QED
  BY <1>2, <1>4 DEF Whole, x

\* A pair is in lowest terms when no smaller denominator will do.
LEMMA LowestTerms ==
  ASSUME NEW n \in Int, NEW d \in Positive,
         \A k \in 1 .. d - 1, a \in Int : a * d # n * k
  PROVE  <<n, d>> = Q(n, d)
<1> DEFINE x == Q(n, d)
<1>1. /\ x = <<x[1], x[2]>> /\ x[1] \in Int /\ x[2] \in Positive /\ x[1] * d = n * x[2]
      /\ \A j \in Positive, m \in Int : m * d = n * j => x[2] <= j
  BY QFacts
<1> HIDE DEF x
<1>2. x[2] <= d
  BY <1>1
<1>3. x[2] = d
  BY <1>1, <1>2 DEF Positive
<1>4. x[1] = n
  <2> DEFINE a == x[1]
  <2>1. a \in Int /\ a * d = n * d /\ d \in Nat \ {0}
    BY <1>1, <1>3 DEF Positive
  <2> HIDE DEF a
  <2>2. a = n
    BY ONLY <2>1, n \in Int
  <2> QED
    BY <2>2 DEF a
<1> QED
  BY <1>1, <1>3, <1>4 DEF x

\* Sums.
LEMMA QAddQ ==
  ASSUME NEW n \in Int, NEW d \in Positive, NEW m \in Int, NEW e \in Positive
  PROVE  QAdd(Q(n, d), Q(m, e)) = Q(n * e + m * d, d * e)
<1> DEFINE x == Q(n, d)
           y == Q(m, e)
           a == x[1]
           k == x[2]
           b == y[1]
           l == y[2]
<1>1. /\ a \in Int /\ k \in Positive /\ a * d = n * k
      /\ b \in Int /\ l \in Positive /\ b * e = m * l
  BY QFacts
<1>2. QAdd(x, y) = Q(a * l + b * k, k * l)
  BY DEF QAdd
<1> HIDE DEF x, y, a, k, b, l
<1>3. /\ a * l + b * k \in Int /\ k * l \in Positive
      /\ n * e + m * d \in Int /\ d * e \in Positive
  BY <1>1 DEF Positive
<1>4. (a * l + b * k) * (d * e) = (n * e + m * d) * (k * l)
  BY <1>1 DEF Positive
<1>5. Q(a * l + b * k, k * l) = Q(n * e + m * d, d * e)
  BY <1>3, <1>4, QEqual
<1> QED
  BY <1>2, <1>5 DEF x, y

\* Products.
LEMMA QMulQ ==
  ASSUME NEW n \in Int, NEW d \in Positive, NEW m \in Int, NEW e \in Positive
  PROVE  QMul(Q(n, d), Q(m, e)) = Q(n * m, d * e)
<1> DEFINE x == Q(n, d)
           y == Q(m, e)
           a == x[1]
           k == x[2]
           b == y[1]
           l == y[2]
<1>1. /\ a \in Int /\ k \in Positive /\ a * d = n * k
      /\ b \in Int /\ l \in Positive /\ b * e = m * l
  BY QFacts
<1>2. QMul(x, y) = Q(a * b, k * l)
  BY DEF QMul
<1> HIDE DEF x, y, a, k, b, l
<1>3. a * b \in Int /\ k * l \in Positive /\ n * m \in Int /\ d * e \in Positive
  BY <1>1 DEF Positive
<1>4. (a * b) * (d * e) = (n * m) * (k * l)
  <2>1. (a * b) * (d * e) = (a * d) * (b * e) /\ (n * k) * (m * l) = (n * m) * (k * l)
    BY <1>1 DEF Positive
  <2> QED
    BY <1>1, <2>1
<1>5. Q(a * b, k * l) = Q(n * m, d * e)
  BY <1>3, <1>4, QEqual
<1> QED
  BY <1>2, <1>5 DEF x, y

\* The opposite.
LEMMA QNegQ ==
  ASSUME NEW n \in Int, NEW d \in Positive
  PROVE  QNeg(Q(n, d)) = Q(-n, d)
<1> DEFINE x == Q(n, d)
           y == Q(-n, d)
           a == x[1]
           k == x[2]
           b == y[1]
           l == y[2]
<1>1. -n \in Int
  OBVIOUS
<1>2. /\ a \in Int /\ k \in Positive /\ a * d = n * k
      /\ \A j \in Positive, m \in Int : m * d = n * j => k <= j
  BY QFacts
<1>3. /\ b \in Int /\ l \in Positive /\ b * d = (-n) * l /\ y = <<b, l>>
      /\ \A j \in Positive, m \in Int : m * d = (-n) * j => l <= j
  BY <1>1, QFacts
<1>4. QNeg(x) = <<-a, k>>
  BY DEF QNeg
<1> HIDE DEF x, y, a, k, b, l
<1>5. (-b) * d = n * l /\ (-a) * d = (-n) * k /\ -a \in Int /\ -b \in Int
  BY <1>2, <1>3 DEF Positive
<1>6. k <= l /\ l <= k
  BY <1>2, <1>3, <1>5
<1>7. k = l
  BY <1>2, <1>3, <1>6 DEF Positive
<1>8. b = -a
  BY <1>2, <1>3, <1>7 DEF Positive
<1> QED
  BY <1>3, <1>4, <1>7, <1>8 DEF x, y

\* Differences.
LEMMA QSubQ ==
  ASSUME NEW n \in Int, NEW d \in Positive, NEW m \in Int, NEW e \in Positive
  PROVE  QSub(Q(n, d), Q(m, e)) = Q(n * e - m * d, d * e)
<1>1. -m \in Int /\ n * e + (-m) * d = n * e - m * d
  BY DEF Positive
<1>2. QAdd(Q(n, d), Q(-m, e)) = Q(n * e + (-m) * d, d * e)
  BY <1>1, QAddQ
<1>3. QNeg(Q(m, e)) = Q(-m, e)
  BY QNegQ
<1> QED
  BY <1>1, <1>2, <1>3, Zenon DEF QSub

\* A fraction of a fraction.
LEMMA QDivQ ==
  ASSUME NEW n \in Int, NEW d \in Positive, NEW m \in Positive
  PROVE  QDiv(Q(n, d), m) = Q(n, d * m)
<1> DEFINE x == Q(n, d)
           a == x[1]
           k == x[2]
<1>1. a \in Int /\ k \in Positive /\ a * d = n * k
  BY QFacts
<1>2. QDiv(x, m) = Q(a, k * m)
  BY DEF QDiv
<1> HIDE DEF x, a, k
<1>3. k * m \in Positive /\ d * m \in Positive /\ a * (d * m) = n * (k * m)
  BY <1>1 DEF Positive
<1>4. Q(a, k * m) = Q(n, d * m)
  BY <1>1, <1>3, QEqual
<1> QED
  BY <1>2, <1>4 DEF x

\* The order of fractions is the order of their cross products.
LEMMA QOrder ==
  ASSUME NEW n \in Int, NEW d \in Positive, NEW m \in Int, NEW e \in Positive
  PROVE  /\ QLeq(Q(n, d), Q(m, e)) <=> n * e <= m * d
         /\ QLess(Q(n, d), Q(m, e)) <=> n * e < m * d
<1> DEFINE x == Q(n, d)
           y == Q(m, e)
           a == x[1]
           k == x[2]
           b == y[1]
           l == y[2]
<1>1. /\ a \in Int /\ k \in Nat \ {0} /\ a * d = n * k
      /\ b \in Int /\ l \in Nat \ {0} /\ b * e = m * l
      /\ d \in Nat \ {0} /\ e \in Nat \ {0}
  BY QFacts DEF Positive
<1>2. (QLeq(x, y) <=> a * l <= b * k) /\ (QLess(x, y) <=> a * l < b * k)
  BY DEF QLeq, QLess
<1> HIDE DEF x, y, a, k, b, l
<1> DEFINE D == d * e
           K == k * l
<1>3. D \in Nat \ {0} /\ K \in Nat \ {0}
  BY <1>1
<1>4. (a * l) * D = (n * e) * K /\ (b * k) * D = (m * d) * K
  <2>1. /\ (a * l) * (d * e) = (a * d) * (l * e) /\ (n * k) * (l * e) = (n * e) * (k * l)
        /\ (b * k) * (d * e) = (b * e) * (k * d) /\ (m * l) * (k * d) = (m * d) * (k * l)
    BY <1>1
  <2> QED
    BY <1>1, <2>1
<1> DEFINE p == a * l
           q == b * k
           r == n * e
           s == m * d
<1>5. p \in Int /\ q \in Int /\ r \in Int /\ s \in Int /\ p * D = r * K /\ q * D = s * K
  BY <1>1, <1>4
<1> HIDE DEF D, K, p, q, r, s
<1>6. (p <= q <=> p * D <= q * D) /\ (p < q <=> p * D < q * D)
  BY ONLY <1>3, <1>5
<1>7. (r <= s <=> r * K <= s * K) /\ (r < s <=> r * K < s * K)
  BY ONLY <1>3, <1>5
<1>8. (p <= q <=> r <= s) /\ (p < q <=> r < s)
  BY ONLY <1>5, <1>6, <1>7
<1> QED
  BY <1>2, <1>8 DEF x, y, p, q, r, s

-----------------------------------------------------------------------------
(* The inductive invariant.                                                *)

\* The cash of the fills and a position at its entry price.
Account(size, entry, money) == QAdd(Whole(money), QMul(Whole(size), entry))

\* The profit realized so far is the cash, once the position is returned at
\* its entry price.
Books == realized_pnl_ = Account(position_size_, average_entry_price_, cash)

PInv ==
  /\ PositionTypeOK
  /\ entries \subseteq Int
  /\ Books
  /\ EntryWithinFills

-----------------------------------------------------------------------------
(* Arithmetic.                                                             *)

\* The constants are fractions.
LEMMA Constants ==
  /\ Zero = Q(0, 1) /\ One = Q(1, 1) /\ 1 \in Positive
  /\ IsFraction(Zero) /\ IsFraction(One)
<1>1. Zero = Q(0, 1) /\ One = Q(1, 1)
  BY WholeQ DEF Zero, One, Whole
<1>2. 1 \in Positive
  BY DEF Positive
<1> QED
  BY <1>1, <1>2, QIsFraction

\* Account of an entry price n / d.
LEMMA AccountQ ==
  ASSUME NEW c \in Int, NEW s \in Int, NEW n \in Int, NEW d \in Positive
  PROVE  Account(s, Q(n, d), c) = Q(c * d + s * n, d)
<1>1. 1 \in Positive /\ s * n \in Int /\ 1 * d = d /\ (s * n) * 1 = s * n
  BY DEF Positive
<1>2. QMul(Q(s, 1), Q(n, d)) = Q(s * n, 1 * d)
  BY <1>1, QMulQ
<1>3. QAdd(Q(c, 1), Q(s * n, d)) = Q(c * d + (s * n) * 1, 1 * d)
  BY <1>1, QAddQ
<1> QED
  BY <1>1, <1>2, <1>3, WholeQ, Zenon DEF Account

\* What the profit is after g more have been closed at price p.
LEMMA RealizedQ ==
  ASSUME NEW a \in Int, NEW g \in Int, NEW p \in Int, NEW n \in Int, NEW d \in Positive
  PROVE  QAdd(Q(a, d), QMul(Whole(g), QSub(Whole(p), Q(n, d)))) = Q(a + g * (p * d - n), d)
<1> DEFINE x == p * d - n
<1>1. /\ 1 \in Positive /\ p * d - n * 1 = x /\ 1 * d = d /\ x \in Int /\ g * x \in Int
  BY DEF Positive
<1>2. QSub(Whole(p), Q(n, d)) = Q(p * d - n * 1, 1 * d)
  BY <1>1, QSubQ, WholeQ
<1> HIDE DEF x
<1>3. QMul(Whole(g), Q(x, d)) = Q(g * x, 1 * d)
  BY <1>1, QMulQ, WholeQ
<1>4. QAdd(Q(a, d), Q(g * x, d)) = Q(a * d + (g * x) * d, d * d)
  BY <1>1, QAddQ
<1>5. Q(a * d + (g * x) * d, d * d) = Q(a + g * x, d)
  <2> DEFINE y == g * x
  <2>1. y \in Int
    BY <1>1
  <2> HIDE DEF y
  <2>2. /\ a * d + y * d \in Int /\ d * d \in Positive /\ a + y \in Int
        /\ (a * d + y * d) * d = (a + y) * (d * d)
    BY <2>1 DEF Positive
  <2> QED
    BY <2>2, QEqual DEF y
<1> QED
  BY <1>1, <1>2, <1>3, <1>4, <1>5, Zenon DEF x

\* The price of size s at n / d and size f at p, both positive.
LEMMA VWAPQ ==
  ASSUME NEW s \in Positive, NEW f \in Positive, NEW p \in Int, NEW n \in Int, NEW d \in Positive
  PROVE  /\ QDiv(QAdd(QMul(Q(n, d), Whole(s)), Whole(p * f)), s + f)
              = Q(n * s + (p * f) * d, d * (s + f))
         /\ n * s + (p * f) * d \in Int /\ d * (s + f) \in Positive
<1> DEFINE t == p * f
           x == n * s
<1>1. /\ s \in Int /\ t \in Int /\ x \in Int /\ 1 \in Positive /\ d * 1 = d /\ x * 1 = x
      /\ s + f \in Positive
  BY DEF Positive
<1> HIDE DEF t
<1>2. QMul(Q(n, d), Whole(s)) = Q(x, d * 1)
  BY <1>1, QMulQ, WholeQ
<1> HIDE DEF x
<1>3. QAdd(Q(x, d), Whole(t)) = Q(x * 1 + t * d, d * 1)
  BY <1>1, QAddQ, WholeQ
<1>4. x + t * d \in Int /\ d * (s + f) \in Positive
  BY <1>1 DEF Positive
<1>5. QDiv(Q(x + t * d, d), s + f) = Q(x + t * d, d * (s + f))
  BY <1>1, <1>4, QDivQ
<1> QED
  BY <1>1, <1>2, <1>3, <1>4, <1>5, Zenon DEF x, t

\* Realized and unrealized profit at any price: cash and the position's value.
LEMMA EquityAt ==
  ASSUME NEW c \in Int, NEW s \in Int, NEW e, IsFraction(e), NEW mid, IsFraction(mid)
  PROVE  Equity(s, e, Account(s, e, c), mid) = QAdd(Whole(c), QMul(Whole(s), mid))
<1> DEFINE n == e[1]
           d == e[2]
           m == mid[1]
           k == mid[2]
           x == m * d - n * k
           a == c * d + s * n
<1>1. /\ n \in Int /\ d \in Positive /\ m \in Int /\ k \in Positive
      /\ e = Q(n, d) /\ mid = Q(m, k)
  BY DEF IsFraction, Positive
<1> HIDE DEF n, d, m, k
<1>2. x \in Int /\ a \in Int /\ k * d \in Positive /\ 1 * (k * d) = k * d /\ s * x \in Int /\ 1 \in Positive
  BY <1>1 DEF Positive
<1>3. Account(s, e, c) = Q(a, d)
  BY <1>1, AccountQ
<1>4. QSub(mid, e) = Q(x, k * d)
  BY <1>1, QSubQ
<1>5. QMul(Whole(s), Q(x, k * d)) = Q(s * x, 1 * (k * d))
  BY <1>2, QMulQ, WholeQ
<1>6. QAdd(Q(a, d), Q(s * x, k * d)) = Q(a * (k * d) + (s * x) * d, d * (k * d))
  BY <1>1, <1>2, QAddQ
<1>7. QAdd(Whole(c), QMul(Whole(s), mid)) = Q(c * k + s * m, k)
  BY <1>1, AccountQ DEF Account
<1>8. Q(a * (k * d) + (s * x) * d, d * (k * d)) = Q(c * k + s * m, k)
  <2>1. /\ a * (k * d) + (s * x) * d \in Int /\ d * (k * d) \in Positive
        /\ c * k + s * m \in Int
        /\ (a * (k * d) + (s * x) * d) * k = (c * k + s * m) * (d * (k * d))
    BY <1>1 DEF Positive
  <2> QED
    BY <1>1, <2>1, QEqual
<1> QED
  BY <1>2, <1>3, <1>4, <1>5, <1>6, <1>7, <1>8, Zenon DEF Equity, get_unrealized_pnl
-----------------------------------------------------------------------------
(* add_fill.                                                               *)

\* Before the first fill.
LEMMA InitPInv == InitPosition => PInv
<1> SUFFICES ASSUME InitPosition PROVE PInv
  OBVIOUS
<1>1. /\ position_size_ = 0 /\ average_entry_price_ = Zero /\ realized_pnl_ = Zero
      /\ cash = 0 /\ entries = {}
  BY DEF InitPosition
<1>2. Account(0, Zero, 0) = Q(0 * 1 + 0 * 0, 1)
  BY Constants, AccountQ
<1>3. Account(0, Zero, 0) = Zero
  BY <1>2, Constants
<1> QED
  BY <1>1, <1>3, Constants DEF PInv, PositionTypeOK, Books, EntryWithinFills

\* A fill from flat.
LEMMA OpenInv ==
  ASSUME PInv, NEW fill_size \in Int \ {0}, NEW fill_price \in Int,
         add_fill(fill_size, fill_price), position_size_ = 0
  PROVE  PInv'
<1>1. /\ cash \in Int /\ entries \subseteq Int /\ average_entry_price_ = Zero
      /\ realized_pnl_ = Account(0, Zero, cash)
  BY DEF PInv, PositionTypeOK, Books, EntryWithinFills
<1>2. /\ position_size_' = fill_size /\ cash' = cash - fill_size * fill_price
      /\ average_entry_price_' = Whole(fill_price) /\ realized_pnl_' = realized_pnl_
      /\ entries' = {fill_price}
  BY DEF add_fill, OpenPosition, IncreasePosition, OffsetPosition, SameDirection, Sign, EntriesAfter
<1>3. cash' \in Int
  BY <1>1, <1>2
<1>4. Account(0, Zero, cash) = Q(cash * 1 + 0 * 0, 1)
  BY <1>1, Constants, AccountQ
<1>5. Account(fill_size, Whole(fill_price), cash') = Q(cash' * 1 + fill_size * fill_price, 1)
  BY <1>3, Constants, WholeQ, AccountQ
<1>6. cash * 1 + 0 * 0 = cash' * 1 + fill_size * fill_price
  BY <1>1, <1>2
<1>7. Books'
  BY <1>1, <1>2, <1>4, <1>5, <1>6 DEF Books
<1>8. IsFraction(realized_pnl_) /\ IsFraction(Whole(fill_price))
  BY Constants, WholeQ, QIsFraction DEF PInv, PositionTypeOK
<1>9. QLeq(Whole(fill_price), Whole(fill_price))
  BY DEF QLeq, Whole
<1> QED
  BY <1>2, <1>3, <1>7, <1>8, <1>9 DEF PInv, PositionTypeOK, EntryWithinFills

\* The books after an increasing fill, on representatives.
LEMMA IncreaseBooks ==
  ASSUME NEW s \in Int \ {0}, NEW f \in Int \ {0}, Sign(s) = Sign(f),
         NEW c \in Int, NEW p \in Int, NEW n \in Int, NEW d \in Positive,
         NEW N, NEW D, N = n * Abs(s) + (p * Abs(f)) * d, D = d * (Abs(s) + Abs(f))
  PROVE  (c * d + s * n) * D = ((c - f * p) * D + (s + f) * N) * d
<1> DEFINE M == n * s + (p * f) * d
           E == d * (s + f)
           t == s + f
           b == c * d + s * n
<1>1. M \in Int /\ E \in Int /\ t \in Int /\ b \in Int /\ c - f * p \in Int /\ d \in Int
  BY DEF Positive
<1>2. (c - f * p) * E + t * M = b * t /\ E = d * t
  BY <1>1
<1> HIDE DEF M, E, t, b
<1>3. b * E = ((c - f * p) * E + t * M) * d
  BY <1>1, <1>2
<1>4. b * (-E) = ((c - f * p) * (-E) + t * (-M)) * d
  BY <1>1, <1>3
<1>5. CASE s > 0
  <2>1. f > 0 /\ Abs(s) = s /\ Abs(f) = f
    BY <1>5 DEF Sign, Abs
  <2>2. N = M /\ D = E
    BY <2>1 DEF M, E
  <2> QED
    BY <1>3, <2>2 DEF b, t
<1>6. CASE s < 0
  <2>1. f < 0 /\ Abs(s) = -s /\ Abs(f) = -f
    BY <1>6 DEF Sign, Abs
  <2>2. N = -M /\ D = -E
    BY <1>1, <2>1 DEF M, E
  <2> QED
    BY <1>4, <2>2 DEF b, t
<1> QED
  BY <1>5, <1>6

\* A mean lies between what it is the mean of.
LEMMA MeanBetween ==
  ASSUME NEW s \in Positive, NEW f \in Positive, NEW p \in Int, NEW n \in Int, NEW d \in Positive,
         NEW q \in Int
  PROVE  LET mean == Q(n * s + (p * f) * d, d * (s + f))
         IN /\ QLeq(Whole(q), Q(n, d)) =>
                 QLeq(Whole(q), mean) \/ QLeq(Whole(p), mean)
            /\ QLeq(Q(n, d), Whole(q)) =>
                 QLeq(mean, Whole(q)) \/ QLeq(mean, Whole(p))
<1> DEFINE N == n * s + (p * f) * d
           D == d * (s + f)
<1>1. N \in Int /\ D \in Positive /\ 1 \in Positive
  BY DEF Positive
<1>2. /\ QLeq(Whole(q), Q(n, d)) <=> q * d <= n * 1
      /\ QLeq(Q(n, d), Whole(q)) <=> n * 1 <= q * d
  BY <1>1, WholeQ, QOrder
<1> HIDE DEF N, D
<1>3. /\ QLeq(Whole(q), Q(N, D)) <=> q * D <= N * 1
      /\ QLeq(Whole(p), Q(N, D)) <=> p * D <= N * 1
      /\ QLeq(Q(N, D), Whole(q)) <=> N * 1 <= q * D
      /\ QLeq(Q(N, D), Whole(p)) <=> N * 1 <= p * D
  BY <1>1, WholeQ, QOrder
<1>4. /\ s \in Nat \ {0} /\ f \in Nat \ {0} /\ d \in Nat \ {0}
      /\ N - p * D = (n - p * d) * s
  BY DEF N, D, Positive
<1>5. N - q * D = (n - q * d) * s + ((p - q) * d) * f
  BY DEF N, D, Positive
<1>6. q * d <= n => q * D <= N \/ p * D <= N
  <2> SUFFICES ASSUME q * d <= n PROVE q * D <= N \/ p * D <= N
    OBVIOUS
  <2>1. CASE p >= q
    <3>1. (n - q * d) * s >= 0 /\ ((p - q) * d) * f >= 0
      BY <1>4, <2>1
    <3> QED
      BY <1>1, <1>5, <3>1 DEF Positive
  <2>2. CASE p < q
    <3>1. p * d <= n
      BY <1>4, <2>2
    <3>2. (n - p * d) * s >= 0
      BY <1>4, <3>1
    <3> QED
      BY <1>1, <1>4, <3>2 DEF Positive
  <2> QED
    BY <2>1, <2>2
<1>7. n <= q * d => N <= q * D \/ N <= p * D
  <2> SUFFICES ASSUME n <= q * d PROVE N <= q * D \/ N <= p * D
    OBVIOUS
  <2>1. CASE p <= q
    <3>1. (n - q * d) * s <= 0 /\ ((p - q) * d) * f <= 0
      BY <1>4, <2>1
    <3> QED
      BY <1>1, <1>5, <3>1 DEF Positive
  <2>2. CASE p > q
    <3>1. n <= p * d
      BY <1>4, <2>2
    <3>2. (n - p * d) * s <= 0
      BY <1>4, <3>1
    <3> QED
      BY <1>1, <1>4, <3>2 DEF Positive
  <2> QED
    BY <2>1, <2>2
<1>8. N * 1 = N /\ n * 1 = n
  BY <1>1
<1> QED
  BY <1>2, <1>3, <1>6, <1>7, <1>8 DEF N, D

\* A fill in the direction of the position.
LEMMA IncreaseInv ==
  ASSUME PInv, NEW fill_size \in Int \ {0}, NEW fill_price \in Int,
         add_fill(fill_size, fill_price), position_size_ # 0,
         Sign(position_size_) = Sign(fill_size)
  PROVE  PInv'
<1> DEFINE s == position_size_
           f == fill_size
           p == fill_price
           n == average_entry_price_[1]
           d == average_entry_price_[2]
           N == n * Abs(s) + (p * Abs(f)) * d
           D == d * (Abs(s) + Abs(f))
<1>1. /\ s \in Int \ {0} /\ cash \in Int /\ entries \subseteq Int
      /\ n \in Int /\ d \in Positive /\ average_entry_price_ = Q(n, d)
      /\ realized_pnl_ = Account(s, Q(n, d), cash) /\ IsFraction(realized_pnl_)
  BY DEF PInv, PositionTypeOK, Books, IsFraction, Positive
<1>2. /\ \E q \in entries : QLeq(Whole(q), Q(n, d))
      /\ \E q \in entries : QLeq(Q(n, d), Whole(q))
  BY <1>1 DEF PInv, EntryWithinFills
<1>3. Abs(s) \in Positive /\ Abs(f) \in Positive
  BY <1>1 DEF Abs, Positive
<1>4. /\ s' = s + f /\ cash' = cash - f * p
      /\ average_entry_price_' = VWAP(f, p) /\ realized_pnl_' = realized_pnl_
      /\ entries' = EntriesAfter(f, p)
  <2>1. ~(Sign(s) = Sign(-f))
    BY <1>1 DEF Sign
  <2> QED
    BY <2>1 DEF add_fill, OpenPosition, IncreasePosition, OffsetPosition, SameDirection
<1>5. s' # 0 /\ entries' = entries \cup {p}
  <2>1. s + f # 0 /\ Sign(s + f) = Sign(f) /\ Sign(s + f) = Sign(s)
    BY <1>1 DEF Sign
  <2> QED
    BY <1>4, <2>1 DEF EntriesAfter, SameDirection
<1>6. average_entry_price_' = Q(N, D) /\ N \in Int /\ D \in Positive
  <2>1. VWAP(f, p) = QDiv(QAdd(QMul(Q(n, d), Whole(Abs(s))), Whole(p * Abs(f))), Abs(s) + Abs(f))
    BY <1>1 DEF VWAP
  <2> HIDE DEF n, d
  <2> QED
    BY <1>1, <1>3, <1>4, <2>1, VWAPQ
<1> HIDE DEF n, d
<1>7. Books'
  <2>1. Account(s, Q(n, d), cash) = Q(cash * d + s * n, d)
    BY <1>1, AccountQ
  <2>2. cash - f * p \in Int /\ s + f \in Int /\ cash * d + s * n \in Int
    BY <1>1 DEF Positive
  <2>3. (cash * d + s * n) * D = ((cash - f * p) * D + (s + f) * N) * d
    BY <1>1, IncreaseBooks
  <2> HIDE DEF N, D
  <2>4. Account(s + f, Q(N, D), cash - f * p) = Q((cash - f * p) * D + (s + f) * N, D)
    BY <1>6, <2>2, AccountQ
  <2>5. (cash - f * p) * D + (s + f) * N \in Int
    BY <1>6, <2>2 DEF Positive
  <2>6. Q(cash * d + s * n, d) = Q((cash - f * p) * D + (s + f) * N, D)
    BY <1>1, <1>6, <2>2, <2>3, <2>5, QEqual
  <2> QED
    BY <1>1, <1>4, <1>6, <2>1, <2>4, <2>6 DEF Books
<1>8. EntryWithinFills'
  <2>1. ASSUME NEW q \in entries, QLeq(Whole(q), Q(n, d))
        PROVE  \E u \in entries' : QLeq(Whole(u), Q(N, D))
    <3>1. QLeq(Whole(q), Q(N, D)) \/ QLeq(Whole(p), Q(N, D))
      BY <1>1, <1>3, <2>1, MeanBetween
    <3> QED
      BY <1>5, <3>1
  <2>2. ASSUME NEW q \in entries, QLeq(Q(n, d), Whole(q))
        PROVE  \E u \in entries' : QLeq(Q(N, D), Whole(u))
    <3>1. QLeq(Q(N, D), Whole(q)) \/ QLeq(Q(N, D), Whole(p))
      BY <1>1, <1>3, <2>2, MeanBetween
    <3> QED
      BY <1>5, <3>1
  <2> HIDE DEF N, D
  <2> QED
    BY <1>2, <1>5, <1>6, <2>1, <2>2 DEF EntryWithinFills
<1>9. PositionTypeOK' /\ entries' \subseteq Int
  <2>1. IsFraction(average_entry_price_')
    BY <1>6, QIsFraction
  <2> QED
    BY <1>1, <1>4, <1>5, <2>1 DEF PositionTypeOK
<1> QED
  BY <1>7, <1>8, <1>9 DEF PInv

\* A fill against the position: part of it, all of it or more.
LEMMA OffsetInv ==
  ASSUME PInv, NEW fill_size \in Int \ {0}, NEW fill_price \in Int,
         add_fill(fill_size, fill_price), position_size_ # 0,
         Sign(position_size_) = Sign(-fill_size)
  PROVE  PInv'
<1> DEFINE s == position_size_
           f == fill_size
           p == fill_price
           n == average_entry_price_[1]
           d == average_entry_price_[2]
           a == cash * d + s * n
           g == Sign(s) * Smaller(Abs(f), Abs(s))
           R == a + g * (p * d - n)
           m == cash - f * p
<1>1. /\ s \in Int \ {0} /\ cash \in Int /\ entries \subseteq Int
      /\ n \in Int /\ d \in Positive /\ average_entry_price_ = Q(n, d)
      /\ realized_pnl_ = Account(s, Q(n, d), cash)
  BY DEF PInv, PositionTypeOK, Books, IsFraction, Positive
<1>2. /\ s' = s + f /\ cash' = m
      /\ average_entry_price_' = EntryAfterOffset(f, p)
      /\ realized_pnl_' = QAdd(realized_pnl_, ClosingPnl(f, p))
      /\ entries' = EntriesAfter(f, p)
  <2>1. ~(Sign(s) = Sign(f))
    BY <1>1 DEF Sign
  <2> QED
    BY <2>1 DEF add_fill, OpenPosition, IncreasePosition, OffsetPosition, SameDirection
<1>3. ClosingPnl(f, p) = QMul(Whole(g), QSub(Whole(p), Q(n, d)))
  BY <1>1 DEF ClosingPnl
<1> HIDE DEF n, d
<1>4. g \in Int /\ a \in Int /\ R \in Int /\ m \in Int /\ s + f \in Int
  <2>1. g \in Int
    BY <1>1 DEF Sign, Smaller, Abs
  <2> HIDE DEF g
  <2> QED
    BY <1>1, <2>1 DEF Positive
<1>5. realized_pnl_' = Q(R, d)
  <2>1. realized_pnl_ = Q(a, d)
    BY <1>1, AccountQ
  <2> HIDE DEF a, g
  <2> QED
    BY <1>1, <1>2, <1>3, <1>4, <2>1, RealizedQ
<1>6. IsFraction(realized_pnl_')
  BY <1>1, <1>4, <1>5, QIsFraction
<1>7. s' \in Int /\ cash' \in Int
  BY <1>2, <1>4
<1>8. CASE s + f = 0
  <2>1. average_entry_price_' = Zero /\ entries' = {} /\ s' = 0
    BY <1>2, <1>8 DEF EntryAfterOffset, EntriesAfter
  <2>2. g = s
    BY <1>1, <1>8 DEF Sign, Smaller, Abs
  <2>3. R * 1 = (m * 1 + 0 * 0) * d
    BY <1>1, <1>8, <2>2 DEF Positive
  <2>4. Account(0, Zero, m) = Q(m * 1 + 0 * 0, 1)
    BY <1>4, Constants, AccountQ
  <2> HIDE DEF R, m
  <2>5. Q(R, d) = Q(m * 1 + 0 * 0, 1)
    BY <1>1, <1>4, <2>3, QEqual, Constants
  <2> QED
    BY <1>2, <1>5, <1>6, <1>7, <2>1, <2>4, <2>5, Constants
    DEF PInv, PositionTypeOK, Books, EntryWithinFills
<1>9. CASE s + f # 0 /\ Sign(s + f) = Sign(f)
  <2>1. Sign(s + f) # Sign(s)
    BY <1>1, <1>9 DEF Sign
  <2>2. average_entry_price_' = Whole(p) /\ entries' = {p} /\ s' # 0
    BY <1>2, <1>9, <2>1 DEF EntryAfterOffset, EntriesAfter, SameDirection
  <2>3. g = s
    BY <1>1, <1>9 DEF Sign, Smaller, Abs
  <2>4. R * 1 = (m * 1 + (s + f) * p) * d
    BY <1>1, <2>3 DEF Positive
  <2>5. Account(s + f, Whole(p), m) = Q(m * 1 + (s + f) * p, 1)
    BY <1>4, Constants, WholeQ, AccountQ
  <2> HIDE DEF R, m
  <2>6. m * 1 + (s + f) * p \in Int
    BY <1>4
  <2>7. Q(R, d) = Q(m * 1 + (s + f) * p, 1)
    BY <1>1, <1>4, <2>4, <2>6, QEqual, Constants
  <2>8. IsFraction(Whole(p)) /\ QLeq(Whole(p), Whole(p))
    BY Constants, WholeQ, QIsFraction DEF QLeq, Whole
  <2> QED
    BY <1>2, <1>5, <1>6, <1>7, <2>2, <2>5, <2>7, <2>8
    DEF PInv, PositionTypeOK, Books, EntryWithinFills
<1>10. CASE s + f # 0 /\ Sign(s + f) # Sign(f)
  <2>1. /\ average_entry_price_' = average_entry_price_ /\ entries' = entries /\ s' # 0
    BY <1>2, <1>10 DEF EntryAfterOffset, EntriesAfter, SameDirection
  <2>2. g = -f
    BY <1>1, <1>10 DEF Sign, Smaller, Abs
  <2>3. R = m * d + (s + f) * n
    BY <1>1, <2>2 DEF Positive
  <2>4. Account(s + f, Q(n, d), m) = Q(m * d + (s + f) * n, d)
    BY <1>1, <1>4, AccountQ
  <2>5. IsFraction(average_entry_price_) /\ EntryWithinFills
    BY DEF PInv, PositionTypeOK
  <2> HIDE DEF R, m
  <2> QED
    BY <1>1, <1>2, <1>5, <1>6, <1>7, <2>1, <2>3, <2>4, <2>5
    DEF PInv, PositionTypeOK, Books, EntryWithinFills
<1> QED
  BY <1>8, <1>9, <1>10

\* Any fill.
LEMMA AddFillInv ==
  ASSUME PInv, NEW fill_size \in Int, NEW fill_price \in Int, add_fill(fill_size, fill_price)
  PROVE  PInv'
<1>1. position_size_ \in Int
  BY DEF PInv, PositionTypeOK
<1>2. CASE fill_size = 0
  BY <1>2 DEF add_fill, positionVars, PInv, PositionTypeOK, Books, EntryWithinFills
<1>3. CASE fill_size # 0
  <2>1. CASE position_size_ = 0
    BY <1>3, <2>1, OpenInv
  <2>2. CASE position_size_ # 0
    <3>1. Sign(position_size_) = Sign(fill_size) \/ Sign(position_size_) = Sign(-fill_size)
      BY <1>1, <1>3, <2>2 DEF Sign
    <3> QED
      BY <1>3, <2>2, <3>1, IncreaseInv, OffsetInv
  <2> QED
    BY <2>1, <2>2
<1> QED
  BY <1>2, <1>3

-----------------------------------------------------------------------------
(* The theorems.                                                           *)

\* The invariant holds after any sequence of fills.
THEOREM PositionInvariance == PositionSpec => []PInv
<1>1. ASSUME PInv, [\E fill_size, fill_price \in Int : add_fill(fill_size, fill_price)]_positionVars
      PROVE  PInv'
  <2>1. CASE \E fill_size, fill_price \in Int : add_fill(fill_size, fill_price)
    BY <1>1, <2>1, AddFillInv
  <2>2. CASE UNCHANGED positionVars
    BY <1>1, <2>2 DEF positionVars, PInv, PositionTypeOK, Books, EntryWithinFills
  <2> QED
    BY <1>1, <2>1, <2>2
<1> QED
  BY InitPInv, <1>1, PTL DEF PositionSpec

\* Realized plus unrealized profit, at any price, is the money the fills
\* brought in plus the position's value, however the fills open, increase,
\* close and flip the position.
THEOREM EquityCorrect == PositionSpec => []EquityIdentity
<1>1. PInv => EquityIdentity
  BY EquityAt, Constants DEF PInv, PositionTypeOK, Books, EquityIdentity
<1> QED
  BY PositionInvariance, <1>1, PTL

\* At any price, and not only at the two that the identity names.
THEOREM EquityAtAnyPrice ==
  PositionSpec =>
    [](\A mid : IsFraction(mid) =>
         Equity(position_size_, average_entry_price_, realized_pnl_, mid)
           = QAdd(Whole(cash), QMul(Whole(position_size_), mid)))
<1>1. PInv => \A mid : IsFraction(mid) =>
                Equity(position_size_, average_entry_price_, realized_pnl_, mid)
                  = QAdd(Whole(cash), QMul(Whole(position_size_), mid))
  BY EquityAt DEF PInv, PositionTypeOK, Books
<1> QED
  BY PositionInvariance, <1>1, PTL

\* The average entry price stays between the prices that were paid for the
\* position held, and is reset when the position is closed.
THEOREM EntryPriceCorrect == PositionSpec => []EntryWithinFills
<1>1. PInv => EntryWithinFills
  BY DEF PInv
<1> QED
  BY PositionInvariance, <1>1, PTL

====
