---- MODULE Fractions ----
(***************************************************************************)
(* Exact fractions <<numerator, denominator>> in lowest terms, with a      *)
(* positive denominator.  They stand for the doubles of the alphas and of  *)
(* the position manager: rounding is abstracted away, which leaves the     *)
(* results of the code's comparisons unchanged except within one ulp of a  *)
(* threshold.                                                              *)
(***************************************************************************)
EXTENDS Integers

\* The smallest denominator of n / d.
Denominator(n, d) ==
  CHOOSE k \in 1 .. d :
    /\ (n * k) % d = 0
    /\ \A j \in 1 .. (k - 1) : (n * j) % d # 0

\* n / d, for d > 0.
Q(n, d) == LET k == Denominator(n, d) IN <<(n * k) \div d, k>>

IsFraction(x) == x[1] \in Int /\ x[2] \in Nat \ {0} /\ x = Q(x[1], x[2])

Zero == <<0, 1>>
One == <<1, 1>>
Whole(n) == <<n, 1>>

QNeg(x) == <<-x[1], x[2]>>
QAdd(x, y) == Q(x[1] * y[2] + y[1] * x[2], x[2] * y[2])
QSub(x, y) == QAdd(x, QNeg(y))
QMul(x, y) == Q(x[1] * y[1], x[2] * y[2])

\* x / n, for a positive integer n.
QDiv(x, n) == Q(x[1], x[2] * n)

QLess(x, y) == x[1] * y[2] < y[1] * x[2]
QLeq(x, y) == x[1] * y[2] <= y[1] * x[2]

\* std::clamp(x, -1.0, 1.0)
Clamp1(x) == IF QLess(x, QNeg(One)) THEN QNeg(One) ELSE IF QLess(One, x) THEN One ELSE x

====
