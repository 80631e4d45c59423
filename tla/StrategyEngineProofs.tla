---- MODULE StrategyEngineProofs ----
(***************************************************************************)
(* Proofs about StrategyEngine for books, ticks, trade sizes and mark      *)
(* intervals of any size: the log reconciles with the fills, and a fill    *)
(* needs primed signals, a top of the book that moved and, under "both",   *)
(* two signals that agree.                                                 *)
(***************************************************************************)
EXTENDS StrategyEngine, PositionManagerProofs, SequenceTheorems

-----------------------------------------------------------------------------
(* The inductive invariant.                                                *)

TopRecord == [bid : Nat, bid_size : Nat, ask : Nat, ask_size : Nat]

\* A book that the strategy trades on.
Live(top) == TwoSided(top) /\ Denom(top) # 0

\* TypeOK and what it leaves out.
Types ==
  /\ TypeOK
  /\ momentum = [has_prev |-> momentum.has_prev, prev_microprice |-> momentum.prev_microprice]
  /\ ofi \in [initialized : BOOLEAN, prev : TopRecord]
  /\ ledger \in [size : Int, cash : Int, lost : BOOLEAN]

\* The signals are primed by the tick that writes the opening mark.
Unprimed == ~emitted_initial_p_ => ~momentum.has_prev /\ ~ofi.initialized

\* The signals in use have seen the top of a live book.
Seen ==
  LET top == Top(bids_, asks_)
  IN Live(top) =>
       /\ selection # "ofi" => momentum.has_prev /\ momentum.prev_microprice = Microprice(top)
       /\ selection # "momentum" => ofi = [initialized |-> TRUE, prev |-> top]

\* A reader who has lost no trade has the position and the cash.
LedgerKept == ~ledger.lost => ledger.size = position_size_ /\ ledger.cash = cash

IInv ==
  /\ Types
  /\ PInv
  /\ Unprimed
  /\ Seen
  /\ LedgerKept
  /\ RowsReconcile

-----------------------------------------------------------------------------
(* The book.                                                               *)

\* Max and Min of a set of prices.
LEMMA Extremes ==
  ASSUME NEW T, T \subseteq Price, T # {}
  PROVE  Max(T) \in T /\ Min(T) \in T
<1>1. kMaxPrice \in Nat /\ T \subseteq Nat
  BY BookAssumption DEF Price
<1>2. PICK a \in T : \A y \in T : a <= y
  BY <1>1, FirstOf
<1> DEFINE U == {kMaxPrice - y : y \in T}
<1>3. U \subseteq Nat /\ U # {}
  BY <1>1 DEF Price
<1>4. PICK k \in U : \A j \in U : k <= j
  BY <1>3, FirstOf
<1>5. PICK b \in T : k = kMaxPrice - b
  BY <1>4
<1>6. ASSUME NEW y \in T PROVE b >= y
  <2>1. kMaxPrice - b <= kMaxPrice - y
    BY <1>4, <1>5
  <2> QED
    BY <1>1, <2>1
<1>7. \E x \in T : \A y \in T : x <= y
  BY <1>2
<1>8. \E x \in T : \A y \in T : x >= y
  BY <1>6
<1> QED
  BY <1>7, <1>8 DEF Max, Min

\* The top of a book has prices and sizes.
LEMMA TopFacts ==
  ASSUME NEW bids \in [Price -> Size], NEW asks \in [Price -> Size]
  PROVE  Top(bids, asks) \in TopRecord
<1>1. kMaxPrice \in Nat /\ Size \subseteq Nat /\ Price \subseteq Nat
  BY BookAssumption DEF Size, Price
<1>2. ASSUME NEW side \in [Price -> Size]
      PROVE  Levels(side) \subseteq Price
  BY DEF Levels
<1>3. get_best_bid(bids) \in Nat
  <2> DEFINE T == Levels(bids)
  <2>1. T \subseteq Price
    BY <1>2
  <2> HIDE DEF T
  <2>2. T # {} => Max(T) \in Price
    BY <2>1, Extremes
  <2>3. T # {} => Max(T) \in Nat
    BY <1>1, <2>2, Zenon
  <2>4. get_best_bid(bids) = IF T = {} THEN 255 ELSE Max(T)
    BY DEF get_best_bid, kNoBid, T
  <2> QED
    BY ONLY <2>3, <2>4
<1>4. get_best_ask(asks) \in Nat
  <2> DEFINE T == Levels(asks)
  <2>1. T \subseteq Price
    BY <1>2
  <2> HIDE DEF T
  <2>2. T # {} => Min(T) \in Price
    BY <2>1, Extremes
  <2>3. T # {} => Min(T) \in Nat
    BY <1>1, <2>2, Zenon
  <2>4. get_best_ask(asks) = IF T = {} THEN 255 ELSE Min(T)
    BY DEF get_best_ask, kNoAsk, T
  <2> QED
    BY ONLY <2>3, <2>4
<1>5. ASSUME NEW side \in [Price -> Size], NEW p \in Nat
      PROVE  SizeAt(side, p) \in Nat
  <2>1. p > kMaxPrice \/ p \in Price
    BY <1>1 DEF Price
  <2> QED
    BY <1>1, <2>1 DEF SizeAt
<1> QED
  BY <1>3, <1>4, <1>5 DEF Top, TopRecord

\* The sum of the sizes, wrapped.
LEMMA DenomFacts ==
  ASSUME NEW top \in TopRecord
  PROVE  Denom(top) \in Nat /\ (Denom(top) # 0 => Denom(top) \in Positive)
<1>1. top.bid_size + top.ask_size \in Int /\ SizeRange \in Positive
  BY BookAssumption DEF TopRecord, Positive
<1> DEFINE n == top.bid_size + top.ask_size
<1> HIDE DEF n
<1>2. n % SizeRange \in 0 .. SizeRange - 1
  BY <1>1, Division DEF n
<1> QED
  BY <1>1, <1>2 DEF Denom, n, Positive

\* A tick is applied to one side.
LEMMA BookStep ==
  ASSUME bids_ \in [Price -> Size], asks_ \in [Price -> Size], NEW tick \in Ticks, apply_tick(tick)
  PROVE  bids_' \in [Price -> Size] /\ asks_' \in [Price -> Size]
BY EngineAssumption DEF apply_tick

-----------------------------------------------------------------------------
(* Scores.                                                                 *)

\* The constants of the alphas are in lowest terms.
LEMMA ScoreConstants ==
  /\ kTradeThreshold = Q(3, 5) /\ QNeg(kTradeThreshold) = Q(-3, 5) /\ QNeg(One) = Q(-1, 1)
  /\ <<13, 20>> = Q(13, 20) /\ <<7, 20>> = Q(7, 20)
<1>1. 5 \in Positive /\ 20 \in Positive
  BY DEF Positive
<1>2. <<3, 5>> = Q(3, 5)
  <2>1. \A k \in 1 .. 5 - 1, a \in Int : a * 5 # 3 * k
    OBVIOUS
  <2> QED
    BY <1>1, <2>1, LowestTerms
<1>3. <<13, 20>> = Q(13, 20)
  <2>1. \A k \in 1 .. 20 - 1, a \in Int : a * 20 # 13 * k
    OBVIOUS
  <2> QED
    BY <1>1, <2>1, LowestTerms
<1>4. <<7, 20>> = Q(7, 20)
  <2>1. \A k \in 1 .. 20 - 1, a \in Int : a * 20 # 7 * k
    OBVIOUS
  <2> QED
    BY <1>1, <2>1, LowestTerms
<1>5. QNeg(Q(3, 5)) = Q(-3, 5) /\ QNeg(Q(1, 1)) = Q(-1, 1)
  BY <1>1, Constants, QNegQ
<1> QED
  BY <1>2, <1>3, <1>4, <1>5, Constants DEF kTradeThreshold

\* Every fraction is Q of something.
LEMMA FractionQ ==
  ASSUME NEW x, IsFraction(x)
  PROVE  x[1] \in Int /\ x[2] \in Positive /\ x = Q(x[1], x[2])
BY DEF IsFraction, Positive

\* std::clamp: a fraction within [-1, 1], the same if it was there already.
LEMMA ClampFacts ==
  ASSUME NEW n \in Int, NEW d \in Positive
  PROVE  /\ \E m \in Int, e \in Positive : Clamp1(Q(n, d)) = Q(m, e) /\ -e <= m /\ m <= e
         /\ -d <= n /\ n <= d => Clamp1(Q(n, d)) = Q(n, d)
<1>1. 1 \in Positive /\ d \in Nat \ {0} /\ -1 \in Int
  BY DEF Positive
<1>2. /\ QLess(Q(n, d), QNeg(One)) <=> n * 1 < (-1) * d
      /\ QLess(One, Q(n, d)) <=> 1 * d < n * 1
  BY <1>1, ScoreConstants, Constants, QOrder
<1> DEFINE x == Q(n, d)
           y == Clamp1(x)
<1>3. y = IF n < -d THEN Q(-1, 1) ELSE IF d < n THEN Q(1, 1) ELSE x
  BY <1>1, <1>2, ScoreConstants, Constants DEF Clamp1
<1> HIDE DEF y
<1>4. \E m \in Int, e \in Positive : y = Q(m, e) /\ -e <= m /\ m <= e
  <2>1. CASE n < -d
    <3>1. y = Q(-1, 1) /\ -1 <= -1 /\ -1 <= 1
      BY <1>3, <2>1
    <3> QED
      BY <1>1, <3>1
  <2>2. CASE d < n
    <3>1. y = Q(1, 1) /\ -1 <= 1 /\ 1 <= 1
      BY <1>1, <1>3, <2>2
    <3> QED
      BY <1>1, <3>1
  <2>3. CASE ~(n < -d) /\ ~(d < n)
    BY <1>1, <1>3, <2>3
  <2> QED
    BY <2>1, <2>2, <2>3
<1>5. -d <= n /\ n <= d => y = x
  BY <1>1, <1>3
<1> QED
  BY <1>4, <1>5 DEF y

\* A score n / d lies within [-1, 1].
IsScore(x, n, d) == n \in Int /\ d \in Positive /\ x = Q(n, d) /\ -d <= n /\ n <= d

\* The momentum score is -1, 0 or 1.
LEMMA MomentumFacts ==
  ASSUME NEW top
  PROVE  \E m \in {-1, 0, 1} : MomentumScore(top) = Q(m, 1)
<1>1. Zero = Q(0, 1) /\ One = Q(1, 1) /\ QNeg(One) = Q(-1, 1)
  BY Constants, ScoreConstants
<1>2. MomentumScore(top) = Zero \/ MomentumScore(top) = One \/ MomentumScore(top) = QNeg(One)
  BY DEF MomentumScore
<1> QED
  BY <1>1, <1>2

\* The microprice and the mid price are fractions.
LEMMA PriceFacts ==
  ASSUME NEW top \in TopRecord
  PROVE  /\ Live(top) => \E n \in Int, d \in Positive : Microprice(top) = Q(n, d)
         /\ \E n \in Int, d \in Positive : Mid(top) = Q(n, d)
         /\ IsFraction(Mid(top))
<1>1. /\ top.bid * top.ask_size + top.ask * top.bid_size \in Int
      /\ top.bid + top.ask \in Int /\ 2 \in Positive
  BY DEF TopRecord, Positive
<1>2. Live(top) => Denom(top) \in Positive
  BY DenomFacts DEF Live
<1>3. IsFraction(Q(top.bid + top.ask, 2))
  BY <1>1, QIsFraction
<1> QED
  BY <1>1, <1>2, <1>3 DEF Microprice, Mid

\* How the microprice lies in the spread is a score.
LEMMA PressureFacts ==
  ASSUME NEW top \in TopRecord, Live(top)
  PROVE  \E n, d : IsScore(BookPressure(top), n, d)
<1>1. PICK a \in Int, b \in Positive : Microprice(top) = Q(a, b)
  BY PriceFacts
<1>2. PICK u \in Int, v \in Positive : Mid(top) = Q(u, v)
  BY PriceFacts
<1> DEFINE k == AtLeastOne(top.ask - top.bid)
           x == a * v - u * b
           y == b * v
<1>3. k \in Positive
  BY DEF TopRecord, AtLeastOne, Positive
<1>4. BookPressure(top) = Clamp1(QDiv(QSub(Microprice(top), Mid(top)), k))
  BY DEF BookPressure, Live
<1> HIDE DEF k
<1>5. QSub(Q(a, b), Q(u, v)) = Q(x, y) /\ x \in Int /\ y \in Positive
  BY QSubQ DEF Positive
<1> HIDE DEF x, y
<1>6. QDiv(Q(x, y), k) = Q(x, y * k) /\ y * k \in Positive
  BY <1>3, <1>5, QDivQ DEF Positive
<1>7. \E n \in Int, d \in Positive : Clamp1(Q(x, y * k)) = Q(n, d) /\ -d <= n /\ n <= d
  BY <1>5, <1>6, ClampFacts
<1> QED
  BY <1>1, <1>2, <1>4, <1>5, <1>6, <1>7, Zenon DEF IsScore

\* The flow since the last update, or 0 when nothing moved.
LEMMA FlowFacts ==
  ASSUME NEW top \in TopRecord, ofi.prev \in TopRecord
  PROVE  /\ \E n, d : IsScore(FlowNorm(top), n, d)
         /\ ofi.prev = top => \E d \in Positive : FlowNorm(top) = Q(0, d)
<1> DEFINE x == BidFlow(top, ofi.prev) + AskFlow(top, ofi.prev)
           k == AtLeastOne(Denom(top))
<1>1. x \in Int
  BY DEF TopRecord, BidFlow, AskFlow
<1>2. k \in Positive
  BY DenomFacts DEF AtLeastOne, Positive
<1>3. FlowNorm(top) = Clamp1(Q(x, k))
  BY DEF FlowNorm
<1>4. ofi.prev = top => x = 0
  BY DEF TopRecord, BidFlow, AskFlow
<1> HIDE DEF x, k
<1>5. \E n \in Int, d \in Positive : Clamp1(Q(x, k)) = Q(n, d) /\ -d <= n /\ n <= d
  BY <1>1, <1>2, ClampFacts
<1>6. \E n, d : IsScore(FlowNorm(top), n, d)
  BY <1>3, <1>5, Zenon DEF IsScore
<1>7. ASSUME x = 0 PROVE Clamp1(Q(x, k)) = Q(0, k)
  <2>1. -k <= x /\ x <= k
    BY <1>2, <1>7 DEF Positive
  <2> QED
    BY <1>1, <1>2, <1>7, <2>1, ClampFacts
<1> QED
  BY <1>2, <1>3, <1>4, <1>6, <1>7

\* Seven parts pressure and thirteen parts flow, of twenty.
LEMMA MixQ ==
  ASSUME NEW n \in Int, NEW d \in Positive, NEW m \in Int, NEW e \in Positive
  PROVE  /\ QAdd(QMul(<<13, 20>>, Q(n, d)), QMul(<<7, 20>>, Q(m, e)))
              = Q((13 * n) * (20 * e) + (7 * m) * (20 * d), (20 * d) * (20 * e))
         /\ (13 * n) * (20 * e) + (7 * m) * (20 * d) \in Int
         /\ (20 * d) * (20 * e) \in Positive
<1>1. 20 \in Positive /\ <<13, 20>> = Q(13, 20) /\ <<7, 20>> = Q(7, 20)
  BY ScoreConstants DEF Positive
<1>2. QMul(Q(13, 20), Q(n, d)) = Q(13 * n, 20 * d) /\ QMul(Q(7, 20), Q(m, e)) = Q(7 * m, 20 * e)
  BY <1>1, QMulQ
<1> DEFINE a == 13 * n
           b == 20 * d
           u == 7 * m
           v == 20 * e
<1>3. a \in Int /\ b \in Positive /\ u \in Int /\ v \in Positive
  BY DEF Positive
<1> HIDE DEF a, b, u, v
<1>4. QAdd(Q(a, b), Q(u, v)) = Q(a * v + u * b, b * v)
  BY <1>3, QAddQ
<1>5. a * v + u * b \in Int /\ b * v \in Positive
  BY <1>3 DEF Positive
<1> QED
  BY <1>1, <1>2, <1>4, <1>5, Zenon DEF a, b, u, v

\* The OFI score; when the top of the book has not moved it is at most 7/20.
LEMMA OFIFacts ==
  ASSUME NEW top \in TopRecord, Live(top), ofi.prev \in TopRecord
  PROVE  /\ \E n, d : IsScore(OFIScore(top), n, d)
         /\ ofi.prev = top =>
              \E n, d : IsScore(OFIScore(top), n, d) /\ 20 * n <= 7 * d /\ -(7 * d) <= 20 * n
<1>1. OFIScore(top) = Zero
        \/ OFIScore(top) = Clamp1(QAdd(QMul(<<13, 20>>, FlowNorm(top)),
                                       QMul(<<7, 20>>, BookPressure(top))))
  BY DEF OFIScore
<1>2. CASE OFIScore(top) = Zero
  <2>1. IsScore(Zero, 0, 1) /\ 20 * 0 <= 7 * 1 /\ -(7 * 1) <= 20 * 0
    BY Constants DEF IsScore
  <2> QED
    BY <1>2, <2>1
<1>3. CASE OFIScore(top) = Clamp1(QAdd(QMul(<<13, 20>>, FlowNorm(top)),
                                       QMul(<<7, 20>>, BookPressure(top))))
  <2>1. PICK m, e : IsScore(BookPressure(top), m, e)
    BY PressureFacts
  <2>2. PICK n, d : IsScore(FlowNorm(top), n, d) /\ (ofi.prev = top => n = 0)
    <3>1. CASE ofi.prev = top
      <4>1. PICK d \in Positive : FlowNorm(top) = Q(0, d)
        BY <3>1, FlowFacts
      <4>2. IsScore(FlowNorm(top), 0, d)
        BY <4>1 DEF IsScore, Positive
      <4> QED
        BY <4>2
    <3>2. CASE ofi.prev # top
      BY <3>2, FlowFacts
    <3> QED
      BY <3>1, <3>2
  <2> DEFINE N == (13 * n) * (20 * e) + (7 * m) * (20 * d)
             D == (20 * d) * (20 * e)
  <2>3. /\ n \in Int /\ d \in Positive /\ m \in Int /\ e \in Positive /\ -e <= m /\ m <= e
        /\ BookPressure(top) = Q(m, e) /\ FlowNorm(top) = Q(n, d)
    BY <2>1, <2>2 DEF IsScore
  <2>4. OFIScore(top) = Clamp1(Q(N, D)) /\ N \in Int /\ D \in Positive
    BY <1>3, <2>3, MixQ
  <2> HIDE DEF N, D
  <2>5. \E a \in Int, b \in Positive : Clamp1(Q(N, D)) = Q(a, b) /\ -b <= a /\ a <= b
    BY <2>4, ClampFacts
  <2>6. ASSUME ofi.prev = top
        PROVE  IsScore(OFIScore(top), N, D) /\ 20 * N <= 7 * D /\ -(7 * D) <= 20 * N
    <3>1. N = (7 * m) * (20 * d)
      BY <2>2, <2>3, <2>6 DEF N, Positive
    <3>2. 7 * D - 20 * N = 2800 * ((e - m) * d) /\ 7 * D + 20 * N = 2800 * ((e + m) * d)
      BY <2>3, <3>1 DEF D, Positive
    <3>3. (e - m) * d >= 0 /\ (e + m) * d >= 0 /\ (e - m) * d \in Int /\ (e + m) * d \in Int
      BY <2>3 DEF Positive
    <3>4. 20 * N <= 7 * D /\ -(7 * D) <= 20 * N
      BY <2>4, <3>2, <3>3 DEF Positive
    <3>5. -D <= N /\ N <= D
      BY <2>4, <3>4 DEF Positive
    <3>6. Clamp1(Q(N, D)) = Q(N, D)
      BY <2>4, <3>5, ClampFacts
    <3> QED
      BY <2>4, <3>4, <3>5, <3>6 DEF IsScore
  <2> QED
    BY <2>4, <2>5, <2>6 DEF IsScore
<1> QED
  BY <1>1, <1>2, <1>3

-----------------------------------------------------------------------------
(* Fills.                                                                  *)

\* Where the threshold lies.
LEMMA FillSizeQ ==
  ASSUME NEW n \in Int, NEW d \in Positive
  PROVE  FillSize(Q(n, d)) = IF 3 * d <= 5 * n THEN kDefaultTradeSize
                             ELSE IF 5 * n <= -(3 * d) THEN -kDefaultTradeSize
                             ELSE 0
<1>1. 5 \in Positive /\ -3 \in Int /\ n * 5 = 5 * n /\ (-3) * d = -(3 * d)
  BY DEF Positive
<1>2. QLeq(Q(3, 5), Q(n, d)) <=> 3 * d <= n * 5
  BY <1>1, QOrder
<1>3. QLeq(Q(n, d), Q(-3, 5)) <=> n * 5 <= (-3) * d
  BY <1>1, QOrder
<1> QED
  BY <1>1, <1>2, <1>3, ScoreConstants DEF FillSize

\* The average of a momentum score and an OFI score.
LEMMA AverageQ ==
  ASSUME NEW m \in Int, NEW n \in Int, NEW d \in Positive
  PROVE  /\ QDiv(QAdd(Q(m, 1), Q(n, d)), 2) = Q(m * d + n, d * 2)
         /\ m * d + n \in Int /\ d * 2 \in Positive
<1>1. 1 \in Positive /\ 2 \in Positive /\ n * 1 = n /\ 1 * d = d
  BY DEF Positive
<1>2. QAdd(Q(m, 1), Q(n, d)) = Q(m * d + n * 1, 1 * d)
  BY <1>1, QAddQ
<1>3. m * d + n \in Int /\ d * 2 \in Positive
  BY DEF Positive
<1>4. QDiv(Q(m * d + n, d), 2) = Q(m * d + n, d * 2)
  BY <1>1, <1>3, QDivQ
<1> QED
  BY <1>1, <1>2, <1>3, <1>4, Zenon

\* Signals that are silent, or OFI alone at 7/20, do not reach the threshold.
LEMMA WeakSignals ==
  ASSUME NEW top, selection \in {"momentum", "ofi", "both"},
         selection # "ofi" => MomentumScore(top) = Q(0, 1),
         selection # "momentum" =>
           \E n, d : IsScore(OFIScore(top), n, d) /\ 20 * n <= 7 * d /\ -(7 * d) <= 20 * n
  PROVE  FillSize(CombinedScore(top)) = 0
<1>1. CASE selection = "momentum"
  <2>1. CombinedScore(top) = Q(0, 1)
    BY <1>1 DEF CombinedScore
  <2>2. FillSize(Q(0, 1)) = 0
    BY Constants, FillSizeQ
  <2> QED
    BY <2>1, <2>2
<1>2. CASE selection # "momentum"
  <2>1. PICK n, d : IsScore(OFIScore(top), n, d) /\ 20 * n <= 7 * d /\ -(7 * d) <= 20 * n
    BY <1>2
  <2>2. n \in Int /\ d \in Positive /\ OFIScore(top) = Q(n, d) /\ d \in Nat \ {0}
    BY <2>1 DEF IsScore, Positive
  <2>3. CASE selection = "ofi"
    <3>1. CombinedScore(top) = Q(n, d)
      BY <2>2, <2>3 DEF CombinedScore
    <3>2. ~(3 * d <= 5 * n) /\ ~(5 * n <= -(3 * d))
      BY <2>1, <2>2
    <3> QED
      BY <2>2, <3>1, <3>2, FillSizeQ
  <2>4. CASE selection = "both"
    <3>1. CombinedScore(top) = QDiv(QAdd(Q(0, 1), Q(n, d)), 2)
      BY <2>2, <2>4 DEF CombinedScore
    <3>2. CombinedScore(top) = Q(0 * d + n, d * 2) /\ 0 * d + n \in Int /\ d * 2 \in Positive
      BY <2>2, <3>1, AverageQ
    <3>3. ~(3 * (d * 2) <= 5 * (0 * d + n)) /\ ~(5 * (0 * d + n) <= -(3 * (d * 2)))
      BY <2>1, <2>2
    <3> DEFINE a == 0 * d + n
               b == d * 2
    <3> HIDE DEF a, b
    <3>4. FillSize(Q(a, b)) = 0
      BY <3>2, <3>3, FillSizeQ DEF a, b
    <3> QED
      BY <3>2, <3>4 DEF a, b
  <2> QED
    BY <1>2, <2>3, <2>4
<1> QED
  BY <1>1, <1>2

\* Under "both" the two scores have the sign of the fill.
LEMMA Agreement ==
  ASSUME NEW top \in TopRecord, Live(top), ofi.prev \in TopRecord, selection = "both"
  PROVE  /\ FillSize(CombinedScore(top)) > 0 =>
              QLess(Zero, MomentumScore(top)) /\ QLess(Zero, OFIScore(top))
         /\ FillSize(CombinedScore(top)) < 0 =>
              QLess(MomentumScore(top), Zero) /\ QLess(OFIScore(top), Zero)
<1>1. PICK m \in {-1, 0, 1} : MomentumScore(top) = Q(m, 1)
  BY MomentumFacts
<1>2. PICK n, d : IsScore(OFIScore(top), n, d)
  BY OFIFacts
<1>3. /\ n \in Int /\ d \in Positive /\ d \in Nat \ {0} /\ OFIScore(top) = Q(n, d)
      /\ -d <= n /\ n <= d /\ m \in Int
  BY <1>2 DEF IsScore, Positive
<1>4. CombinedScore(top) = QDiv(QAdd(Q(m, 1), Q(n, d)), 2)
  BY <1>1, <1>3 DEF CombinedScore
<1> DEFINE a == m * d + n
           b == d * 2
<1>5. CombinedScore(top) = Q(a, b) /\ a \in Int /\ b \in Positive
  BY <1>3, <1>4, AverageQ
<1>6. /\ QLess(Zero, MomentumScore(top)) <=> 0 * 1 < m * 1
      /\ QLess(MomentumScore(top), Zero) <=> m * 1 < 0 * 1
      /\ QLess(Zero, OFIScore(top)) <=> 0 * d < n * 1
      /\ QLess(OFIScore(top), Zero) <=> n * 1 < 0 * d
  BY <1>1, <1>3, Constants, QOrder
<1>7. 3 * b <= 5 * a => m > 0 /\ n > 0
  BY <1>3
<1>8. 5 * a <= -(3 * b) => m < 0 /\ n < 0
  BY <1>3
<1> HIDE DEF a, b
<1>9. /\ FillSize(Q(a, b)) > 0 => 3 * b <= 5 * a
      /\ FillSize(Q(a, b)) < 0 => 5 * a <= -(3 * b)
  BY <1>5, FillSizeQ, EngineAssumption
<1> QED
  BY <1>3, <1>5, <1>6, <1>7, <1>8, <1>9

-----------------------------------------------------------------------------
(* One tick.                                                               *)

\* The rows of a tick, put together from its parts.
LEMMA Joined ==
  ASSUME NEW a, NEW b
  PROVE  /\ <<>> \o <<>> = <<>>
         /\ (<<>> \o <<>>) \o <<a>> = <<a>>
         /\ (<<a>> \o <<>>) \o <<>> = <<a>>
         /\ (<<a>> \o <<>>) \o <<b>> = <<a, b>>
         /\ (<<>> \o <<a>>) \o <<>> = <<a>>
         /\ (<<>> \o <<a>>) \o <<b>> = <<a, b>>
<1> DEFINE S == {a, b}
           x == <<a>>
           y == <<b>>
<1>1. <<>> \in Seq(S) /\ x \in Seq(S) /\ y \in Seq(S) /\ <<a, b>> \in Seq(S)
  OBVIOUS
<1>2. x \o y = <<a, b>>
  <2> DEFINE c == x \o y
             e == <<a, b>>
  <2>1. /\ Len(x) = 1 /\ Len(y) = 1 /\ x[1] = a /\ y[1] = b
        /\ e \in Seq(S) /\ Len(e) = 2 /\ e[1] = a /\ e[2] = b
    OBVIOUS
  <2> HIDE DEF S, x, y, e
  <2>2. /\ c \in Seq(S) /\ Len(c) = Len(x) + Len(y)
        /\ \A i \in 1 .. Len(x) + Len(y) : c[i] = IF i <= Len(x) THEN x[i] ELSE y[i - Len(x)]
    BY <1>1, ConcatProperties
  <2> HIDE DEF c
  <2>3. Len(c) = 2 /\ c[1] = a /\ c[2] = b
    BY <2>1, <2>2
  <2>4. Len(c) = Len(e) /\ \A i \in 1 .. Len(c) : c[i] = e[i]
    <3>1. \A i \in 1 .. 2 : i = 1 \/ i = 2
      OBVIOUS
    <3> QED
      BY <2>1, <2>3, <3>1
  <2>5. c \in Seq(S) /\ e \in Seq(S)
    BY <2>1, <2>2
  <2>6. c = e
    BY ONLY <2>4, <2>5, SeqEqual
  <2> QED
    BY <2>6 DEF c, e
<1> HIDE DEF S, x, y
<1>3. /\ <<>> \o <<>> = <<>>
      /\ <<>> \o x = x /\ x \o <<>> = x
      /\ <<>> \o y = y /\ y \o <<>> = y
  BY <1>1, ConcatEmptySeq
<1> QED
  BY <1>2, <1>3, Zenon DEF x, y

\* The book after a tick.
LEMMA TickFacts ==
  ASSUME IInv, NEW tick \in Ticks, ProcessTick(tick), NEW top, top = Top(bids_', asks_')
  PROVE  /\ bids_' \in [Price -> Size] /\ asks_' \in [Price -> Size]
         /\ top \in TopRecord
         /\ Skip(top) \/ Trade(top)
         /\ ofi.prev \in TopRecord
         /\ selection \in {"momentum", "ofi", "both"} /\ selection' = selection
<1>1. bids_ \in [Price -> Size] /\ asks_ \in [Price -> Size] /\ apply_tick(tick)
  BY DEF IInv, Types, TypeOK, ProcessTick
<1>2. bids_' \in [Price -> Size] /\ asks_' \in [Price -> Size]
  BY <1>1, BookStep
<1>3. top \in TopRecord
  BY <1>2, TopFacts
<1>4. Skip(top) \/ Trade(top)
  BY DEF ProcessTick
<1>5. ofi.prev \in TopRecord /\ selection \in Selections
  BY DEF IInv, Types, TypeOK
<1>6. selection \in {"momentum", "ofi", "both"} /\ selection' = selection
  BY <1>5, EngineAssumption DEF ProcessTick
<1> QED
  BY <1>2, <1>3, <1>4, <1>5, <1>6

\* The tick of the opening mark makes no fill.
LEMMA NoFillUnprimed ==
  ASSUME IInv, ~emitted_initial_p_, NEW top, selection \in {"momentum", "ofi", "both"}
  PROVE  FillSize(CombinedScore(top)) = 0
<1>1. ~momentum.has_prev /\ ~ofi.initialized
  BY DEF IInv, Unprimed
<1>2. MomentumScore(top) = Q(0, 1) /\ OFIScore(top) = Zero
  BY <1>1, Constants DEF MomentumScore, OFIScore
<1>3. IsScore(Zero, 0, 1) /\ 20 * 0 <= 7 * 1 /\ -(7 * 1) <= 20 * 0
  BY Constants DEF IsScore
<1>4. \E n, d : IsScore(OFIScore(top), n, d) /\ 20 * n <= 7 * d /\ -(7 * d) <= 20 * n
  BY <1>2, <1>3
<1> QED
  BY <1>2, <1>4, WeakSignals

\* What a tick that finds a live book does to the position.
LEMMA TradeFacts ==
  ASSUME IInv, NEW tick \in Ticks, ProcessTick(tick), NEW top, top = Top(bids_', asks_'),
         Trade(top), NEW f, f = FillSize(CombinedScore(top)), NEW p, p = FillPrice(f, top)
  PROVE  /\ f \in Int /\ p \in Int /\ add_fill(f, p)
         /\ position_size_' = position_size_ + f /\ cash' = cash - f * p
         /\ PInv'
         /\ ~emitted_initial_p_ => f = 0
         /\ rows' = OpeningRow(top) \o TradeRow(f, p) \o PeriodicRow(top)
<1>1. top \in TopRecord /\ selection \in {"momentum", "ofi", "both"}
  BY TickFacts
<1>2. f \in Int
  BY EngineAssumption DEF FillSize
<1>3. p \in Int
  BY <1>1 DEF FillPrice, TopRecord
<1>4. add_fill(f, p) /\ rows' = OpeningRow(top) \o TradeRow(f, p) \o PeriodicRow(top)
  BY DEF Trade
<1>5. PInv /\ position_size_ \in Int /\ cash \in Int
  BY DEF IInv, PInv, PositionTypeOK
<1>6. PInv'
  BY <1>2, <1>3, <1>4, <1>5, AddFillInv
<1>7. position_size_' = position_size_ + f /\ cash' = cash - f * p
  <2>1. CASE f = 0
    BY <1>3, <1>4, <1>5, <2>1 DEF add_fill, positionVars
  <2>2. CASE f # 0
    BY <1>4, <2>2 DEF add_fill
  <2> QED
    BY <2>1, <2>2
<1>8. ~emitted_initial_p_ => f = 0
  BY <1>1, NoFillUnprimed
<1> QED
  BY <1>2, <1>3, <1>4, <1>6, <1>7, <1>8

\* Its rows: marks of the position after the fill, and a trade, first, if
\* there was one.
LEMMA RowFacts ==
  ASSUME IInv, NEW tick \in Ticks, ProcessTick(tick), NEW top, top = Top(bids_', asks_'),
         Trade(top), NEW f, f = FillSize(CombinedScore(top)), NEW p, p = FillPrice(f, top),
         NEW m, m = MarkRow(top, position_size_', average_entry_price_', realized_pnl_'),
         NEW t, t = [type |-> "T", price |-> Whole(p), size |-> f, pnl |-> realized_pnl_']
  PROVE  \/ f = 0 /\ rows' \in {<<>>, <<m>>, <<m, m>>}
         \/ f # 0 /\ rows' \in {<<t>>, <<t, m>>}
<1>1. /\ add_fill(f, p) /\ (~emitted_initial_p_ => f = 0)
      /\ rows' = OpeningRow(top) \o TradeRow(f, p) \o PeriodicRow(top)
  BY TradeFacts
<1>2. PeriodicRow(top) = <<m>> \/ PeriodicRow(top) = <<>>
  BY DEF PeriodicRow
<1>3. CASE f = 0
  <2>1. UNCHANGED <<position_size_, average_entry_price_, realized_pnl_>>
    BY <1>1, <1>3 DEF add_fill, positionVars
  <2>2. OpeningRow(top) = <<m>> \/ OpeningRow(top) = <<>>
    BY <2>1 DEF OpeningRow
  <2>3. TradeRow(f, p) = <<>>
    BY <1>3 DEF TradeRow
  <2>4. \/ rows' = (<<m>> \o <<>>) \o <<m>> \/ rows' = (<<m>> \o <<>>) \o <<>>
        \/ rows' = (<<>> \o <<>>) \o <<m>> \/ rows' = (<<>> \o <<>>) \o <<>>
    BY <1>1, <1>2, <2>2, <2>3, Zenon
  <2>5. rows' = <<m, m>> \/ rows' = <<m>> \/ rows' = <<>>
    BY ONLY <2>4, Joined, Zenon
  <2> QED
    BY ONLY <1>3, <2>5, Zenon
<1>4. CASE f # 0
  <2>1. OpeningRow(top) = <<>>
    BY <1>1, <1>4 DEF OpeningRow
  <2>2. TradeRow(f, p) = <<t>>
    BY <1>4 DEF TradeRow
  <2> QED
    <3>1. rows' = (<<>> \o <<t>>) \o <<m>> \/ rows' = (<<>> \o <<t>>) \o <<>>
      BY <1>1, <1>2, <2>1, <2>2, Zenon
    <3>2. rows' = <<t, m>> \/ rows' = <<t>>
      BY ONLY <3>1, Joined, Zenon
    <3> QED
      BY ONLY <1>4, <3>2, Zenon
<1> QED
  BY <1>3, <1>4

\* Marks change nothing for a reader.
LEMMA LedgerMarks ==
  ASSUME NEW tick, ProcessTick(tick), \A i \in DOMAIN rows' : rows'[i].type = "P"
  PROVE  ledger' = ledger
BY DEF ProcessTick, LedgerAfter

\* A trade is added, unless its row was refused.
LEMMA LedgerTrade ==
  ASSUME NEW tick, ProcessTick(tick), NEW f \in Int, NEW p \in Int,
         ledger \in [size : Int, cash : Int, lost : BOOLEAN],
         1 \in DOMAIN rows', rows'[1].type = "T", rows'[1].size = f, rows'[1].price = Whole(p),
         \A i \in DOMAIN rows' : i # 1 => rows'[i].type = "P"
  PROVE  /\ ledger' \in [size : Int, cash : Int, lost : BOOLEAN]
         /\ ~ledger'.lost => /\ ~ledger.lost
                             /\ ledger'.size = ledger.size + f
                             /\ ledger'.cash = ledger.cash - f * p
<1> DEFINE trades == {i \in DOMAIN rows' : rows'[i].type = "T"}
           more == [size |-> ledger.size + f, cash |-> ledger.cash - f * p, lost |-> ledger.lost]
<1>1. trades = {1}
  OBVIOUS
<1>2. Max(trades) = 1
  BY <1>1 DEF Max
<1>3. Whole(p)[1] = p
  BY DEF Whole
<1>4. ledger' = IF trades = {} THEN ledger
                ELSE IF trades \subseteq refused' THEN [ledger EXCEPT !.lost = TRUE]
                ELSE [size |-> ledger.size + rows'[Max(trades)].size,
                      cash |-> ledger.cash - rows'[Max(trades)].size * rows'[Max(trades)].price[1],
                      lost |-> ledger.lost]
  BY DEF ProcessTick, LedgerAfter
<1>5. trades # {}
  BY <1>1
<1> HIDE DEF trades
<1>6. \/ ledger' = [ledger EXCEPT !.lost = TRUE]
      \/ ledger' = more
  <2>1. rows'[Max(trades)].size = f /\ rows'[Max(trades)].price[1] = p
    BY <1>2, <1>3
  <2> QED
    BY ONLY <1>4, <1>5, <2>1, Zenon
<1>7. /\ more \in [size : Int, cash : Int, lost : BOOLEAN]
      /\ more.size = ledger.size + f /\ more.cash = ledger.cash - f * p
      /\ more.lost = ledger.lost
  <2>1. ledger.size + f \in Int /\ ledger.cash - f * p \in Int
    OBVIOUS
  <2>2. ledger.lost \in BOOLEAN
    BY Zenon
  <2> QED
    BY <2>1, <2>2, Zenon
<1>8. /\ [ledger EXCEPT !.lost = TRUE] \in [size : Int, cash : Int, lost : BOOLEAN]
      /\ [ledger EXCEPT !.lost = TRUE].lost
  OBVIOUS
<1> HIDE DEF more
<1> QED
  BY <1>6, <1>7, <1>8, Zenon

\* What the rows of a tick report, and what a reader makes of them.
LEMMA LedgerStep ==
  ASSUME IInv, NEW tick \in Ticks, ProcessTick(tick)
  PROVE  /\ PInv'
         /\ ledger' \in [size : Int, cash : Int, lost : BOOLEAN]
         /\ LedgerKept' /\ RowsReconcile'
         /\ Len(rows') <= 3
<1> DEFINE top == Top(bids_', asks_')
           L == [size : Int, cash : Int, lost : BOOLEAN]
<1>1. ledger \in L /\ (~ledger.lost => ledger.size = position_size_ /\ ledger.cash = cash)
  BY DEF IInv, Types, LedgerKept
<1>2. PInv
  BY DEF IInv
<1>3. CASE Skip(top)
  <2>1. rows' = <<>> /\ UNCHANGED positionVars
    BY <1>3 DEF Skip
  <2>2. ledger' = ledger
    BY <2>1, LedgerMarks
  <2>3. PInv'
    BY <1>2, <2>1 DEF positionVars, PInv, PositionTypeOK, Books, EntryWithinFills
  <2> QED
    BY <1>1, <2>1, <2>2, <2>3 DEF LedgerKept, RowsReconcile, positionVars
<1>4. CASE Trade(top)
  <2> DEFINE f == FillSize(CombinedScore(top))
             p == FillPrice(f, top)
             m == MarkRow(top, position_size_', average_entry_price_', realized_pnl_')
             t == [type |-> "T", price |-> Whole(p), size |-> f, pnl |-> realized_pnl_']
  <2>1. /\ f \in Int /\ p \in Int
        /\ position_size_' = position_size_ + f /\ cash' = cash - f * p /\ PInv'
    BY <1>4, TradeFacts
  <2>2. /\ m.type = "P" /\ m.size = position_size_' /\ m.price = Mid(top)
        /\ m.pnl = Equity(position_size_', average_entry_price_', realized_pnl_', Mid(top))
    BY DEF MarkRow
  <2>3. t.type = "T" /\ t.size = f /\ t.price = Whole(p)
    OBVIOUS
  <2>4. \/ f = 0 /\ rows' \in {<<>>, <<m>>, <<m, m>>}
        \/ f # 0 /\ rows' \in {<<t>>, <<t, m>>}
    BY <1>4, RowFacts
  <2>5. m.pnl = QAdd(Whole(cash'), QMul(Whole(position_size_'), Mid(top)))
    <3>1. top \in TopRecord
      BY TickFacts
    <3>2. IsFraction(Mid(top))
      BY <3>1, PriceFacts
    <3>3. /\ cash' \in Int /\ position_size_' \in Int /\ IsFraction(average_entry_price_')
          /\ realized_pnl_' = Account(position_size_', average_entry_price_', cash')
      BY <2>1 DEF PInv, PositionTypeOK, Books
    <3> HIDE DEF top
    <3> QED
      BY <2>2, <3>2, <3>3, EquityAt
  <2>6. position_size_ \in Int /\ cash \in Int
    BY <1>2 DEF PInv, PositionTypeOK
  <2> HIDE DEF top, f, p, m, t
  <2>7. \A i \in DOMAIN rows' : rows'[i].type = "P" => rows'[i] = m
    <3>1. \A i \in DOMAIN rows' : rows'[i] = m \/ rows'[i] = t
      BY <2>4
    <3> QED
      BY <2>3, <3>1
  <2>8. Len(rows') <= 3
    <3>1. Len(<<>>) = 0 /\ Len(<<m>>) = 1 /\ Len(<<m, m>>) = 2
      OBVIOUS
    <3>2. Len(<<t>>) = 1 /\ Len(<<t, m>>) = 2
      OBVIOUS
    <3> DEFINE n == Len(rows')
    <3>3. n = 0 \/ n = 1 \/ n = 2
      BY ONLY <2>4, <3>1, <3>2, Zenon
    <3> HIDE DEF n
    <3>4. n <= 3
      BY ONLY <3>3
    <3> QED
      BY <3>4 DEF n
  <2>9. CASE f = 0
    <3>1. \A i \in DOMAIN rows' : rows'[i].type = "P"
      BY <2>2, <2>4, <2>9
    <3>2. ledger' = ledger
      BY <3>1, LedgerMarks
    <3>3. position_size_' = position_size_ /\ cash' = cash
      BY <2>1, <2>6, <2>9
    <3> QED
      BY <1>1, <2>1, <2>2, <2>5, <2>7, <2>8, <3>2, <3>3 DEF LedgerKept, RowsReconcile
  <2>10. CASE f # 0
    <3>1. rows' = <<t>> \/ rows' = <<t, m>>
      BY <2>4, <2>10
    <3>2. /\ 1 \in DOMAIN rows' /\ rows'[1] = t
          /\ \A i \in DOMAIN rows' : i # 1 => rows'[i] = m
      BY <3>1
    <3>3. /\ ledger' \in L
          /\ ~ledger'.lost => /\ ~ledger.lost
                              /\ ledger'.size = ledger.size + f
                              /\ ledger'.cash = ledger.cash - f * p
      BY <1>1, <2>1, <2>2, <2>3, <3>2, LedgerTrade
    <3>4. ~ledger'.lost => ledger'.size = position_size_' /\ ledger'.cash = cash'
      BY <1>1, <2>1, <3>3
    <3> QED
      BY <2>1, <2>2, <2>5, <2>7, <2>8, <3>3, <3>4 DEF LedgerKept, RowsReconcile
  <2> QED
    BY <2>9, <2>10
<1> QED
  BY <1>3, <1>4, TickFacts

\* What a tick leaves in the signals.
LEMMA SignalStep ==
  ASSUME IInv, NEW tick \in Ticks, ProcessTick(tick)
  PROVE  /\ momentum' = [has_prev |-> momentum'.has_prev,
                         prev_microprice |-> momentum'.prev_microprice]
         /\ momentum'.has_prev \in BOOLEAN /\ IsFraction(momentum'.prev_microprice)
         /\ ofi' \in [initialized : BOOLEAN, prev : TopRecord]
         /\ ofi'.initialized => TwoSided(ofi'.prev)
         /\ emitted_initial_p_' \in BOOLEAN
         /\ Unprimed' /\ Seen'
<1> DEFINE top == Top(bids_', asks_')
           M == [has_prev |-> TRUE, prev_microprice |-> Microprice(top)]
           O == [initialized |-> TRUE, prev |-> top]
<1>1. /\ momentum = [has_prev |-> momentum.has_prev, prev_microprice |-> momentum.prev_microprice]
      /\ momentum.has_prev \in BOOLEAN /\ IsFraction(momentum.prev_microprice)
      /\ ofi \in [initialized : BOOLEAN, prev : TopRecord]
      /\ ofi.initialized => TwoSided(ofi.prev)
      /\ emitted_initial_p_ \in BOOLEAN
  BY DEF IInv, Types, TypeOK
<1>2. Unprimed
  BY DEF IInv
<1>3. top \in TopRecord /\ selection' = selection
  BY TickFacts
<1>4. CASE Skip(top)
  <2>1. momentum' = momentum /\ ofi' = ofi /\ emitted_initial_p_' = emitted_initial_p_
    BY <1>4 DEF Skip
  <2>2. ~Live(top)
    BY <1>4 DEF Skip, Live
  <2>3. Seen'
    BY <2>2 DEF Seen, Live, TwoSided, Denom
  <2> HIDE DEF top, M, O
  <2> QED
    BY <1>1, <1>2, <2>1, <2>3, Zenon DEF Unprimed
<1>5. CASE Trade(top)
  <2>1. Live(top) /\ emitted_initial_p_' = TRUE
    BY <1>5 DEF Trade, Live
  <2>2. momentum' = IF selection # "ofi" THEN M ELSE momentum
    BY <1>5, <2>1 DEF Trade, UpdateSignals, MomentumUpdate, MomentumReady, Live
  <2>3. ofi' = IF selection # "momentum" THEN O ELSE ofi
    BY <1>5, <2>1 DEF Trade, UpdateSignals, OFIUpdate, Live
  <2>4. PICK n \in Int, d \in Positive : Microprice(top) = Q(n, d)
    BY <1>3, <2>1, PriceFacts
  <2>5. IsFraction(Microprice(top))
    BY <2>4, QIsFraction
  <2>6. Seen'
    <3>1. selection # "ofi" => momentum'.has_prev /\ momentum'.prev_microprice = Microprice(top)
      BY <2>2
    <3>2. selection # "momentum" => ofi' = O
      BY <2>3
    <3> QED
      BY <1>3, <3>1, <3>2 DEF Seen, Microprice, Denom
  <2>7. Unprimed'
    BY <2>1 DEF Unprimed
  <2>8. TwoSided(top)
    BY <2>1 DEF Live
  <2> HIDE DEF top
  <2>9. /\ M = [has_prev |-> M.has_prev, prev_microprice |-> M.prev_microprice]
        /\ M.has_prev \in BOOLEAN /\ IsFraction(M.prev_microprice)
    BY <2>5, Zenon
  <2>10. O \in [initialized : BOOLEAN, prev : TopRecord] /\ TwoSided(O.prev)
    BY <1>3, <2>8, Zenon
  <2> HIDE DEF M, O
  <2> QED
    BY <1>1, <2>1, <2>2, <2>3, <2>6, <2>7, <2>9, <2>10, Zenon
<1> QED
  BY <1>4, <1>5, TickFacts

-----------------------------------------------------------------------------
(* The invariant holds.                                                    *)

\* An empty book has no top, no position and no log.
LEMMA InitIInv == Init => IInv
<1> SUFFICES ASSUME Init PROVE IInv
  OBVIOUS
<1>1. /\ bids_ = [p \in Price |-> 0] /\ asks_ = [p \in Price |-> 0]
      /\ momentum = [has_prev |-> FALSE, prev_microprice |-> Zero]
      /\ ofi = [initialized |-> FALSE, prev |-> NoTop]
      /\ selection \in Selections /\ ticks_processed = 0 /\ emitted_initial_p_ = FALSE
      /\ rows = <<>> /\ ledger = [size |-> 0, cash |-> 0, lost |-> FALSE]
  BY DEF Init, InitBook, InitAlphas
<1>2. PInv /\ position_size_ = 0 /\ cash = 0
  BY InitPInv DEF Init, InitPosition
<1>3. IsFraction(Zero) /\ NoTop \in TopRecord
  BY Constants DEF NoTop, TopRecord, kNoBid, kNoAsk
<1>4. 0 \in Size
  BY BookAssumption DEF Size
<1>5. TypeOK
  <2>1. bids_ \in [Price -> Size] /\ asks_ \in [Price -> Size]
    BY <1>1, <1>4
  <2>2. PositionTypeOK
    BY <1>2 DEF PInv
  <2>3. ticks_processed \in 0 .. MaxTicks /\ Len(rows) <= 3
    BY <1>1, EngineAssumption
  <2>4. momentum.has_prev \in BOOLEAN /\ ofi.initialized = FALSE /\ emitted_initial_p_ \in BOOLEAN
    BY <1>1
  <2> QED
    BY <1>1, <1>3, <2>1, <2>2, <2>3, <2>4 DEF TypeOK
<1>6. Types
  <2>1. momentum = [has_prev |-> momentum.has_prev, prev_microprice |-> momentum.prev_microprice]
    BY <1>1
  <2>2. ofi \in [initialized : BOOLEAN, prev : TopRecord]
    BY <1>1, <1>3
  <2>3. ledger \in [size : Int, cash : Int, lost : BOOLEAN]
    BY <1>1
  <2> QED
    BY <1>5, <2>1, <2>2, <2>3 DEF Types
<1>7. Unprimed /\ LedgerKept /\ RowsReconcile
  BY <1>1, <1>2 DEF Unprimed, LedgerKept, RowsReconcile
<1>8. Seen
  <2>1. Levels(bids_) = {}
    BY <1>1 DEF Levels
  <2>2. ~TwoSided(Top(bids_, asks_))
    BY <2>1 DEF Top, TwoSided, get_best_bid
  <2> QED
    BY <2>2 DEF Seen, Live
<1> QED
  BY <1>2, <1>6, <1>7, <1>8 DEF IInv

\* Every tick keeps the invariant.
LEMMA NextIInv == IInv /\ [Next]_vars => IInv'
<1> SUFFICES ASSUME IInv, [Next]_vars PROVE IInv'
  OBVIOUS
<1>1. CASE UNCHANGED vars
  BY <1>1 DEF vars, IInv, Types, TypeOK, PInv, PositionTypeOK, Books, EntryWithinFills,
              Unprimed, Seen, LedgerKept, RowsReconcile
<1>2. CASE Next
  <2>1. PICK tick \in Ticks : ProcessTick(tick)
    BY <1>2 DEF Next
  <2>2. ticks_processed' \in 0 .. MaxTicks
    BY <2>1, EngineAssumption DEF ProcessTick, IInv, Types, TypeOK
  <2>3. selection' \in Selections
    BY <2>1 DEF ProcessTick, IInv, Types, TypeOK
  <2>4. /\ PInv' /\ LedgerKept' /\ RowsReconcile' /\ Len(rows') <= 3
        /\ ledger' \in [size : Int, cash : Int, lost : BOOLEAN]
    BY <2>1, LedgerStep
  <2>5. bids_' \in [Price -> Size] /\ asks_' \in [Price -> Size]
    BY <2>1, TickFacts
  <2>6. PositionTypeOK'
    BY <2>4 DEF PInv
  <2>7. /\ momentum' = [has_prev |-> momentum'.has_prev,
                         prev_microprice |-> momentum'.prev_microprice]
        /\ momentum'.has_prev \in BOOLEAN /\ IsFraction(momentum'.prev_microprice)
        /\ ofi' \in [initialized : BOOLEAN, prev : TopRecord]
        /\ ofi'.initialized => TwoSided(ofi'.prev)
        /\ emitted_initial_p_' \in BOOLEAN
        /\ Unprimed' /\ Seen'
    BY <2>1, SignalStep
  <2>8. ofi'.initialized \in BOOLEAN
    BY <2>7, Zenon
  <2>9. TypeOK'
    BY <2>2, <2>3, <2>4, <2>5, <2>6, <2>7, <2>8, Zenon DEF TypeOK
  <2> QED
    BY <2>4, <2>7, <2>9, Zenon DEF IInv, Types
<1> QED
  BY <1>1, <1>2

\* No sequence of ticks takes the engine out of the invariant.
THEOREM StrategyInvariance == Spec => []IInv
BY InitIInv, NextIInv, PTL DEF Spec

\* The state keeps its types: the sizes in the book their width, the prices
\* of the signals and of the position the form of a fraction, and a tick
\* hands at most three rows to the logger.
THEOREM StrategyTypeCorrect == Spec => []TypeOK
<1>1. IInv => TypeOK
  BY DEF IInv, Types
<1> QED
  BY <1>1, StrategyInvariance, PTL

\* Whatever rows the logger refuses, a reader whose T rows are all there finds
\* the size and the equity of every P row by adding them up.
THEOREM LogReconciles == Spec => []RowsReconcile
<1>1. IInv => RowsReconcile
  BY DEF IInv
<1> QED
  BY <1>1, StrategyInvariance, PTL

-----------------------------------------------------------------------------
(* What a fill needs.                                                      *)

\* The signals have seen a live top, so they have nothing to say of it again.
LEMMA NoFillSeen ==
  ASSUME IInv, NEW top, top = Top(bids_, asks_), Live(top)
  PROVE  FillSize(CombinedScore(top)) = 0
<1>1. top \in TopRecord /\ ofi.prev \in TopRecord /\ selection \in {"momentum", "ofi", "both"}
  BY TopFacts, EngineAssumption DEF IInv, Types, TypeOK
<1>2. /\ selection # "ofi" => momentum.has_prev /\ momentum.prev_microprice = Microprice(top)
      /\ selection # "momentum" => ofi = [initialized |-> TRUE, prev |-> top]
  BY DEF IInv, Seen
<1>3. ASSUME selection # "ofi" PROVE MomentumScore(top) = Q(0, 1)
  <2>1. PICK n \in Int, d \in Positive : Microprice(top) = Q(n, d)
    BY <1>1, PriceFacts
  <2> DEFINE delta == QSub(Microprice(top), momentum.prev_microprice)
             a == n * d - n * d
             b == d * d
  <2>2. delta = Q(a, b)
    BY <1>2, <1>3, <2>1, QSubQ
  <2>3. a = 0 /\ a \in Int /\ b \in Positive /\ b \in Nat \ {0} /\ 1 \in Positive /\ -1 \in Int
    BY DEF Positive
  <2> HIDE DEF a, b
  <2>4. /\ QLess(Q(1, 1), Q(a, b)) <=> 1 * b < a * 1
        /\ QLess(Q(a, b), Q(-1, 1)) <=> a * 1 < (-1) * b
    BY <2>3, QOrder
  <2>5. ~(1 * b < a * 1) /\ ~(a * 1 < (-1) * b)
    BY <2>3
  <2>6. ~QLess(One, delta) /\ ~QLess(delta, QNeg(One))
    BY <2>2, <2>4, <2>5, Constants, ScoreConstants
  <2>7. MomentumScore(top) = Zero
    BY <2>6 DEF MomentumScore
  <2> QED
    BY <2>7, Constants
<1>4. ASSUME selection # "momentum"
      PROVE  \E n, d : IsScore(OFIScore(top), n, d) /\ 20 * n <= 7 * d /\ -(7 * d) <= 20 * n
  <2>1. ofi.prev = top
    BY <1>2, <1>4
  <2> QED
    BY <1>1, <2>1, OFIFacts
<1> QED
  BY <1>1, <1>3, <1>4, WeakSignals

\* What a step does to the position: nothing, or a fill at a live top.
LEMMA PositionStep ==
  ASSUME IInv, Next, NEW top, top = Top(bids_', asks_')
  PROVE  /\ top \in TopRecord /\ ofi.prev \in TopRecord
         /\ position_size_ \in Int
         /\ \/ position_size_' = position_size_
            \/ /\ Live(top) /\ emitted_initial_p_
               /\ FillSize(CombinedScore(top)) \in Int
               /\ position_size_' = position_size_ + FillSize(CombinedScore(top))
<1>1. PICK tick \in Ticks : ProcessTick(tick)
  BY DEF Next
<1>2. top \in TopRecord /\ ofi.prev \in TopRecord /\ (Skip(top) \/ Trade(top))
  BY <1>1, TickFacts
<1>3. position_size_ \in Int
  BY DEF IInv, PInv, PositionTypeOK
<1>4. CASE Skip(top)
  BY <1>2, <1>3, <1>4 DEF Skip, positionVars
<1>5. CASE Trade(top)
  <2> DEFINE f == FillSize(CombinedScore(top))
             p == FillPrice(f, top)
  <2>1. f \in Int /\ position_size_' = position_size_ + f /\ (~emitted_initial_p_ => f = 0)
    BY <1>1, <1>5, TradeFacts
  <2>2. Live(top)
    BY <1>5 DEF Trade, Live
  <2> HIDE DEF f
  <2>3. position_size_' = position_size_ \/ emitted_initial_p_
    BY <1>3, <2>1
  <2> QED
    BY <1>2, <1>3, <2>1, <2>2, <2>3 DEF f
<1> QED
  BY <1>2, <1>4, <1>5

\* No tick fills before one has written the opening mark, whichever signals
\* are selected: the first live book only primes them.
THEOREM OpeningPrimes == Spec => NoFillBeforeOpening
<1>1. ASSUME IInv, [Next]_vars
      PROVE  [position_size_' # position_size_ => emitted_initial_p_]_vars
  BY <1>1, PositionStep
<1> QED
  BY <1>1, StrategyInvariance, PTL DEF Spec, NoFillBeforeOpening

\* Under "both" the momentum and the order flow agree with every fill.
THEOREM EnsembleAgrees == Spec => EnsembleAgreement
<1> DEFINE top == Top(bids_', asks_')
           A == selection = "both" =>
                  /\ position_size_' > position_size_ =>
                       QLess(Zero, MomentumScore(top)) /\ QLess(Zero, OFIScore(top))
                  /\ position_size_' < position_size_ =>
                       QLess(MomentumScore(top), Zero) /\ QLess(OFIScore(top), Zero)
<1>1. ASSUME IInv, Next, selection = "both" PROVE A
  <2> DEFINE f == FillSize(CombinedScore(top))
  <2>1. /\ top \in TopRecord /\ ofi.prev \in TopRecord /\ position_size_ \in Int
        /\ \/ position_size_' = position_size_
           \/ Live(top) /\ f \in Int /\ position_size_' = position_size_ + f
    BY <1>1, PositionStep
  <2>2. Live(top) =>
          /\ f > 0 => QLess(Zero, MomentumScore(top)) /\ QLess(Zero, OFIScore(top))
          /\ f < 0 => QLess(MomentumScore(top), Zero) /\ QLess(OFIScore(top), Zero)
    BY <1>1, <2>1, Agreement
  <2> HIDE DEF top, f
  <2> QED
    BY <2>1, <2>2
<1>2. ASSUME IInv, [Next]_vars PROVE [A]_vars
  BY <1>1, <1>2
<1> QED
  BY <1>2, StrategyInvariance, PTL DEF Spec, EnsembleAgreement

\* A tick that leaves the top of a live book where it was never trades,
\* whatever it did deeper in the book.
THEOREM IdleTopIsSilent == Spec => NoFillOnIdleTop
<1> DEFINE before == Top(bids_, asks_)
           A == /\ TwoSided(before) /\ Denom(before) # 0
                /\ Top(bids_', asks_') = before
                => position_size_' = position_size_
<1>1. ASSUME IInv, Next, TwoSided(before), Denom(before) # 0, Top(bids_', asks_') = before
      PROVE  position_size_' = position_size_
  <2>1. FillSize(CombinedScore(before)) = 0
    BY <1>1, NoFillSeen DEF Live
  <2>2. /\ position_size_ \in Int
        /\ \/ position_size_' = position_size_
           \/ position_size_' = position_size_ + FillSize(CombinedScore(before))
    BY <1>1, PositionStep
  <2> QED
    BY <2>1, <2>2
<1>2. ASSUME IInv, [Next]_vars PROVE [A]_vars
  BY <1>1, <1>2
<1> QED
  BY <1>2, StrategyInvariance, PTL DEF Spec, NoFillOnIdleTop

-----------------------------------------------------------------------------
(* How far what the documentation says of the strategy holds.              *)

\* A weighted mean lies between what it is the mean of.
LEMMA WeightedMean ==
  ASSUME NEW a \in Nat, NEW b \in Nat, NEW s \in Nat, NEW t \in Nat,
         NEW lo \in Int, lo <= a, lo <= b, NEW hi \in Int, a <= hi, b <= hi
  PROVE  lo * (s + t) <= a * t + b * s /\ a * t + b * s <= hi * (s + t)
<1>1. lo * t <= a * t /\ a * t <= hi * t
  OBVIOUS
<1>2. lo * s <= b * s /\ b * s <= hi * s
  OBVIOUS
<1>3. lo * (s + t) = lo * s + lo * t /\ hi * (s + t) = hi * s + hi * t
  OBVIOUS
<1>4. /\ lo * t \in Int /\ a * t \in Int /\ hi * t \in Int
      /\ lo * s \in Int /\ b * s \in Int /\ hi * s \in Int
  OBVIOUS
<1> DEFINE x1 == lo * t
           x2 == a * t
           x3 == hi * t
           y1 == lo * s
           y2 == b * s
           y3 == hi * s
<1>5. x1 + y1 <= x2 + y2 /\ x2 + y2 <= x3 + y3
  <2>1. x1 \in Int /\ x2 \in Int /\ x3 \in Int /\ y1 \in Int /\ y2 \in Int /\ y3 \in Int
    BY <1>4
  <2>2. x1 <= x2 /\ x2 <= x3 /\ y1 <= y2 /\ y2 <= y3
    BY <1>1, <1>2
  <2> HIDE DEF x1, x2, x3, y1, y2, y3
  <2> QED
    BY <2>1, <2>2
<1> QED
  BY <1>3, <1>4, <1>5

\* Min and Max of two prices.
LEMMA PairExtremes ==
  ASSUME NEW a \in Nat, NEW b \in Nat
  PROVE  /\ Min({a, b}) \in Nat /\ Min({a, b}) <= a /\ Min({a, b}) <= b
         /\ Max({a, b}) \in Nat /\ a <= Max({a, b}) /\ b <= Max({a, b})
<1> DEFINE S == {a, b}
<1>1. \E x \in S : \A y \in S : x <= y
  OBVIOUS
<1>2. \E x \in S : \A y \in S : x >= y
  OBVIOUS
<1>3. a \in S /\ b \in S /\ S \subseteq Nat
  OBVIOUS
<1> HIDE DEF S
<1>4. Min(S) \in S /\ \A y \in S : Min(S) <= y
  BY <1>1 DEF Min
<1>5. Max(S) \in S /\ \A y \in S : Max(S) >= y
  BY <1>2 DEF Max
<1>6. /\ Min(S) \in Nat /\ Min(S) <= a /\ Min(S) <= b
      /\ Max(S) \in Nat /\ a <= Max(S) /\ b <= Max(S)
  BY <1>3, <1>4, <1>5
<1> QED
  BY <1>6 DEF S

\* The sizes at the top of the book fit one word together.
SizesFit == LET top == Top(bids_, asks_) IN top.bid_size + top.ask_size < SizeRange

\* The microprice lies within the spread, as the documentation has it, of
\* every book whose best sizes do not wrap when the alphas add them up: the
\* wrapped sum is the only way out of the spread, crossed books included.
THEOREM MicropriceWithoutWrap == Spec => [](SizesFit => MicropriceInSpread)
<1>1. IInv => (SizesFit => MicropriceInSpread)
  <2> DEFINE top == Top(bids_, asks_)
             a == top.bid
             b == top.ask
             s == top.bid_size
             t == top.ask_size
             d == Denom(top)
             lo == Min({a, b})
             hi == Max({a, b})
             n == a * t + b * s
  <2> SUFFICES ASSUME IInv, SizesFit, d # 0
               PROVE  QLeq(Whole(lo), Microprice(top)) /\ QLeq(Microprice(top), Whole(hi))
    BY Zenon DEF MicropriceInSpread
  <2>1. top \in TopRecord
    BY TopFacts, Zenon DEF IInv, Types, TypeOK
  <2>2. s + t < SizeRange
    BY Zenon DEF SizesFit
  <2>3. Microprice(top) = Q(n, d) /\ d = (s + t) % SizeRange
    BY Zenon DEF Microprice, Denom
  <2> HIDE DEF top
  <2>4. a \in Nat /\ b \in Nat /\ s \in Nat /\ t \in Nat
    BY <2>1, BookAssumption DEF TopRecord, Price, Size
  <2> HIDE DEF a, b, s, t, d
  <2>5. d = s + t /\ d \in Positive
    <3>1. (s + t) % SizeRange = s + t
      BY <2>2, <2>4, BookAssumption
    <3> QED
      BY <2>3, <2>4, <3>1 DEF Positive
  <2>6. lo \in Nat /\ lo <= a /\ lo <= b /\ hi \in Nat /\ a <= hi /\ b <= hi
    BY <2>4, PairExtremes
  <2> HIDE DEF lo, hi
  <2>7. lo * (s + t) <= n /\ n <= hi * (s + t)
    BY <2>4, <2>6, WeightedMean
  <2>8. n \in Int /\ lo \in Int /\ hi \in Int /\ 1 \in Positive /\ n * 1 = n
    BY <2>4, <2>6 DEF Positive
  <2> HIDE DEF n
  <2>9. QLeq(Q(lo, 1), Q(n, d)) <=> lo * d <= n * 1
    BY <2>5, <2>8, QOrder
  <2>10. QLeq(Q(n, d), Q(hi, 1)) <=> n * 1 <= hi * d
    BY <2>5, <2>8, QOrder
  <2>11. Whole(lo) = Q(lo, 1) /\ Whole(hi) = Q(hi, 1)
    BY <2>8, WholeQ
  <2> QED
    BY <2>3, <2>5, <2>7, <2>8, <2>9, <2>10, <2>11
<1> QED
  BY <1>1, StrategyInvariance, PTL

\* Once it has seen a two-sided book the order flow signal never starts over:
\* the branch of OFIAlpha::update that resets it on a one-sided book is not
\* reached, whatever the ticks, because the strategy calls the alphas for
\* two-sided books only.
THEOREM OFINeverResets == Spec => [][ofi.initialized => ofi'.initialized]_vars
<1> DEFINE A == ofi.initialized => ofi'.initialized
<1>1. ASSUME IInv, Next PROVE A
  <2>1. PICK tick \in Ticks : ProcessTick(tick)
    BY <1>1 DEF Next
  <2> DEFINE top == Top(bids_', asks_')
  <2>2. Skip(top) \/ Trade(top)
    BY <2>1 DEF ProcessTick
  <2> HIDE DEF top
  <2>3. CASE Skip(top)
    BY <2>3 DEF Skip
  <2>4. CASE Trade(top)
    BY <2>4 DEF Trade, UpdateSignals, OFIUpdate
  <2> QED
    BY <2>2, <2>3, <2>4
<1>2. ASSUME IInv, [Next]_vars PROVE [A]_vars
  BY <1>1, <1>2
<1> QED
  BY <1>2, StrategyInvariance, PTL DEF Spec

====
