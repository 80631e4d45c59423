---- MODULE Alphas ----
(***************************************************************************)
(* include/momentum_alpha.hpp and include/ofi_alpha.hpp: the two signals.  *)
(* A signal's update() reads the top of the book, returns a score and      *)
(* keeps what its next call compares with.                                 *)
(***************************************************************************)
EXTENDS OrderBook, Fractions

VARIABLES
  momentum,   \* MomentumAlpha: has_prev_, prev_microprice_cents_
  ofi         \* OFIAlpha: initialized_ and the previous top of the book

NoTop == [bid |-> kNoBid, bid_size |-> 0, ask |-> kNoAsk, ask_size |-> 0]

InitAlphas ==
  /\ momentum = [has_prev |-> FALSE, prev_microprice |-> Zero]
  /\ ofi = [initialized |-> FALSE, prev |-> NoTop]

\* The microprice in cents; its denominator is the wrapped sum.
Microprice(top) ==
  Q(top.bid * top.ask_size + top.ask * top.bid_size, Denom(top))

-----------------------------------------------------------------------------
(* MomentumAlpha::update.                                                  *)

MomentumReady(top) == TwoSided(top) /\ Denom(top) # 0

\* Faulty variant: the first call compares with the initial 0.0.
MomentumScoreUnprimed(top) ==
  LET delta == QSub(Microprice(top), momentum.prev_microprice)
  IN IF ~MomentumReady(top) THEN Zero
     ELSE IF QLess(One, delta) THEN One
     ELSE IF QLess(delta, QNeg(One)) THEN QNeg(One)
     ELSE Zero

\* A jump of more than one cent since the last call is full confidence.
MomentumScore(top) ==
  IF ~MomentumReady(top) \/ ~momentum.has_prev
  THEN Zero
  ELSE LET delta == QSub(Microprice(top), momentum.prev_microprice)
       IN IF QLess(One, delta) THEN One
          ELSE IF QLess(delta, QNeg(One)) THEN QNeg(One)
          ELSE Zero

\* Faulty variant: only the first microprice is kept.
MomentumUpdateOnce(top) ==
  momentum' = IF MomentumReady(top) /\ ~momentum.has_prev
              THEN [has_prev |-> TRUE, prev_microprice |-> Microprice(top)]
              ELSE momentum

MomentumUpdate(top) ==
  momentum' = IF MomentumReady(top)
              THEN [has_prev |-> TRUE, prev_microprice |-> Microprice(top)]
              ELSE momentum

-----------------------------------------------------------------------------
(* OFIAlpha::update.                                                       *)

BidFlow(top, prev) ==
  IF top.bid > prev.bid THEN top.bid_size
  ELSE IF top.bid = prev.bid THEN top.bid_size - prev.bid_size
  ELSE -prev.bid_size

AskFlow(top, prev) ==
  IF top.ask < prev.ask THEN -top.ask_size
  ELSE IF top.ask = prev.ask THEN prev.ask_size - top.ask_size
  ELSE prev.ask_size

AtLeastOne(n) == IF n > 1 THEN n ELSE 1

Mid(top) == Q(top.bid + top.ask, 2)

\* Where the microprice lies within the spread.
BookPressure(top) ==
  LET micro == IF Denom(top) = 0 THEN Mid(top) ELSE Microprice(top)
  IN Clamp1(QDiv(QSub(micro, Mid(top)), AtLeastOne(top.ask - top.bid)))

\* The flow since the last call, normalized.
FlowNorm(top) ==
  Clamp1(Q(BidFlow(top, ofi.prev) + AskFlow(top, ofi.prev), AtLeastOne(Denom(top))))

OFIScore(top) ==
  IF ~TwoSided(top) \/ ~ofi.initialized
  THEN Zero
  ELSE Clamp1(QAdd(QMul(<<13, 20>>, FlowNorm(top)),
                   QMul(<<7, 20>>, BookPressure(top))))

OFIUpdate(top) ==
  ofi' = IF TwoSided(top)
         THEN [initialized |-> TRUE, prev |-> top]
         ELSE [ofi EXCEPT !.initialized = FALSE]

====
