---- MODULE PositionManager ----
(***************************************************************************)
(* include/position_manager.hpp: the simulated position, its average entry *)
(* price and the profit its closing fills have locked in.  Prices are in   *)
(* cents.                                                                  *)
(*                                                                         *)
(* cash and entries are history variables: the money the fills have        *)
(* brought in so far, and the prices of the fills that opened or increased *)
(* the position now held.                                                  *)
(***************************************************************************)
EXTENDS Fractions

VARIABLES
  position_size_,
  average_entry_price_,
  realized_pnl_,
  cash,
  entries

positionVars == <<position_size_, average_entry_price_, realized_pnl_, cash, entries>>

Abs(n) == IF n >= 0 THEN n ELSE -n
Sign(n) == IF n > 0 THEN 1 ELSE IF n < 0 THEN -1 ELSE 0
Smaller(m, n) == IF m < n THEN m ELSE n

\* Positive position_size_ = long, negative = short: both have one sign.
SameDirection(m, n) == Sign(m) = Sign(n)

InitPosition ==
  /\ position_size_ = 0
  /\ average_entry_price_ = Zero
  /\ realized_pnl_ = Zero
  /\ cash = 0
  /\ entries = {}

-----------------------------------------------------------------------------
(* add_fill(fill_size, fill_price).                                        *)

\* A fill from flat opens a position.
OpenPosition(fill_size, fill_price) ==
  /\ position_size_ = 0
  /\ average_entry_price_' = Whole(fill_price)
  /\ UNCHANGED realized_pnl_

\* The volume-weighted price of the position and a fill that increases it.
VWAP(fill_size, fill_price) ==
  LET weighted == QAdd(QMul(average_entry_price_, Whole(Abs(position_size_))),
                       Whole(fill_price * Abs(fill_size)))
  IN QDiv(weighted, Abs(position_size_) + Abs(fill_size))

IncreasePosition(fill_size, fill_price) ==
  /\ SameDirection(position_size_, fill_size)
  /\ average_entry_price_' = VWAP(fill_size, fill_price)
  /\ UNCHANGED realized_pnl_

\* Faulty variant: the whole fill is taken for closing.
ClosingPnlWholeFill(fill_size, fill_price) ==
  QMul(Whole(Sign(position_size_) * Abs(fill_size)),
       QSub(Whole(fill_price), average_entry_price_))

\* What a fill against the position realizes on the quantity it closes.
ClosingPnl(fill_size, fill_price) ==
  QMul(Whole(Sign(position_size_) * Smaller(Abs(fill_size), Abs(position_size_))),
       QSub(Whole(fill_price), average_entry_price_))

\* Faulty variant: a flip keeps the old entry price.
EntryKeptOnFlip(fill_size, fill_price) ==
  IF position_size_ + fill_size = 0 THEN Zero ELSE average_entry_price_

\* The entry price after such a fill: none when flat, the fill's when it
\* flipped the position, otherwise what it was.
EntryAfterOffset(fill_size, fill_price) ==
  LET left == position_size_ + fill_size
  IN IF left = 0 THEN Zero
     ELSE IF SameDirection(left, fill_size) THEN Whole(fill_price)
     ELSE average_entry_price_

OffsetPosition(fill_size, fill_price) ==
  /\ SameDirection(position_size_, -fill_size)
  /\ realized_pnl_' = QAdd(realized_pnl_, ClosingPnl(fill_size, fill_price))
  /\ average_entry_price_' = EntryAfterOffset(fill_size, fill_price)

\* The fills that entered the position held after this one.
EntriesAfter(fill_size, fill_price) ==
  LET left == position_size_ + fill_size
  IN IF left = 0 THEN {}
     ELSE IF ~SameDirection(left, fill_size) THEN entries
     ELSE IF SameDirection(left, position_size_) THEN entries \cup {fill_price}
     ELSE {fill_price}

add_fill(fill_size, fill_price) ==
  IF fill_size = 0
  THEN UNCHANGED positionVars
  ELSE /\ \/ OpenPosition(fill_size, fill_price)
          \/ IncreasePosition(fill_size, fill_price)
          \/ OffsetPosition(fill_size, fill_price)
       /\ position_size_' = position_size_ + fill_size
       /\ cash' = cash - fill_size * fill_price
       /\ entries' = EntriesAfter(fill_size, fill_price)

\* Any fills, in any order.
PositionSpec ==
  /\ InitPosition
  /\ [][\E fill_size, fill_price \in Int : add_fill(fill_size, fill_price)]_positionVars

get_unrealized_pnl(size, entry, mid) == QMul(Whole(size), QSub(mid, entry))

\* Realized and unrealized profit at a mid price.
Equity(size, entry, realized, mid) ==
  QAdd(realized, get_unrealized_pnl(size, entry, mid))

-----------------------------------------------------------------------------
(* Properties.                                                             *)

PositionTypeOK ==
  /\ position_size_ \in Int
  /\ IsFraction(average_entry_price_)
  /\ IsFraction(realized_pnl_)
  /\ cash \in Int

\* What the position manager reports (realized plus unrealized profit) at any
\* price is what the fills themselves brought in plus the position's value at
\* that price, over any sequence of opening, increasing, closing and flipping
\* fills.  Two prices determine both sides, which are linear in the price.
EquityIdentity ==
  \A mid \in {Zero, One} :
    Equity(position_size_, average_entry_price_, realized_pnl_, mid)
      = QAdd(Whole(cash), QMul(Whole(position_size_), mid))

\* The average entry price lies between the lowest and the highest price paid
\* for the position now held; a flat position has none (reset to 0 at line 64).
EntryWithinFills ==
  IF position_size_ = 0
  THEN average_entry_price_ = Zero
  ELSE /\ \E p \in entries : QLeq(Whole(p), average_entry_price_)
       /\ \E p \in entries : QLeq(average_entry_price_, Whole(p))

====
