---- MODULE OrderBook ----
(***************************************************************************)
(* include/order_book.hpp: the size resting at each price, in cents, on    *)
(* each side.  Only the strategy thread uses it.                           *)
(***************************************************************************)
EXTENDS Naturals, FiniteSetsExt

CONSTANTS
  kMaxPrice,   \* 100
  SizeRange    \* number of values of a size: 2^32

ASSUME BookAssumption ==
  /\ kMaxPrice \in 1 .. 254
  /\ SizeRange \in Nat \ {0}

VARIABLES bids_, asks_

Price == 0 .. kMaxPrice
Size == 0 .. SizeRange - 1

kNoBid == 255
kNoAsk == 255

InitBook ==
  /\ bids_ = [p \in Price |-> 0]
  /\ asks_ = [p \in Price |-> 0]

\* Faulty variant: the size is taken for a change of the level.
ApplyTickAsDelta(tick) ==
  IF tick.is_bid
  THEN bids_' = [bids_ EXCEPT ![tick.price] = @ + tick.size] /\ UNCHANGED asks_
  ELSE asks_' = [asks_ EXCEPT ![tick.price] = @ + tick.size] /\ UNCHANGED bids_

\* A tick sets the size at its price; a price outside the book is ignored.
apply_tick(tick) ==
  IF tick.price > kMaxPrice
  THEN UNCHANGED <<bids_, asks_>>
  ELSE IF tick.is_bid
  THEN bids_' = [bids_ EXCEPT ![tick.price] = tick.size] /\ UNCHANGED asks_
  ELSE asks_' = [asks_ EXCEPT ![tick.price] = tick.size] /\ UNCHANGED bids_

Levels(side) == {p \in Price : side[p] # 0}

get_best_bid(bids) == IF Levels(bids) = {} THEN kNoBid ELSE Max(Levels(bids))
get_best_ask(asks) == IF Levels(asks) = {} THEN kNoAsk ELSE Min(Levels(asks))

\* get_bid_size and get_ask_size.
SizeAt(side, price) == IF price > kMaxPrice THEN 0 ELSE side[price]

\* What the strategy and its alphas read from the book.
Top(bids, asks) ==
  LET bid == get_best_bid(bids)
      ask == get_best_ask(asks)
  IN [bid |-> bid, bid_size |-> SizeAt(bids, bid),
      ask |-> ask, ask_size |-> SizeAt(asks, ask)]

TwoSided(top) == top.bid # kNoBid /\ top.ask # kNoAsk

\* best_bid_size + best_ask_size, on uint32_t.
Denom(top) == (top.bid_size + top.ask_size) % SizeRange

====
