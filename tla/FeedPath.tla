---- MODULE FeedPath ----
(***************************************************************************)
(* From the venue to the engine's order book: the venue keeps a book and   *)
(* sends a snapshot of it, then a message for every change; MarketParser   *)
(* turns messages into ticks, the network thread pushes them one by one to *)
(* the tick queue, which drops them when it is full, and the strategy      *)
(* thread applies them.                                                    *)
(*                                                                         *)
(* The venue is external: it sends what the supported schemas describe,    *)
(* about one asset.  Its prices are in tenths of a cent, on a grid that    *)
(* may be finer than the book's cents; its sizes are the texts it sends.   *)
(* It does not wait for the engine: a change may follow another before the *)
(* ticks of the first have been pushed, in a message of its own or in the  *)
(* same one, which becomes the same ticks.  A recording that spans a       *)
(* reconnection, or is played again, has changes missing and another       *)
(* snapshot (an outage).                                                   *)
(***************************************************************************)
EXTENDS OrderBook, MarketParser

CONSTANTS
  Grids,        \* sets of prices, in tenths of a cent
  InCents,      \* the prices that are written as cents, without a dot
  VenueSizes,   \* the texts of the sizes; of 0, for a removed level, too
  Capacity,     \* engine_config::kTickQueueSize
  MaxUnread,    \* ticks yet to be pushed when the venue sends a change
  MaxOutages

\* The text of a size: digits, of which none beyond those that are kept.
SizeText ==
  {text \in [dot : BOOLEAN, int : Nat, frac : Seq(0 .. 9)] :
     Len(text.frac) <= SizeDigits /\ (~text.dot => text.frac = <<>>)}

ASSUME FeedAssumption ==
  /\ TopPrice = kMaxPrice /\ WordRange = SizeRange
  /\ \A g \in Grids : g \subseteq 0 .. 10 * kMaxPrice
  /\ InCents \subseteq {10 * c : c \in 0 .. kMaxPrice}
  /\ VenueSizes \subseteq SizeText
  /\ MaxUnread \in Nat
  /\ Capacity \in Nat \ {0}
  /\ MaxOutages \in Nat

VARIABLES
  grid, venue_bids, venue_asks,
  hints,        \* whether this venue's changes carry best_bid and best_ask
  connected,    \* the snapshot has been sent
  outages,
  parsed,       \* ticks of messages that are yet to be pushed
  tick_queue,
  stale,        \* history: <<is_bid, cents>> whose last update was lost
  lossless      \* history: no update has been lost

venueVars == <<grid, venue_bids, venue_asks, hints, connected, outages>>
vars == <<bids_, asks_, venueVars, parsed, tick_queue, stale, lossless>>

\* A size that is not 0, and the levels that have one.
Positive(text) == text.int # 0 \/ \E i \in DOMAIN text.frac : text.frac[i] # 0
VenueLevels(side) == {p \in grid : Positive(side[p])}

\* The book before the engine connects has any levels that do not cross.
Init ==
  /\ InitBook
  /\ grid \in Grids
  /\ venue_bids \in [grid -> VenueSizes]
  /\ venue_asks \in [grid -> VenueSizes]
  /\ \A p \in VenueLevels(venue_bids), q \in VenueLevels(venue_asks) : p < q
  /\ hints \in BOOLEAN
  /\ connected = FALSE /\ outages = 0
  /\ parsed = <<>> /\ tick_queue = <<>>
  /\ stale = {} /\ lossless = TRUE

-----------------------------------------------------------------------------
(* What the venue sends.                                                   *)

PriceText(price) ==
  IF price \in InCents
  THEN [dot |-> FALSE, int |-> price \div 10, frac |-> <<>>]
  ELSE [dot |-> TRUE, int |-> price \div 1000,
        frac |-> <<(price \div 100) % 10, (price \div 10) % 10, price % 10>>]

LevelOf(side, price) ==
  [shape |-> "level", price |-> PriceText(price), size |-> side[price]]

\* The levels of a side, in the given order of their prices.
LevelsField(side, prices) ==
  [status |-> "array", elements |-> [i \in DOMAIN prices |-> LevelOf(side, prices[i])]]

Snapshot(bid_prices, ask_prices) ==
  [kind |-> "object",
   messages |-> <<[event_type |-> "book",
                   bids |-> LevelsField(venue_bids, bid_prices),
                   asks |-> LevelsField(venue_asks, ask_prices)]>>]

\* The best price of a side, or "0", when the venue sends hints.
HintText(prices, best) ==
  IF ~hints THEN NoText ELSE PriceText(IF prices = {} THEN 0 ELSE best)

\* The level that changed and the best prices after the change.
ChangeOf(price, side, is_bid, bids, asks) ==
  LET b == VenueLevels(bids)
      a == VenueLevels(asks)
  IN [shape |-> "level", price |-> PriceText(price), size |-> side[price],
      side |-> IF is_bid THEN "BUY" ELSE "SELL",
      best_bid |-> HintText(b, Max(b)), best_ask |-> HintText(a, Min(a))]

PriceChange(changes) ==
  [kind |-> "object",
   messages |-> <<[event_type |-> "price_change",
                   price_changes |-> [status |-> "array", elements |-> changes]]>>]

\* The cents nearest to a price of the venue.
Cents(price) == (price + 5) \div 10

\* on_read: the change is parsed, if the engine is connected to hear it, and
\* its ticks come after those of the changes before it.
Receive(change, key) ==
  IF connected
  THEN parsed' = parsed \o parse_tick(PriceChange(<<change>>)).ticks /\ UNCHANGED <<stale, lossless>>
  ELSE stale' = stale \cup {key} /\ lossless' = FALSE /\ UNCHANGED parsed

SendSnapshot ==
  /\ ~connected
  /\ parsed = <<>>
  /\ connected' = TRUE
  /\ \E bid_prices \in SetToSeqs(VenueLevels(venue_bids)),
        ask_prices \in SetToSeqs(VenueLevels(venue_asks)) :
       parsed' = parse_tick(Snapshot(bid_prices, ask_prices)).ticks
  /\ UNCHANGED <<grid, venue_bids, venue_asks, hints, outages, bids_, asks_, tick_queue, stale, lossless>>

\* A bid level changes; bids stay below the asks.
ChangeBid(price, size) ==
  /\ connected \/ outages > 0
  /\ Len(parsed) <= MaxUnread
  /\ venue_bids[price] # size
  /\ Positive(size) => \A p \in VenueLevels(venue_asks) : price < p
  /\ venue_bids' = [venue_bids EXCEPT ![price] = size]
  /\ UNCHANGED <<grid, venue_asks, hints, connected, outages, bids_, asks_, tick_queue>>
  /\ Receive(ChangeOf(price, venue_bids', TRUE, venue_bids', venue_asks), <<TRUE, Cents(price)>>)

ChangeAsk(price, size) ==
  /\ connected \/ outages > 0
  /\ Len(parsed) <= MaxUnread
  /\ venue_asks[price] # size
  /\ Positive(size) => \A p \in VenueLevels(venue_bids) : p < price
  /\ venue_asks' = [venue_asks EXCEPT ![price] = size]
  /\ UNCHANGED <<grid, venue_bids, hints, connected, outages, bids_, asks_, tick_queue>>
  /\ Receive(ChangeOf(price, venue_asks', FALSE, venue_bids, venue_asks'), <<FALSE, Cents(price)>>)

Outage ==
  /\ connected
  /\ parsed = <<>>
  /\ outages < MaxOutages
  /\ outages' = outages + 1
  /\ connected' = FALSE
  /\ UNCHANGED <<grid, venue_bids, venue_asks, hints, bids_, asks_, parsed, tick_queue, stale, lossless>>

-----------------------------------------------------------------------------
(* The engine.                                                             *)

\* out_queue.push(tick), whose result nobody looks at.
PushTick ==
  /\ parsed # <<>>
  /\ parsed' = Tail(parsed)
  /\ LET tick == Head(parsed)
         key == <<tick.is_bid, tick.price>>
     IN IF Len(tick_queue) < Capacity
        THEN /\ tick_queue' = Append(tick_queue, tick)
             /\ stale' = stale \ {key}
             /\ UNCHANGED lossless
        ELSE stale' = stale \cup {key} /\ lossless' = FALSE /\ UNCHANGED tick_queue
  /\ UNCHANGED <<venueVars, bids_, asks_>>

\* The strategy thread pops a tick and applies it.
ApplyNext ==
  /\ tick_queue # <<>>
  /\ tick_queue' = Tail(tick_queue)
  /\ apply_tick(Head(tick_queue))
  /\ UNCHANGED <<venueVars, parsed, stale, lossless>>

Next ==
  \/ SendSnapshot
  \/ \E p \in grid, s \in VenueSizes : ChangeBid(p, s) \/ ChangeAsk(p, s)
  \/ Outage
  \/ PushTick
  \/ ApplyNext

Spec == Init /\ [][Next]_vars

-----------------------------------------------------------------------------
(* Properties.                                                             *)

CaughtUp == connected /\ parsed = <<>> /\ tick_queue = <<>>

Side(is_bid) == IF is_bid THEN bids_ ELSE asks_
VenueSide(is_bid) == IF is_bid THEN venue_bids ELSE venue_asks

\* The prices of the venue that the book keeps under one.
Rounded(cents) == {p \in grid : Cents(p) = cents}

\* The levels whose last update reached the book.
Updated == {key \in BOOLEAN \X Price : key \notin stale}

\* What a size text stands for in the book: its units, or if it has a
\* fraction, its units of the last decimal kept; and whether a uint32_t holds
\* it.
Whole(text) == \A i \in DOMAIN text.frac : text.frac[i] = 0
BookSize(text) == IF Whole(text) THEN text.int ELSE Scaled(text.int, text.frac, SizeDigits)
Fits(text) == BookSize(text) < WordRange

\* Drops and outages leave the book wrong only at levels whose own last
\* update was lost: anywhere else, once the ticks have been applied, it has
\* no level that the venue does not have (no hint brings a removed one back,
\* no size that the parser skips hides a removal), and every level of the
\* venue that shares its cents with no other and whose size fits.
LevelsTrackVenue ==
  CaughtUp =>
    \A key \in Updated :
      LET venue == Rounded(key[2]) \cap VenueLevels(VenueSide(key[1]))
          level == Side(key[1])[key[2]] # 0
      IN /\ level => venue # {}
         /\ Cardinality(Rounded(key[2])) = 1 =>
              \A p \in venue : Fits(VenueSide(key[1])[p]) => level

\* At such levels it has the venue's sizes too, as parse_size_u32 encodes
\* them: "one MarketTick per updated price level".
SizesTrackVenue ==
  CaughtUp =>
    \A key \in Updated :
      \A p \in Rounded(key[2]) :
        LET size == VenueSide(key[1])[p]
        IN Cardinality(Rounded(key[2])) = 1 /\ Fits(size) =>
             Side(key[1])[key[2]] = BookSize(size)

\* With a venue that sends no hints, snapshot and changes through parser,
\* queue and apply_tick bring to every level that shares its cents with no
\* other the venue's last size, whole or decimal, if a uint32_t holds it,
\* whatever was skipped there before; a removed level is removed.
PlainSizesTrackVenue ==
  ~hints => SizesTrackVenue

\* As long as no update is lost, the strategy never sees a crossed book, in
\* the middle of a message either; rounding to cents can lock it at most.
NeverCrossed ==
  lossless =>
    \A b \in Levels(bids_), a \in Levels(asks_) :
      b < a \/ (b = a /\ Cardinality(Rounded(b)) > 1)

====
