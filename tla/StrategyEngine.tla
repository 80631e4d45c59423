---- MODULE StrategyEngine ----
(***************************************************************************)
(* src/strategy_engine.cpp: what the strategy thread does with the ticks   *)
(* it pops, from the order book through the alphas and the simulated fill  *)
(* to the rows it hands to the logger.                                     *)
(*                                                                         *)
(* A tick is processed in one step: nothing here is shared with another    *)
(* thread but the queues, and TradingEngine interleaves those.  The logger *)
(* may refuse any row (its queue is full).                                 *)
(***************************************************************************)
EXTENDS Alphas, PositionManager, Sequences

CONSTANTS
  Ticks,              \* the ticks the feed can carry
  Selections,         \* values of --strategy
  kDefaultTradeSize,  \* 10
  MarkInterval,       \* 1000
  MaxTicks            \* bound on the ticks processed

ASSUME EngineAssumption ==
  /\ \A t \in Ticks : t.price \in Price /\ t.size \in Size /\ t.is_bid \in BOOLEAN
  /\ Selections \subseteq {"momentum", "ofi", "both"}
  /\ kDefaultTradeSize \in Nat \ {0}
  /\ MarkInterval \in Nat \ {0}
  /\ MaxTicks \in Nat

VARIABLES
  selection,
  ticks_processed,
  emitted_initial_p_,
  rows,      \* the rows the last tick gave to the logger, in order
  refused,   \* which of them log_event() returned false for
  ledger     \* history: what a reader of the log gets by adding up its T rows

engineVars == <<selection, ticks_processed, emitted_initial_p_, rows, refused, ledger>>
vars == <<bids_, asks_, momentum, ofi,
          position_size_, average_entry_price_, realized_pnl_, cash, entries,
          selection, ticks_processed, emitted_initial_p_, rows, refused, ledger>>

kTradeThreshold == <<3, 5>>

Init ==
  /\ InitBook
  /\ InitAlphas
  /\ InitPosition
  /\ selection \in Selections
  /\ ticks_processed = 0
  /\ emitted_initial_p_ = FALSE
  /\ rows = <<>>
  /\ refused = {}
  /\ ledger = [size |-> 0, cash |-> 0, lost |-> FALSE]

-----------------------------------------------------------------------------
\* Faulty variant: the scores are added and not averaged.
CombinedScoreSum(top) ==
  CASE selection = "momentum" -> MomentumScore(top)
    [] selection = "ofi" -> OFIScore(top)
    [] selection = "both" -> QAdd(MomentumScore(top), OFIScore(top))

\* The average over the signals the constructor installed.
CombinedScore(top) ==
  CASE selection = "momentum" -> MomentumScore(top)
    [] selection = "ofi" -> OFIScore(top)
    [] selection = "both" -> QDiv(QAdd(MomentumScore(top), OFIScore(top)), 2)

UpdateSignals(top) ==
  /\ IF selection # "ofi" THEN MomentumUpdate(top) ELSE UNCHANGED momentum
  /\ IF selection # "momentum" THEN OFIUpdate(top) ELSE UNCHANGED ofi

\* Buy at the best ask, sell at the best bid, or nothing.
FillSize(score) ==
  IF QLeq(kTradeThreshold, score) THEN kDefaultTradeSize
  ELSE IF QLeq(score, QNeg(kTradeThreshold)) THEN -kDefaultTradeSize
  ELSE 0

FillPrice(fill_size, top) == IF fill_size > 0 THEN top.ask ELSE top.bid

\* A 'P' row: the position and its equity at the mid price.
MarkRow(top, size, entry, realized) ==
  [type |-> "P", price |-> Mid(top), size |-> size,
   pnl |-> Equity(size, entry, realized, Mid(top))]

\* The 'P' row of the first tick that finds a two-sided book.
OpeningRow(top) ==
  IF emitted_initial_p_ THEN <<>>
  ELSE <<MarkRow(top, position_size_, average_entry_price_, realized_pnl_)>>

\* The 'T' row of a fill.
TradeRow(fill_size, fill_price) ==
  IF fill_size = 0 THEN <<>>
  ELSE <<[type |-> "T", price |-> Whole(fill_price), size |-> fill_size,
          pnl |-> realized_pnl_']>>

\* Faulty variant: the mark is taken before the fill.
PeriodicRowBeforeFill(top) ==
  IF ticks_processed' % MarkInterval = 0
  THEN <<MarkRow(top, position_size_, average_entry_price_, realized_pnl_)>>
  ELSE <<>>

\* The periodic 'P' row.
PeriodicRow(top) ==
  IF ticks_processed' % MarkInterval = 0
  THEN <<MarkRow(top, position_size_', average_entry_price_', realized_pnl_')>>
  ELSE <<>>

\* What the rows the logger accepted add to the fills a reader knows of.
LedgerAfter ==
  LET trades == {i \in DOMAIN rows' : rows'[i].type = "T"}
  IN IF trades = {} THEN ledger
     ELSE IF trades \subseteq refused' THEN [ledger EXCEPT !.lost = TRUE]
     ELSE LET row == rows'[Max(trades)]
          IN [size |-> ledger.size + row.size,
              cash |-> ledger.cash - row.size * row.price[1],
              lost |-> ledger.lost]

\* A book with nothing to trade on: the loop continues.
Skip(top) ==
  /\ ~TwoSided(top) \/ Denom(top) = 0
  /\ rows' = <<>>
  /\ UNCHANGED <<momentum, ofi, positionVars, emitted_initial_p_>>

\* A two-sided book: mark, score, fill, mark.
Trade(top) ==
  /\ TwoSided(top) /\ Denom(top) # 0
  /\ emitted_initial_p_' = TRUE
  /\ UpdateSignals(top)
  /\ \E fill_size \in {FillSize(CombinedScore(top))} :
       LET fill_price == FillPrice(fill_size, top)
       IN /\ add_fill(fill_size, fill_price)
          /\ rows' = OpeningRow(top) \o TradeRow(fill_size, fill_price) \o PeriodicRow(top)

\* One iteration of run() that pops a tick.
ProcessTick(tick) ==
  /\ ticks_processed < MaxTicks
  /\ ticks_processed' = ticks_processed + 1
  /\ apply_tick(tick)
  /\ \E top \in {Top(bids_', asks_')} : Skip(top) \/ Trade(top)
  /\ refused' \in SUBSET DOMAIN rows'
  /\ ledger' = LedgerAfter
  /\ UNCHANGED selection

Next == \E tick \in Ticks : ProcessTick(tick)

Spec == Init /\ [][Next]_vars

-----------------------------------------------------------------------------
(* Properties.                                                             *)

TypeOK ==
  /\ bids_ \in [Price -> Size] /\ asks_ \in [Price -> Size]
  /\ momentum.has_prev \in BOOLEAN /\ IsFraction(momentum.prev_microprice)
  /\ ofi.initialized \in BOOLEAN /\ (ofi.initialized => TwoSided(ofi.prev))
  /\ PositionTypeOK
  /\ selection \in Selections
  /\ ticks_processed \in 0 .. MaxTicks
  /\ emitted_initial_p_ \in BOOLEAN
  /\ Len(rows) <= 3

\* A reader who adds up the fills of the log's T rows finds, at every P row's
\* mid price, the equity that row reports, as long as no T row was refused.
RowsReconcile ==
  ~ledger.lost =>
    \A i \in DOMAIN rows :
      rows[i].type = "P" =>
        /\ rows[i].size = ledger.size
        /\ rows[i].pnl = QAdd(Whole(ledger.cash),
                              QMul(Whole(ledger.size), rows[i].price))

\* The position changes only on a tick after the one that wrote the opening
\* mark: the first two-sided book only primes the signals, whichever are
\* selected.
NoFillBeforeOpening ==
  [][position_size_' # position_size_ => emitted_initial_p_]_vars

\* Under "both" a fill needs both signals: the microprice moved by more than
\* a cent and the order flow agrees with it.  One signal at full confidence
\* is not enough.
EnsembleAgreement ==
  [][selection = "both" =>
       LET top == Top(bids_', asks_')
       IN /\ position_size_' > position_size_ =>
               QLess(Zero, MomentumScore(top)) /\ QLess(Zero, OFIScore(top))
          /\ position_size_' < position_size_ =>
               QLess(MomentumScore(top), Zero) /\ QLess(OFIScore(top), Zero)]_vars

\* A tick that leaves the top of a book the signals have already seen as it
\* was (an update deeper in the book, a repeated update) never trades.
NoFillOnIdleTop ==
  [][LET before == Top(bids_, asks_)
     IN /\ TwoSided(before) /\ Denom(before) # 0
        /\ Top(bids_', asks_') = before
        => position_size_' = position_size_]_vars

-----------------------------------------------------------------------------
(* What the documentation says of the strategy.                            *)

\* "On each tick, it calls update() on each alpha": a tick that leaves one
\* side empty then resets OFIAlpha, whose update() begins with that case.
GapResetsOFI ==
  selection # "momentum" /\ ~TwoSided(Top(bids_, asks_)) => ~ofi.initialized

\* "microprice location within the spread": the microprice of a two-sided
\* book lies between its best prices.
MicropriceInSpread ==
  LET top == Top(bids_, asks_)
  IN TwoSided(top) /\ Denom(top) # 0 =>
       /\ QLeq(Whole(Min({top.bid, top.ask})), Microprice(top))
       /\ QLeq(Microprice(top), Whole(Max({top.bid, top.ask})))

====
