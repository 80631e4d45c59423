---- MODULE MCTradingEngine ----
(***************************************************************************)
(* TradingEngine with queues small enough to overflow.                     *)
(***************************************************************************)
EXTENDS TradingEngine

CONSTANT tick

\* A message without levels, and one that fills the tick queue or overflows it.
MCPayloads == {<<>>, <<tick, tick>>}

\* A quiet tick, and a trade on a marking tick.
MCTickRows == {<<>>, <<"T", "P">>}

====
