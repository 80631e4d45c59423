---- MODULE MCStrategyEngine ----
(***************************************************************************)
(* StrategyEngine on two bid and two ask levels that can cross, more than  *)
(* a cent apart, with sizes whose sum reaches and passes SizeRange.        *)
(***************************************************************************)
EXTENDS StrategyEngine

MCTicks ==
  [price : {1, 4}, size : {0, 1, 3}, is_bid : {TRUE}]
    \cup [price : {3, 6}, size : {0, 1, 3}, is_bid : {FALSE}]

====
