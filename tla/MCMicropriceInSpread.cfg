CONSTANTS
  kMaxPrice = 6
  SizeRange = 4
  Ticks <- MCTicks
  Selections = {"momentum", "ofi", "both"}
  kDefaultTradeSize = 10
  MarkInterval = 3
  MaxTicks = 4
SPECIFICATION Spec
INVARIANT MicropriceInSpread
CHECK_DEADLOCK FALSE
