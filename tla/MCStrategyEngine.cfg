CONSTANTS
  kMaxPrice = 6
  SizeRange = 4
  Ticks <- MCTicks
  Selections = {"momentum", "ofi", "both"}
  kDefaultTradeSize = 10
  MarkInterval = 3
  MaxTicks = 7
SPECIFICATION Spec
INVARIANTS
  TypeOK
  RowsReconcile
PROPERTIES
  NoFillBeforeOpening
  EnsembleAgreement
  NoFillOnIdleTop
CHECK_DEADLOCK FALSE
