CONSTANTS
  FillSizes <- MCFillSizes
  FillPrices = {1, 2, 4}
  MaxFills = 5
SPECIFICATION Spec
INVARIANTS
  EquityIdentity
  EntryWithinFills
CHECK_DEADLOCK FALSE
