CONSTANTS
  kMaxPrice = 2
  TopPrice = 2
  SizeRange = 64
  WordRange = 64
  SizeDigits = 1
  Grids <- MCGrids
  VenueSizes <- MCSizes
  InCents = {20}
  Capacity = 1
  MaxUnread = 1
  MaxOutages = 1
SPECIFICATION Spec
INVARIANT SizesTrackVenue
