SPECIFICATION FairSpec
CONSTANTS
  Items = {t1, t2}
  NoItem = NoItem
  Size = 4
  IndexRange = 8
INVARIANTS
  TypeOK
  CursorOrder
  NoSlotSharing
  StorageLifetimes
PROPERTIES
  FifoRefinement
  Delivery
CHECK_DEADLOCK FALSE
