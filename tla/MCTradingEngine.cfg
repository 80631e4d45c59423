CONSTANTS
  tick = tick
  LogCapacity = 2
  FlushEvery = 2
  Payloads <- MCPayloads
  TickCapacity = 1
  MaxMessages = 1
  TickRows <- MCTickRows
SPECIFICATION FairSpec
INVARIANTS
  TypeOK
  LogComplete
  ProducerHandover
  MetadataFirst
  NoUseAfterDestroy
  NetworkEndsForCause
  BufferExclusive
PROPERTIES
  ShutdownCompletes
  RowsReachFile
  NetworkNeverBlocks
