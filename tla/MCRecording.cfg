CONSTANTS
  Messages <- MCMessages
  FlushEvery = 2
  MaxBackoff = 1
  MaxRestarts = 1
SPECIFICATION FairSpec
INVARIANTS
  TypeOK
  CleanRunsRecordEverything
  CrashLossBounded
  ReplayFaithful
  PayloadsUnmixed
PROPERTIES
  StopHonoured
  Reconnects
  ReplayNoticesClose
CHECK_DEADLOCK FALSE
