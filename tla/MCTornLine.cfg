CONSTANTS
  Messages <- MCMessages
  FlushEvery = 2
  MaxBackoff = 1
  MaxRestarts = 1
SPECIFICATION Spec
INVARIANT OneLinePerMessage
CHECK_DEADLOCK FALSE
