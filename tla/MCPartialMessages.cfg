CONSTANTS
  TopPrice = 100
  WordRange = 1024
  SizeDigits = 2
  Texts <- MCTexts
  Docs <- MCDocs
SPECIFICATION Spec
INVARIANT TicksOnSuccess
CHECK_DEADLOCK FALSE
