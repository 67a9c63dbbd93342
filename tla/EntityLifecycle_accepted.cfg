SPECIFICATION Spec
CONSTANTS
  HalfWord = 4
  MaxEntity = 2
  MaxGeneration = 2
  Failing = {}
INVARIANT OutstandingAccepted
CHECK_DEADLOCK FALSE
