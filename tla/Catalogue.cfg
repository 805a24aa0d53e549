SPECIFICATION Spec
CONSTANTS
  NumRows = 4
  DefaultLimit = 2
  MaxLimit = 3
  None = None
  MaxMoves = 3
INVARIANTS
  SkipsBounded
  RepeatsBounded
CHECK_DEADLOCK FALSE
