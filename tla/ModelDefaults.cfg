SPECIFICATION SortedSpec
CONSTANTS
  Runs = {1, 2, 3}
  Revisions = {1, 2, 3, 4}
  ParamCount <- Sizes
  None = None
  ComfortableMax = 17
  TightMax = 30
  WorkerMax = 30
INVARIANTS
  TypeOK
  LatestIsDefault
  OversizedIsRejected
  OversizedNeverCached
PROPERTIES
  DefaultNeverLost
  EveryRunEnds
CHECK_DEADLOCK FALSE
