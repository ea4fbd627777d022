CONSTANTS
  NumRuns = 2
  MaxFrames <- TwoThenOne
  DistinctTimes = FALSE
  MaxTicks = 1
  MaxScanFaults = 1
  CacheLimit = 2
  MaxFetchFaults = 1
  MaxMoves = 1
SPECIFICATION Spec
CONSTRAINT OneFault
INVARIANTS ShowsSelected LoadingIsBacked
CHECK_DEADLOCK FALSE
