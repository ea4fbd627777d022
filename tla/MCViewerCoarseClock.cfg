CONSTANTS
  NumRuns = 1
  MaxFrames <- OneRunOfTwo
  DistinctTimes = FALSE
  MaxTicks = 1
  MaxScanFaults = 0
  CacheLimit = 2
  MaxFetchFaults = 0
  MaxMoves = 0
SPECIFICATION FairSpec
PROPERTIES CompletionNoticed
CHECK_DEADLOCK FALSE
