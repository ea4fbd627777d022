CONSTANTS
  NumRuns = 1
  MaxFrames <- OneRunOfTwo
  DistinctTimes = TRUE
  MaxTicks = 0
  MaxScanFaults = 0
  CacheLimit = 1
  MaxFetchFaults = 0
  MaxMoves = 0
SPECIFICATION FairSpec
INVARIANTS CacheCoherent
PROPERTIES LoopsOverAllFrames FollowsNewest
CHECK_DEADLOCK FALSE
