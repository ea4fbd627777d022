CONSTANTS
  kFrameChunkParticles = 2
  kQuantizedPositionMaximum = 5
  Options <- SomeOptions
  InputFiles <- AllFiles
  Motions <- SomeMotions
  TypeOf <- StarThenOthers
  Unknown = 0
  Interval = 2
  MaxTime = 5
  MaxAttempts = 2
SPECIFICATION Spec
INVARIANTS LoadsAsWritten
CHECK_DEADLOCK FALSE
