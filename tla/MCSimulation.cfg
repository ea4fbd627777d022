CONSTANTS
  kFrameChunkParticles = 2
  kQuantizedPositionMaximum = 5
  Options <- SomeOptions
  InputFiles <- Unambiguous
  Motions <- SomeMotions
  TypeOf <- StarThenOthers
  Unknown = 0
  Interval = 2
  MaxTime = 5
  MaxAttempts = 2
SPECIFICATION FairSpec
INVARIANTS OwnedOnce LeapfrogOrder LoadsAsWritten FramesFaithful CompleteRun OncePerInterval NothingLeft
PROPERTIES Terminates DirectorySpec
CHECK_DEADLOCK FALSE
