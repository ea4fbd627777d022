CONSTANTS
  s1 = s1
  s2 = s2
  c1 = c1
  c2 = c2
  NoServer = NoServer
  NoClient = NoClient
  NoFrame = NoFrame
  Servers = {s1, s2}
  Clients = {c1, c2}
  FollowClients = {c1}
  NumRuns = 1
  MaxFrames = 2
  Chunks = 2
  Unreadable <- SecondUnreadable
  Backlog = 1
  MaxFaults = 1
  SilentLoss = TRUE
SPECIFICATION Spec
SYMMETRY ServerSymmetry
INVARIANTS TypeOK NoFrameLost InOrder FramingInSync
PROPERTIES DeliverySpec
CHECK_DEADLOCK FALSE
