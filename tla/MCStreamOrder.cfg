CONSTANTS
  s1 = s1
  s2 = s2
  c1 = c1
  c2 = c2
  NoServer = NoServer
  NoClient = NoClient
  NoFrame = NoFrame
  Servers = {s1}
  Clients = {c1}
  FollowClients = {}
  NumRuns = 1
  MaxFrames = 2
  Chunks = 1
  Unreadable <- NoFrames
  Backlog = 1
  MaxFaults = 0
  SilentLoss = FALSE
SPECIFICATION Spec
INVARIANTS BacklogInOrder
CHECK_DEADLOCK FALSE
