CONSTANTS
  s1 = s1
  s2 = s2
  c1 = c1
  c2 = c2
  NoServer = NoServer
  NoClient = NoClient
  NoFrame = NoFrame
  Servers = {s1}
  Clients = {c1, c2}
  FollowClients = {c1}
  NumRuns = 1
  MaxFrames = 2
  Chunks = 1
  Unreadable <- NoFrames
  Backlog = 1
  MaxFaults = 2
  SilentLoss = FALSE
SPECIFICATION FairSpec
INVARIANTS AckMatchesFrame OnceDrainsBacklog
PROPERTIES EventuallyDelivered SlotFreed
CHECK_DEADLOCK FALSE
