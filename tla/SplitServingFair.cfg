CONSTANTS
  r1 = r1
  r2 = r2
  r3 = r3
  None = None
  Gen = Gen
  Prompt <- MCPrompt
  SnapPrefix <- MCSnapPrefix
  Request = {r1, r2}
  NSlots = 2
  MaxGen <- MCOneToken
  QueueCap = 0
  ChanCap = 1
  SnapN = 1
  MinKeep = 2
  ChunkAlone = 2
  ChunkShared = 1
  Restarts = FALSE
  MaxFaults = 1
SPECIFICATION FairSpec
CHECK_DEADLOCK FALSE
PROPERTIES
  RequestsEnd
  PermitsReturn
  ShutdownCompletes
