CONSTANTS
  r1 = r1
  r2 = r2
  r3 = r3
  Request = {r1, r2, r3}
  None = None
  NSlots = 2
  MaxGen <- MCOneToken
  QueueCap = 1
  ChanCap = 1
  Chunk = 1
  MaxPre = 1
  MaxFaults = 1
SPECIFICATION FairSpec
CHECK_DEADLOCK FALSE
PROPERTIES
  GenerationEnds
  VanishedFreed
  RequestsEndIfPolled
  ShutdownIfPolled
