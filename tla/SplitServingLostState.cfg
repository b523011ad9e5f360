CONSTANTS
  r1 = r1
  r2 = r2
  r3 = r3
  None = None
  Gen = Gen
  Prompt <- MCPrompt
  SnapPrefix <- MCSnapPrefix
  Request = {r1, r2}
  NSlots = 2
  MaxGen <- MCTwoTokens
  QueueCap = 0
  ChanCap = 1
  SnapN = 1
  MinKeep = 2
  ChunkAlone = 2
  ChunkShared = 1
  Restarts = TRUE
  MaxFaults = 1
SPECIFICATION Spec
CHECK_DEADLOCK FALSE
INVARIANTS
  StreamsExact
