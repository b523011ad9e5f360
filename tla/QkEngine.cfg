CONSTANTS
  r1 = r1
  r2 = r2
  r3 = r3
  Request = {r1, r2, r3}
  None = None
  NSlots = 2
  MaxGen <- MCMaxGen
  Prompt <- MCPrompt
  SnapPrefix <- MCSnapPrefix
  Tok <- MCTok
  Eos <- MCEos
  Models <- MCModels
  Chunk = 2
  NCtx = 8
  MaxB = 3
  MinBatch = 2
  MinKeep = 1
  PCacheN = 2
  SpecOn = TRUE
  SpecL = 2
  SpecK = 3
  ShareFork = TRUE
  Collisions = TRUE
SPECIFICATION Spec
CHECK_DEADLOCK FALSE
INVARIANTS
  TypeOK
  OutputIsGreedy
  LiveStateExact
  SnapshotsExact
PROPERTY
  ImplementsABI
