CONSTANTS
  NSlots = 2
  NCtx = 3
  MaxB = 3
  Layers <- MCLayers
  HQ = 8
  Chunk = 2
  GqaThreshold = 2
  QB = 2
  Budget = 4
  NExp = 4
  NUsed = 2
  Configs <- MCConfigs
  MaxCalls = 3
SPECIFICATION Spec
CHECK_DEADLOCK FALSE
INVARIANTS
  TypeOK
  RaceFree
  StateAsSerial
  VerifyKeepsLive
  OutputsExact
