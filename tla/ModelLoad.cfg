CONSTANTS
  DefaultAlign = 4
  Block <- MCBlock
  Size <- MCSize
  StageCells = 7
  Buffer <- MCBuffer
  Cell <- MCCell
  Junk <- MCJunk
  NEmbd = 4
  DIn = 4
  ChQkv = 3
  HKV = 1
  Dh = 2
  DS = 2
  HV = 4
  Models <- MCModels
  Slots = {1, 17}
  Cuts <- MCCuts
SPECIFICATION Spec
INVARIANTS
  TypeOK
  Uploaded
  BuffersExact
  KernelsFit
  CompleteModelsOpen
