CONSTANTS
  r1 = r1
  r2 = r2
  r3 = r3
  Request = {r1, r2, r3}
  None = None
  NSlots = 2
  MaxGen <- MCMaxGen
  QueueCap = 1
  ChanCap = 1
  Chunk = 2
  MaxPre = 2
  MaxFaults = 1
SPECIFICATION Spec
SYMMETRY MCSymmetry
CHECK_DEADLOCK FALSE
INVARIANTS
  TypeOK
  SlotsAgree
  StreamExact
  EndsOnce
  EndIsTruthful
  PermitsConserved
