CONSTANTS
  Char <- MCChar
  Split <- MCSplit
  Stops <- MCStops
  Pieces <- MCPieces
  ToolOpen <- MCToolOpen
  ToolClose <- MCToolClose
  ThinkOpen <- MCThinkOpen
  ThinkClose <- MCThinkClose
  Blank = " "
  Calls <- MCCalls
  MaxRetries = 1
  MaxPieces = 5
  MaxPerEvent = 2
SPECIFICATION Spec
CHECK_DEADLOCK FALSE
INVARIANTS
  CutAtStop
  ContentExact
  BlocksWellFormed
  CallsEndTheTurn
