CONSTANTS
  Char <- MCChar
  Split <- MCSplit
  Stops <- MCNoStops
  Pieces <- MCSplitPieces
  ToolOpen <- MCToolOpen
  ToolClose <- MCToolClose
  ThinkOpen <- MCThinkOpen
  ThinkClose <- MCThinkClose
  Blank = " "
  Calls <- MCCalls
  MaxRetries = 1
  MaxPieces = 5
  MaxPerEvent = 2
SPECIFICATION Spec
CHECK_DEADLOCK FALSE
INVARIANT NoBytesLost
