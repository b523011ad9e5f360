CONSTANTS
  Modes = {"serve-test", "serve-test2", "serve-bench", "stage-bench", "cachetest", "verify",
           "speccmp", "prefillcmp", "prefilldecode", "prefillbench", "pipe"}
  Faults = {"none", "batch", "commit", "promote", "restore", "neighbour"}
  Prompts <- MCPrompts
  Gens = {1, 2, 4, 5}
  Options = {0, 1, 2, 3}
  Tok <- MCTok
  Eos <- MCEos
  Models <- MCModels
  Chunk = 2
  NCtx = 12
  MaxB = 3
  MinBatch = 2
  MinKeep = 1
  MinGen = 2
  RoundSizes <- MCRoundSizes
  Corruptions <- MCCorruptions
  Sizes <- MCSizes
SPECIFICATION Spec
CHECK_DEADLOCK FALSE
INVARIANTS
  CallsLegal
  NoFalseAlarm
  VerdictSound
PROPERTY
  HarnessEnds
