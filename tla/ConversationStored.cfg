SPECIFICATION Spec
CONSTANTS
  MaxCalls = 1
  MaxTurns = 1
  MaxResumes = 0
  MaxBefore = 9
  ToolLoopLimits = {2}
  MaxResponses = 2
  KeepRecent = 2
  LoopThreshold = 9
  StrikeLimit = 2
  MaxFeedback = 1
INVARIANTS ResultsStored
CHECK_DEADLOCK FALSE
