SPECIFICATION PartSpec
CONSTANTS
  MaxCalls = 2
  MaxTurns = 2
  MaxResumes = 1
  MaxBefore = 1
  ToolLoopLimits = {0, 1}
  MaxResponses = 2
  KeepRecent = 1
  LoopThreshold = 2
  StrikeLimit = 2
  MaxFeedback = 1
  Files = {f1, f2}
  Folder = folder
  Readers = {r1, r2}
  MaxFileCacheEntries = 1
  MaxFileTime = 2
INVARIANTS
  ConversationTypeOK
  CallsAnswered OrphansOnlyAtFront SessionFollowsHistory
  CachedReadCurrent AnswerKnowsOwnEdits
PROPERTIES CurrentTurnKept TurnEnds
CHECK_DEADLOCK FALSE
