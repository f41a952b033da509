CONSTANTS
  Callers = {c1, c2}
  MaxAgents = 1
  MaxWaitIds = 2
  ConfiguredMax = 1
  EventCap = 1
SPECIFICATION FairSpec
INVARIANTS VerdictSummarisesResults
PROPERTIES TimedWaitReturns UntimedWaitReturns
CHECK_DEADLOCK FALSE
