CONSTANTS
  Callers = {c1, c2}
  MaxAgents = 1
  MaxWaitIds = 2
  ConfiguredMax = 1
  EventCap = 1
SPECIFICATION FairSpec
PROPERTY WaitAlwaysReturns
CHECK_DEADLOCK FALSE
