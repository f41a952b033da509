CONSTANTS
  Callers = {c1, c2}
  MaxAgents = 2
  MaxWaitIds = 1
  ConfiguredMax = 0
  EventCap = 1
SPECIFICATION Spec
SYMMETRY CallerSymmetry
INVARIANTS TypeOK ConcurrencyBound AnswersAreFinal LiveViewShowsCompletions
PROPERTIES ImplementsPool
CHECK_DEADLOCK FALSE
