SPECIFICATION LspSpec
CONSTANTS
  LspWorkers = {w1}
  LspCloser = closer
  NoWorker = none
  MaxIds = 2
  MaxEdits = 1
  MaxStarts = 1
PROPERTIES DiagnosticsCurrent
CHECK_DEADLOCK FALSE
