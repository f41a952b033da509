SPECIFICATION PartSpec
CONSTANTS
  Kinds = {"search", "read", "probe", "write"}
  Args = {a1}
  MaxCalls = 3
  Threshold = 3
  MaxParallelTools = 2
  MaxSearchBatchPatterns = 2
  MaxReadFileBatchPaths = 2
  LspWorkers = {w1, w2}
  LspCloser = closer
  NoWorker = none
  MaxIds = 3
  MaxEdits = 1
  MaxStarts = 2
INVARIANTS
  WorkTypeOK
  InFlightBound SequentialRunsAlone RepliesTellWhatRan LoopsAreCut
  WritesStopAtCancel
  ServerUsable
PROPERTIES
  BatchCompletes
  OpenedOnce CallersReturn
CHECK_DEADLOCK FALSE
