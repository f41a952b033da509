SPECIFICATION PartSpec
CONSTANTS
  MaxCalls = 3
  MaxLength = 11
  MaxEntries = 3
  MaxFailures = 2
  Chats = {c1, c2}
  Runtimes = {r1, r2}
  Prompts = {p1, p2}
  KeepNewest = 2
  MaxPrompts = 3
  MaxAnswers = 2
  MaxChanges = 3
SYMMETRY Interchangeable
INVARIANTS
  HistoryTypeOK SplitIsUsable CutOnlyBetweenBatches
  SavedSessionLoads NeverAMixture
  ChainIsHistory InvestigationTakenBack
CHECK_DEADLOCK FALSE
