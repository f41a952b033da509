SPECIFICATION PartSpec
CONSTANTS
  Workers <- MCWorkers
  MaxTokens = 2
  ResultCap = 2
  OutCap = 2
  MaxItems = 3
  Askers = {a1, a2, a3}
  NoAsker = none
INVARIANTS
  ServicesTypeOK LoginNotLost RefreshCollapses
  FlushShowsAll ModalHasAsker
PROPERTIES
  GetReturns TerminalReleases
CHECK_DEADLOCK FALSE
