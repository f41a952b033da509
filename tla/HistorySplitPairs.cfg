SPECIFICATION CasesSpec
CONSTANTS
  MaxCalls = 2
  MaxLength = 7
INVARIANTS PairsNotSplit
CHECK_DEADLOCK FALSE
