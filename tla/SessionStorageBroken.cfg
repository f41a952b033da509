SPECIFICATION Spec
CONSTANTS
  MaxEntries = 3
  MaxFailures = 1
INVARIANTS EverySavedSessionLoads
CHECK_DEADLOCK FALSE
