SPECIFICATION RcSpec
CONSTANTS
  Chats = {c1}
  Runtimes = {r1}
  Prompts = {p1}
  KeepNewest = 2
  MaxPrompts = 2
  MaxAnswers = 3
  MaxChanges = 1
INVARIANTS InvestigationNotCarriedOver
CHECK_DEADLOCK FALSE
