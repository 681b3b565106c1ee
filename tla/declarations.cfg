SPECIFICATION Spec
CONSTANTS
  MaxName = 3
  MaxFunctions = 2
  MaxLocals = 2
  MaxStatements = 4
  Classes = {}
CHECK_DEADLOCK FALSE
INVARIANTS CallsReachFunctions NamesKeepMeaning WarningsMatch
