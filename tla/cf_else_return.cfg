SPECIFICATION CSpec
CONSTANTS
  MaxStatements = 6
  NestedForever = FALSE
  FoldedReturns = FALSE
CHECK_DEADLOCK FALSE
INVARIANT NoNeedToJoin
