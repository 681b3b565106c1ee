SPECIFICATION CSpec
CONSTANTS
  MaxStatements = 6
  NestedForever = TRUE
  FoldedReturns = FALSE
CHECK_DEADLOCK FALSE
PROPERTY BackEdgeStays
