SPECIFICATION ASpec
CONSTANTS
  MaxStatements = 5
  NestedForever = FALSE
  FoldedReturns = FALSE
  NumIdents = 3
  NumParams = 2
  Lets <- MCLets
  Writes <- MCWrites
  Conds <- MCConds
  Results <- MCResults
  ReturnsInLoops = TRUE
  CrossedPhis = TRUE
  MaxBlocks = 0
CHECK_DEADLOCK FALSE
INVARIANT ReferencesReplaced
