SPECIFICATION ASpec
CONSTANTS
  MaxStatements = 5
  NestedForever = FALSE
  FoldedReturns = FALSE
  NumIdents = 3
  NumParams = 2
  Lets <- MCLets
  Writes <- MCWrites
  Conds <- MCConds
  Results <- MCResults
  ReturnsInLoops = FALSE
  CrossedPhis = FALSE
  MaxBlocks = 8
CHECK_DEADLOCK FALSE
INVARIANT ResultInRegister
