SPECIFICATION FSpec
CONSTANTS
  StackSize = 60
  Locations <- MCLocations
  Constants <- MCConstants
  Operations = {"add", "sub", "imulq", "idivq"}
  SpillCount = 2
  Admit = {}
  Passed <- MCPassed
  Placed <- MCPlaced
  MaxSteps = 1
  MaxInstructions = 2
  MaxArgs = 2
CHECK_DEADLOCK FALSE
INVARIANTS ValuesKept ArgumentsInPlace StackPointerInFrame SeenAsMeant
