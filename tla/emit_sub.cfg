SPECIFICATION FSpec
CONSTANTS
  StackSize = 60
  Locations <- MCLocations
  Constants <- MCConstants
  Operations = {"add", "sub", "imulq", "idivq"}
  SpillCount = 2
  Admit = {"sub in place"}
  Passed <- MCPassed
  Placed <- MCPlaced
  MaxSteps = 1
  MaxInstructions = 2
  MaxArgs = 2
CHECK_DEADLOCK FALSE
INVARIANT ValuesKept
