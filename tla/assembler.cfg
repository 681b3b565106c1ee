SPECIFICATION MSpec
CONSTANTS
  PageSize = 16
  VADDR_START = 67256320
  HeaderSize = 7
  DataSize = 20
  StrSize = 10
  BufferSize = 10
  WordSize = 27
  MaxLines = 5
  MaxCalls = 2
  Pipes = FALSE
  Texts <- MCTexts
  Written <- MCWritten
  Typed <- MCTyped
CHECK_DEADLOCK FALSE
INVARIANTS JumpsReachLabels DecodedAsWritten DataLoaded RoutinesDoTheirWork
PROPERTY RoutinesReturn
