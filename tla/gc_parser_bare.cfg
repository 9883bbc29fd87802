SPECIFICATION ParserSpec
CONSTANTS
  MaxAddr = 4
  HeapInit = {1, 2}
  Global = 2
  NFields = 2
  GraySize = 2
  GrayMax = 2
  BareAfterGrowth = TRUE
  StackSize = 2
INVARIANT NoDangling
CHECK_DEADLOCK FALSE
