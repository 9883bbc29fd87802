SPECIFICATION Spec
CONSTANTS
  MaxAddr = 3
  HeapInit = {2, 3}
  Global = 2
  NFields = 1
  GraySize = 1
  GrayMax = 1
INVARIANT DeadIsUnreachable
