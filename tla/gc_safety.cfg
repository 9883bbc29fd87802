SPECIFICATION Spec
CONSTANTS
  MaxAddr = 3
  HeapInit = {1, 2}
  Global = 1
  NFields = 1
  GraySize = 1
  GrayMax = 1
INVARIANTS NoDangling CollectorAsserts DeadIsUnreachable
PROPERTIES FullMajorReclaims DeadStaysDead ImplementsStore
