SPECIFICATION FairSpec
CONSTANTS
  MaxAddr = 2
  HeapInit = {1}
  Global = 1
  NFields = 2
  GraySize = 1
  GrayMax = 2
INVARIANT IInv
PROPERTIES CollectionEnds GarbageFreed
