SPECIFICATION HeapSpec
CONSTANTS
  NYoung = 2
  NOld = 3
  NIds = 3
  NFields = 1
  NRoots = 1
  Threshold = 1
  Reserve = 1
  MaxTable = 2
  MaxWord = 14
  Chunks <- UpChunks
  FirstChunk <- UpFirst
  MaxWosize = 3
  GrowPage = 8
  PacePage = 2048
  GrowIncrements = {1, 3}
  PaceIncrements = {512}
  Percents = {30, 100}
  MaxActive = 5
  MaxSlots = 4
  StackSize = 1
  MaxStackSize = 2
  WordSize = 2
  MaxRoots = 1
  MaxBreaks = 1
  MaxAddr = 4
  ParserChunk = {1, 2}
  ParserEnv = 2
  ParserFields = 2
  GraySize = 2
  GrayMax = 2
  ParserStack = 2
INVARIANTS RefTable NoStale FreeListSound HeapMapped Paced StackDiscipline RaiseTarget PendingSeen NoDangling
PROPERTIES ViewKept InUseKept
CHECK_DEADLOCK FALSE
