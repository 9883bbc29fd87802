SPECIFICATION CodeSpec
CONSTANTS
  Chunk = 2048
  Share <- SafeShares
  Images <- TheImages
  Results <- TheResults
  NGlobals = 2
INVARIANTS EvaluatesAsTerm CodeWellFormed ArithmeticExact ConversionsExact EqualityAgrees
PROPERTY LoopsPoll
CHECK_DEADLOCK FALSE
