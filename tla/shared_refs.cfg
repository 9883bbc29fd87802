CONSTANTS
  Chunk = 2048
  Share <- RefShares
  Images <- RefImages
  Results <- RefResults
  NGlobals = 2
SPECIFICATION Spec
INVARIANT EvaluatesAsTerm
CHECK_DEADLOCK FALSE
