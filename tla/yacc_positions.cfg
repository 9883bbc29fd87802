SPECIFICATION Spec
CONSTANTS
  Texts <- Parsed
  Alphabet <- Names
  StackSize = 2
  MaxTokens = 4
INVARIANT ItemStarts
CHECK_DEADLOCK FALSE
