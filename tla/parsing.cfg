SPECIFICATION ParsingSpec
CONSTANTS
  Texts <- Files
  Alphabet <- Names
  StackSize = 2
  MaxTokens = 7
  Lexdefs <- LexerDefs
  Inputs <- LexerTexts
  MaxChar = 4
  Interval = 1
  BufferSize = 4
  AuxSize = 2
INVARIANTS ReadAsWritten AutomatonIsLALR AcceptsLanguage ValueIsDerivation Precedences ItemPositions LongestMatch
CHECK_DEADLOCK FALSE
