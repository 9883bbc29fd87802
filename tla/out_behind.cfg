SPECIFICATION Spec
CONSTANTS
  Bytes = {x, y}
  BufSize = 2
  MaxBlock = 4
  MaxFile = 5
  Behind = TRUE
  WritesFail = FALSE
PROPERTY ImplementsFile
CHECK_DEADLOCK FALSE
