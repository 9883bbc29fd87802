INIT Init
NEXT Next
CONSTANTS
  Graphs <- AllGraphs
  Writers <- OneMachine
  Readers <- OneMachine
  Address <- Addresses
  TableSize = 2
  Digit = 4
  SmallInt = 2
  MaxWosize32 = 15
INVARIANT Returned
CHECK_DEADLOCK FALSE
