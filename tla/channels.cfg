SPECIFICATION ChannelSpec
CONSTANTS
  Newline = nl
  Bytes = {nl, x}
  BufSize = 3
  OutBufSize = 2
  MaxBlock = 4
  MaxFile = 4
  OutMaxFile = 5
  Raises = TRUE
  Graphs <- AllGraphs
  Writers <- AllMachines
  Readers <- AllReaders
  Address <- Addresses
  TableSize = 2
  Digit = 4
  SmallInt = 2
  MaxWosize32 = 15
INVARIANTS BuffersAreWindows RoundTrip FailsCleanly
PROPERTIES ImplementsFile SettledKept InputInOrder ScanEnds
CHECK_DEADLOCK FALSE
