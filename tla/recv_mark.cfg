CONSTANTS
  MarkSz = 4
  Lengths <- MCLengths
  LastBits <- OneFragment
  Fragments = 3
  BufSz = 10
  UseMark = TRUE
SPECIFICATION FairSpec
INVARIANTS TypeOK ReturnsRecord InStep BufferBound NoWaitForMark
PROPERTIES Delivers
CHECK_DEADLOCK FALSE
