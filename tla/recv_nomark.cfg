CONSTANTS
  MarkSz = 4
  Lengths <- MCLengths
  LastBits <- OneFragment
  Fragments = 3
  BufSz = 10
  UseMark = FALSE
SPECIFICATION FairSpec
INVARIANTS ReturnsRecord

CHECK_DEADLOCK FALSE
