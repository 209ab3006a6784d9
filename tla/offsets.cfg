CONSTANTS
  t1 = t1
  t2 = t2
  m = m
  RecvThreads <- TwoThreads
  Main = m
  JobsMax = 3
  Length = 2
  Size = 7
  OffMod = 64
  MaxReads = 6
SPECIFICATION Spec
INVARIANTS TypeOK FirstPass
CHECK_DEADLOCK FALSE
