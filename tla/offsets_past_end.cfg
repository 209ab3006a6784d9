CONSTANTS
  t1 = t1
  t2 = t2
  m = m
  RecvThreads <- OneThread
  Main = m
  JobsMax = 1
  Length = 2
  Size = 5
  OffMod = 64
  MaxReads = 4
SPECIFICATION Spec
INVARIANTS ReadsInFile
CHECK_DEADLOCK FALSE
