CONSTANTS
  t1 = t1
  t2 = t2
  q1 = q1
  q2 = q2
  q3 = q3
  q4 = q4
  Main = main
  NULL = null
  RecvThreads <- OneThread
  Req <- TwoReqs
  ReqMax = 2
  XidStep = 11
  UMod = 32
  JobsMax = 1
  MaxSends = 3
  Tests <- NullTest
  Faults <- Eof
SPECIFICATION FairSpec
PROPERTIES Ends
CHECK_DEADLOCK FALSE
