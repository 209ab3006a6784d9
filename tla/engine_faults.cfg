CONSTANTS
  t1 = t1
  t2 = t2
  q1 = q1
  q2 = q2
  q3 = q3
  q4 = q4
  Main = main
  NULL = null
  RecvThreads <- OneThread
  Req <- ThreeReqs
  ReqMax = 3
  XidStep = 11
  UMod = 36
  JobsMax = 2
  MaxSends = 5
  Tests <- DecodingTests
  Faults <- AllFaults
SPECIFICATION Spec
INVARIANTS ReplyFindsRequest ExclusiveRequest CrashNeedsMishap JobsCounted TeardownQuiet
SYMMETRY Symmetry
CHECK_DEADLOCK FALSE
