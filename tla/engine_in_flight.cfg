CONSTANTS
  t1 = t1
  t2 = t2
  q1 = q1
  q2 = q2
  q3 = q3
  q4 = q4
  Main = main
  NULL = null
  RecvThreads <- TwoThreads
  Req <- ThreeReqs
  ReqMax = 3
  XidStep = 11
  UMod = 36
  JobsMax = 1
  MaxSends = 4
  Tests <- NullTest
  Faults <- NoFaults
SPECIFICATION Spec
INVARIANTS InFlightAtMostJobs
SYMMETRY Symmetry
CHECK_DEADLOCK FALSE
