CONSTANTS
  t1 = t1
  t2 = t2
  q1 = q1
  q2 = q2
  q3 = q3
  q4 = q4
  Main = main
  NULL = null
  RecvThreads <- TwoThreads
  Req <- FourReqs
  ReqMax = 4
  XidStep = 11
  UMod = 32
  JobsMax = 2
  MaxSends = 6
  Tests <- NullTest
  Faults <- NoFaults
SPECIFICATION Spec
INVARIANTS TypeOK ExclusiveRequest CrashNeedsMishap JobsCounted InFlightUnlessMishap TeardownQuiet NoLostWakeup
PROPERTIES ExchangeSpec
SYMMETRY Symmetry
CHECK_DEADLOCK FALSE
