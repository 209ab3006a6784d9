CONSTANTS
  t1 = t1
  t2 = t2
  m = m
  r1 = r1
  r2 = r2
  r3 = r3
  none = none
  RecvThreads <- MCRecvThreads
  Main = m
  Reqs <- MCReqs
  NoThread = none
  JobsMax = 5
  MaxSpurious = 2
SPECIFICATION FairSpec
INVARIANTS TypeOK Exclusive WaitersCounted NoLostWakeup
PROPERTIES AllJobsStart PoolSpec
