CONSTANTS
  t1 = t1
  t2 = t2
  nobody = nobody
  m = m
  a = a
  b = b
  again = again
  Threads <- MCThreads
  Nobody = nobody
  NotWritten = unwritten
  MountReply = m
  TestReplies <- MCTestReplies
  Resends <- MCResends
  Latency <- MCLatency
  NoLatency = 9
  Duration = 1
  Opts <- MCOpts
  UsecPerSec = 3
  SamplePeriodUsec = 1
  TscHz = 3
  Slack = 0
  Word = 16
  UsecWord = 8
  MaxOver = 2
  MaxLate = 1
SPECIFICATION FairSpec
INVARIANTS TypeOK CountedOnce WindowExtremes RecordsGrow SummaryAddsUp
PROPERTIES SamplerEnds
