SPECIFICATION SchedulerSpec
CONSTANTS
  m1 = m1
  m2 = m2
  m3 = m3
  h1 = h1
  h2 = h2
  MRs <- TwoMRs
  AsyncMRs <- OneAsync
  Handles <- OneHandle
  TTL = 1
INVARIANT
  RunsAttached
