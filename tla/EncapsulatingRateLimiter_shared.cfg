SPECIFICATION LimiterSpec
CONSTANTS
  Requests = {r1, r2}
  Keys = {k1}
  NoKey = NoKey
INVARIANT
  RetryStateShared
