SPECIFICATION Spec
CONSTANTS
  r1 = r1
  r2 = r2
  r3 = r3
  k1 = k1
  k2 = k2
  NoKey = NoKey
  Requests <- OneRequest
  Keys <- OneKey
  MaxFailures = 1
INVARIANTS
  OverridesCleanedUp
CHECK_DEADLOCK FALSE
