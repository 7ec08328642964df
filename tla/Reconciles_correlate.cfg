SPECIFICATION SpecAll
CONSTANTS
  r1 = r1
  r2 = r2
  r3 = r3
  k1 = k1
  k2 = k2
  NoKey = NoKey
  Requests <- ThreeRequests
  Keys <- TwoKeys
  MaxFailures = 1
  m1 = m1
  m2 = m2
  m3 = m3
  h1 = h1
  h2 = h2
  MRs <- TwoMRs
  AsyncMRs <- OneAsync
  Handles <- TwoHandles
  TTL = 1
  Null = Null
  Nil = Nil
  Strings <- AllStrings
  Labels <- OneLabel
  Parameters <- ExampleParameters
  Unknown = Unknown
  DisksAreBlocks = FALSE
  MaxConfigured = 2
  IgnoredFields = {"size"}
  ConditionalIgnoredFields = {"size", "mode", "tags", "net"}
  MaxDisturbances = 2
INVARIANT
  OwnValues
CHECK_DEADLOCK FALSE
