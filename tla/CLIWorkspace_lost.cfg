SPECIFICATION Spec
CONSTANTS
  Specs = {A}
  Ids = {i1}
  NoId = NoId
  NameId = i1
  Gone = Gone
  Versions = {v1}
  NoVersion = NoVersion
  Faults <- FailedImports
  MaxFaults = 3
PROPERTY RemovalSignalsDeletion
CHECK_DEADLOCK FALSE
