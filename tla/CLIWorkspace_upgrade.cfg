SPECIFICATION Spec
CONSTANTS
  Specs = {A, B}
  Ids = {i1}
  NoId = NoId
  NameId = i1
  Gone = Gone
  Versions = {v1, v2}
  NoVersion = NoVersion
  Faults <- Upgrades
  MaxFaults = 2
INVARIANT ReadyToUse
CHECK_DEADLOCK FALSE
