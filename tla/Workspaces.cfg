SPECIFICATION SpecAll
CONSTANTS
  Specs = {A, B}
  Ids = {i1, i2}
  NoId = NoId
  NameId = i1
  Gone = Gone
  Versions = {v1}
  NoVersion = NoVersion
  Faults <- AllButUpgrades
  MaxFaults = 2
  MaxStarts = 2
  MaxStoppers = 2
INVARIANTS
  TypeOK
  StopNeverBlocks
PROPERTIES
  FilesUntouched
  NothingLeftBehind
  DeletionCompletes
  AppliedInTheEnd
  DeadIsForgotten
CHECK_DEADLOCK FALSE
