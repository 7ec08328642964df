SPECIFICATION LifecycleSpec
CONSTANTS
  Unset = Unset
  LastVersion = 2
  Deprecations = {d1}
  MaxEdits = 3
INVARIANT MarkersInSync
CHECK_DEADLOCK FALSE
