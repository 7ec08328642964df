SPECIFICATION LifecycleSpec
CONSTANTS
  Unset = Unset
  LastVersion = 2
  Deprecations = {d1}
  MaxEdits = 5
INVARIANT NoticeShown
CHECK_DEADLOCK FALSE
