SPECIFICATION SpecAll
CONSTANTS
  CRDs = {c1, c2}
  Versions = {v1, v2}
  NoVersion = NoVersion
  Objects = {o1, o2}
  Siblings = {c2}
  Broken = {c2}
  Permitted = {c1}
  Steps = 2
  PageSize = 1
  MaxUpgrades = 1
  MaxFaults = 1
  MaxWrites = 1
  Unset = Unset
  LastVersion = 3
  Deprecations = {d1, d2}
  MaxEdits = 4
  NotANumber = NotANumber
  Numbers = {7}
  Lists = {{}, {"0"}, {"0", "1"}}
  Uids = {1, 2}
  Shortens = FALSE
INVARIANTS
  StoredIsListed
  RolesAsConfigured
  LifecycleShown
  OneObject
  ControllerSeesAll
PROPERTY
  MigratedInTheEnd
CHECK_DEADLOCK FALSE
