SPECIFICATION ObjectSpec
CONSTANTS
  NotANumber = NotANumber
  Numbers = {7}
  Lists = {{}, {"0"}, {"0", "1"}}
  Uids = {1, 2}
  Shortens = TRUE
INVARIANTS
  NoStaleElements
CHECK_DEADLOCK FALSE
