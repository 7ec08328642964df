SPECIFICATION ParametersSpec
CONSTANTS
  Nil = Nil
  IgnoredFields = {"size"}
  ConditionalIgnoredFields = {"size", "mode", "tags", "net"}
  MaxDisturbances = 2
INVARIANT
  ForProviderKept
CHECK_DEADLOCK FALSE
