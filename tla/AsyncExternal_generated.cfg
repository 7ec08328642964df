SPECIFICATION Spec
CONSTANTS
  A = A
  B = B
  n1 = n1
  i1 = i1
  i2 = i2
  g1 = g1
  g2 = g2
  NoId = NoId
  Gone = Gone
  Ids <- Generated
  NameId = i1
  Specs <- TwoSpecs
  Slots <- TwoSlots
  ProviderIds = TRUE
  Framework = TRUE
  LogicalDelete = FALSE
  Faults <- Undisturbed
  MaxFaults = 2
SYMMETRY FullSymmetry
INVARIANT SuccessPromptlyObserved
PROPERTIES
  OnlyConnectForgets
