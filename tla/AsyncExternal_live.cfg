SPECIFICATION FairSpec
CONSTANTS
  A = A
  B = B
  n1 = n1
  i1 = i1
  i2 = i2
  g1 = g1
  g2 = g2
  NoId = NoId
  Gone = Gone
  Ids <- Named
  NameId = n1
  Specs <- TwoSpecs
  Slots <- TwoSlots
  ProviderIds = FALSE
  Framework = FALSE
  LogicalDelete = FALSE
  Faults <- Transient
  MaxFaults = 1
PROPERTIES
  DeletionCompletes
  SpecApplied
  ErrorCleared
