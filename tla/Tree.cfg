SPECIFICATION FairSpec
CONSTANTS
  Nodes = {n1, n2, n3, n4, n5, n6, n7, n8, n9, n10, n11, n12, n13, n14}
  NULL = NULL
  Texts = {1, 2, 3, 4}
  Fold <- MCFold
  Registrations <- MCRegistrations
  MaxTweaks = 3
  Room = 2
INVARIANTS
  TreeTypeOK
  NothingLost
  OnePointer
  TopLevelInOrder
  CopyIsExact
  InStep
PROPERTIES
  SortEnds
  IsCatalogue
  TransferEnds
CHECK_DEADLOCK FALSE
