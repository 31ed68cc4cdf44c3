CONSTANTS
  NList = 2
  Codes <- MCCodes
  Assign <- MCAssign
  Ids = {0, 1, 2}
  NThreads = 2
  MaxBatch = 2
  MaxVectors = 3
  MaxCalls = 3
SPECIFICATION Spec
INVARIANTS DirectMapExact MapsInOrder
PROPERTY StoreImplemented
CHECK_DEADLOCK FALSE
