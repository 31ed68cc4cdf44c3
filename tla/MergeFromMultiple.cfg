CONSTANTS
  NList = 2
  NIl = 3
  MaxEntries = 2
  ShiftIds = TRUE
  MayFail = TRUE
SPECIFICATION Spec
INVARIANTS StoreIsSources GrowingShardsApart
