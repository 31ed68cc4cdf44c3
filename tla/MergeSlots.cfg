CONSTANTS
  NList = 2
  NIl = 1
  MaxEntries = 1
  ShiftIds = FALSE
  MayFail = FALSE
SPECIFICATION Spec
INVARIANT SlotsFree
