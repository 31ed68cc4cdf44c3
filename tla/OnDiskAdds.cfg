CONSTANTS
  Threads = {t1, t2}
  Lists = {0, 1}
  NoThread = NoThread
  CodeSize = 1
  AddSizes = {1, 9}
  ResizeSizes = {}
  Reads = TRUE
  MayFail = FALSE
  MaxCalls = 4
SPECIFICATION FairSpec
INVARIANTS BooksInOrder AddsComplete
PROPERTIES EveryCallReturns LocksImplemented
