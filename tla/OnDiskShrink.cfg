CONSTANTS
  Threads = {t1}
  Lists = {0}
  NoThread = NoThread
  CodeSize = 1
  AddSizes = {9}
  ResizeSizes = {1}
  Reads = FALSE
  MayFail = FALSE
  MaxCalls = 2
SPECIFICATION Spec
INVARIANT ContentsKept
