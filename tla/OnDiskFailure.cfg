CONSTANTS
  Threads = {t1, t2, t3}
  Lists = {0, 1}
  NoThread = NoThread
  CodeSize = 1
  AddSizes = {1, 9}
  ResizeSizes = {0, 9}
  Reads = TRUE
  MayFail = TRUE
  MaxCalls = 3
SPECIFICATION Spec
INVARIANTS NoDoubleOwner ContentsKept NoStalePointer
PROPERTY FrozenAfterThrow
CHECK_DEADLOCK FALSE
