CONSTANTS
  Callers = {c1, c2}
  NoCaller = NoCaller
  Batches <- MCBatches
  NThread = 2
  MaxCalls = 3
SPECIFICATION FairSpec
INVARIANTS GenerationsApart BatchRead
PROPERTIES DroppedBatchStops CallsReturn
