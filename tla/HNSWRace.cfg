CONSTANTS
  Nodes = {0, 1, 2}
  Level <- RaceLevel
  NbNeighbors <- MCNbNeighbors
  Distance <- MCDistance
  Threads = {t1, t2}
  Calls <- RaceCalls
  EfConstruction = 2
  KeepMaxSizeLevel0 = FALSE
  ParallelAbove = 1
SPECIFICATION Spec
INVARIANT NeighborRangeInside
