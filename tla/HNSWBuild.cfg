CONSTANTS
  Nodes = {0, 1, 2, 3, 4, 5}
  Level <- BuildLevel
  NbNeighbors <- MCNbNeighbors
  Distance <- MCDistance
  Threads = {t1, t2}
  Calls <- BuildCalls
  EfConstruction = 2
  KeepMaxSizeLevel0 = FALSE
  ParallelAbove = 1
SPECIFICATION FairSpec
INVARIANTS GraphInOrder NeighborRangeInside NearestLinksBack EntryPointTop NothingLost
PROPERTY GetsBuilt
