CONSTANTS
  Nodes = {0, 1, 2, 3, 4}
  Level <- MCLevel
  NbNeighbors <- MCNbNeighbors
  Distance <- MCDistance
  Tables <- MCTables
  EntryPoint = 4
  Queries = {0, 2, 3}
  K = 2
  EfSearches = {2, 5}
  Selections <- MCSelections
  Methods = {"bounded", "steps", "unbounded", "navix"}
  StartNodes = 1
  CostPercent = 130
  VisitedLimit = 3
SPECIFICATION Spec
INVARIANTS TypeOK HeapHoldsNearest ResultsNearest WideSearchExact SearchEnds
