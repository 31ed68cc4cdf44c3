CONSTANTS
  Workers = {1, 2}
  Callers = {1, 2}
  Owner = 1
  Tasks <- MCTasks
  AddSizes = {3}
  Queries = {1, 3}
  K = 2
  MaxCalls = 3
  MaxUses = 4
SPECIFICATION FairSpec
INVARIANTS TasksEndWithCall WorkersFollowIndex SearchSeesAll TotalsAgree
PROPERTIES FlushUndisturbed ExecutorImplemented CallsReturn
