SPECIFICATION FairSpec
CONSTANTS
  j1 = j1  j2 = j2  w1 = w1  w2 = w2  p1 = p1  p2 = p2
  Keys = {j1, j2}
  Producers = {p1, p2}
  Workers = {w1, w2}
  Priority <- MCPriority
  Unhandled = {j2}
  Batch = 2
  MaxRetries = 3
  None = None
  MaxCrashes = 2
  MaxCleanups = 2
INVARIANTS SoleRunner RetryBudget
PROPERTIES SettledIsFinal Drains
CHECK_DEADLOCK FALSE
