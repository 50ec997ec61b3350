SPECIFICATION SearchSpec
CONSTANTS
  Keys <- MCKeys
  Producers = {p1, p2}
  Workers = {w1, w2}
  Priority <- MCPriority
  Unhandled = {}
  Batch = 1
  MaxRetries = 2
  None = None
  MaxCrashes = 1
  MaxCleanups = 0
  LastMinute = 1
  MaxChanges = 2
SYMMETRY MCSymmetry
INVARIANTS CalmAgrees
CHECK_DEADLOCK FALSE
