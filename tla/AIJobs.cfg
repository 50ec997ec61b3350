SPECIFICATION AISpec
CONSTANTS
  Keys = {j1, j2}
  Producers = {p1}
  Workers = {w1, w2}
  Priority <- MCPriority
  Unhandled = {}
  Batch = 1
  MaxRetries = 2
  None = None
  MaxCrashes = 1
  MaxCleanups = 1
  MaxRequests = 1
SYMMETRY MCSymmetry
INVARIANTS QuotaOvershoot OutcomeRecorded ProviderBudget
CHECK_DEADLOCK FALSE
