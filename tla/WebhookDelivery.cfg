SPECIFICATION FairSpec
CONSTANTS
  MaxAttempts = 3
  MaxTasks = 2
  MaxFaults = 1
  MaxLapses = 2
INVARIANTS OneSender AttemptsCounted
PROPERTIES DeliveredIsFinal Settles
CHECK_DEADLOCK FALSE
