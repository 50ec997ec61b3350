SPECIFICATION FairSpec
CONSTANTS
  i1 = i1  i2 = i2  r1 = r1  r2 = r2
  Intents = {i1, i2}
  Requests = {r1, r2}
  Price = 2
  None = None
  MaxFaults = 1
  MaxOthers = 1
  MaxAsked = 3
INVARIANTS PaidMeansCaptured RefundsBacked
PROPERTIES CaptureSeen
CHECK_DEADLOCK FALSE
