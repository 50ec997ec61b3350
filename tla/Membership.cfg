SPECIFICATION Spec
CONSTANTS
  Users = {o, a}
  Owner = o
  Superusers = {a}
  Invites = {i1, i2}
  Threads = {t1, t2}
  None = None
  MaxRows = 3
  MaxEdits = 1
INVARIANTS MemberTypeOK TokensBounded UsedOnceByInvited
PROPERTIES RemovedStaysRemoved SuspensionHolds
VIEW MCView
SYMMETRY MCSymmetry
CHECK_DEADLOCK FALSE
