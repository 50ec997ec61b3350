SPECIFICATION FairSpec
CONSTANTS
  MaxTime = 2
  MaxFaults = 1
  Events = {"page.published"}
INVARIANTS Embargo
PROPERTIES ScheduleKept FirstTimePublished FirstTimeRevalidated
CHECK_DEADLOCK FALSE
