SPECIFICATION FairSpec
CONSTANTS
  MaxTime = 2
  MaxFaults = 0
  Events = {"page.published", "page.unpublished"}
PROPERTIES DuePublished
CHECK_DEADLOCK FALSE
