SPECIFICATION FairSpec
CONSTANTS
  MaxGeneration = 6
  MaxForeign = 1
  MaxFaults = 2
INVARIANTS
  SidebarFollowsWishes
PROPERTIES
  EditorEndsOnce
CHECK_DEADLOCK FALSE
