SPECIFICATION Spec
CONSTANTS
  MaxActivities = 2
  Observed = {"inactive", "active", "conflict"}
  MaxFlips = 1
  MaxEvents = 3
  MaxFaults = 1
INVARIANTS
  OneOperation
  EveryWaitIsOwned
CHECK_DEADLOCK FALSE
