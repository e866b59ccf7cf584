SPECIFICATION Spec
CONSTANTS
  MaxOps = 2
  MaxEdits = 1
  MaxFaults = 2
  MaxCrashes = 1
INVARIANTS
  StoreIsConsistent
PROPERTIES
  AvailableWasValid
CHECK_DEADLOCK FALSE
