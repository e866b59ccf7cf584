SPECIFICATION LiveSpec
CONSTANTS
  a = a
  b = b
  Names <- TwoNames
  MaxNames = 1
  MaxChanges = 2
  MaxCalls = 2
  MaxFaults = 1
INVARIANTS
  NoChangeIsMissed
PROPERTIES
  SessionIsFollowed
  Settles
CHECK_DEADLOCK FALSE
