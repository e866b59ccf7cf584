SPECIFICATION RunnerSpec
CONSTANTS
  g1 = g1
  None = None
  Groups <- OneGroup
  Operations <- AllOperations
  MaxGroups = 1
  MaxFaults = 1
  MaxRuns = 2
INVARIANTS
  GroupsAreSupervised
  EndsInTime
PROPERTIES
  SuccessIsAgreed
  RunnerView
