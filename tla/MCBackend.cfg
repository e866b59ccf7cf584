SPECIFICATION LiveBackendSpec
CONSTANTS
  c1 = c1
  c2 = c2
  Calls = {c1, c2}
  MaxFlips = 2
  MaxFailures = 2
INVARIANTS
  AnswersAreSound
PROPERTIES
  BackendSettles
CHECK_DEADLOCK FALSE
