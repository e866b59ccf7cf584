SPECIFICATION Spec
CONSTANTS
  r1 = r1
  r2 = r2
  s1 = s1
  s2 = s2
  Requests <- TwoRequests
  Senders <- TwoSenders
  NoRequest = NoRequest
  MaxPending = 2
  MaxGeneration = 2
INVARIANTS
  Bookkeeping
  GrantIsCurrent
  RunsAreOwned
  QuitLeavesNothing
PROPERTIES
  CallsAreAnswered
  ServiceEnds
