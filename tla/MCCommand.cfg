SPECIFICATION FairSpec
CONSTANTS
  s1 = s1
  s2 = s2
  c1 = c1
  None = None
  Sidebars <- TwoSidebars
  Clients <- OneClient
  Backlog = 1
  MaxStarts = 3
  MaxFaults = 1
INVARIANTS
  SocketIsExclusive
PROPERTIES
  CommandsTakeEffect
CHECK_DEADLOCK FALSE
