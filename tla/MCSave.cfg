SPECIFICATION FairProfileSpec
CONSTANTS
  v1 = v1
  v2 = v2
  v3 = v3
  p1 = p1
  p2 = p2
  None = None
  FirstValue = v1
  FirstPassword = p1
  Values <- ThreeValues
  Passwords <- TwoPasswords
  Secrets = 2
  MaxOthers = 1
  MaxSaves = 2
  MaxRefusals = 1
PROPERTIES
  NothingIsOverwritten
  SaveEnds
