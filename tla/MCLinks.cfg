SPECIFICATION Spec
CONSTANTS
  mine = mine
  x = x
  y = y
  tok = tok
  no = no
  Indices = {1, 2}
  Names = {mine, x, y}
  Aliases = {tok}
  NoAlias = no
  Own <- OwnLink
  MaxChanges = 3
SYMMETRY Others
INVARIANTS
  FilterIsSound
PROPERTIES
  GuardIsContinuous
CHECK_DEADLOCK FALSE
