CONSTANTS
  WordSize = 32
  Widths = {8}
  Heights = {5}
  MaxWalls = 1
SPECIFICATION MapSpec
INVARIANT MapSound
CHECK_DEADLOCK FALSE
