SPECIFICATION TableSpec
CONSTANTS
  Id = {1, 8}
  Thing = {old, new}
  Null = null
  MinShift = 3
  MaxShift = 5
  Behind = {0}
INVARIANT ContainsTellsTruth
CHECK_DEADLOCK FALSE
