SPECIFICATION Spec
CONSTANTS
  Cases <- MCCases
  BlockSize = 2
INVARIANTS TypeOK Delivered Unmixed NoneLeft
PROPERTY Returns
CHECK_DEADLOCK FALSE
