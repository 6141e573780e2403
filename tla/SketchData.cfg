SPECIFICATION Spec
CONSTANTS
  Word = 40
  Kinds <- const_Kinds
  Dims <- const_Dims
  Degree = 2
  MaxSketches = 3
INVARIANTS TypeOK Independent ReloadedSame
CHECK_DEADLOCK FALSE
