SPECIFICATION Spec
CONSTANTS
  Word = 64
  Kinds = {"CWT", "WZT"}
  Dims <- const_OneDim
  Degree = 2
  MaxSketches = 2
INVARIANT ReloadedSame
CHECK_DEADLOCK FALSE
