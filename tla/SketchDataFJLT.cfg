SPECIFICATION Spec
CONSTANTS
  Word = 64
  Kinds = {"JLT", "FJLT"}
  Dims <- const_OneDim
  Degree = 2
  MaxSketches = 2
INVARIANT Independent
CHECK_DEADLOCK FALSE
