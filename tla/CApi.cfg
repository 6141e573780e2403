CONSTANTS
  Handles = {h1, h2, h3}
  Objects = {o1, o2}
  MaxWraps = 2
  Wide = FALSE
  Classes <- MCClasses
  Pickled <- MCPickled
  Exceptions <- MCExceptions
  Matrices <- MCMatrices
  Excluded <- MCExcluded
SPECIFICATION ApiSpec
SYMMETRY Symmetry
INVARIANTS ApiTypeOK DoneAsAsked Owned Survives
