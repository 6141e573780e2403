SPECIFICATION Spec
CONSTANTS
  Grids <- const_Grids
  Ms <- const_Ms
  Ns <- const_Ns
  Ss <- const_Ss
  Blocksizes = {0, 1, 2}
  Factor = 1
INVARIANTS TypeOK Sketched
PROPERTIES FinishedKept Returns
CHECK_DEADLOCK FALSE
