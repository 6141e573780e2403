SPECIFICATION Spec
CONSTANTS
  Applications <- const_Applications
  Grids <- const_Grids
  Sizes <- const_Sizes
  RowIdxs <- const_RowIdxs
  Paddings = {0, 3}
  Zeros <- const_Zeros
INVARIANTS TypeOK Sketched NoDuplicates ReadsExposed
PROPERTY Returns
CHECK_DEADLOCK FALSE
