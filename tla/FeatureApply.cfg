SPECIFICATION Spec
CONSTANTS
  Families <- MCFamilies
  Grids <- MCGrids
  Sizes <- MCSizes
  Left <- MCLeft
  ViewsChecked = FALSE
  MaxCalls = 3
INVARIANTS TypeOK Sketched
PROPERTY Returns
