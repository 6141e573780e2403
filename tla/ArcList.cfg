SPECIFICATION ArcSpec
CONSTANTS
  P = 3
  Sizes <- const_Sizes
  MaxNewlines = 7
  FinalNewline = TRUE
  Short = {}
  MaxShare = 2
  Failing = {1}
  Arcs <- const_Arcs
  Comment = Comment
  Invalid = Invalid
  Symmetrize = TRUE
INVARIANTS TypeOK FullLines AllRead Assembled SendsLanded
PROPERTY Returns
CHECK_DEADLOCK FALSE
