SPECIFICATION Spec
CONSTANTS
  P = 3
  Sizes = {6}
  MaxNewlines = 6
  FinalNewline = FALSE
  Short = {}
  MaxShare = 6
  Failing = {}
INVARIANT AllRead
CHECK_DEADLOCK FALSE
