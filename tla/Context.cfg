SPECIFICATION ContextSpec
CONSTANTS
  Rank = {1, 2}
  Word = 8
  Sizes <- const_Sizes
  MaxCalls = 4
  MayExhaust = FALSE
INVARIANTS ContextTypeOK Disjoint Synchronized
PROPERTIES ImplementsSharedStream
CHECK_DEADLOCK FALSE
