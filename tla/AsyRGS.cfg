SPECIFICATION Spec
CONSTANTS
  Thread = {t1, t2}
  N = 3
  K = 2
  A <- const_A
  B <- const_B
  InitialX <- const_InitialX
  SweepsLim = 2
  SynSweeps = 1
  TolSqr <- const_TolSqr
INVARIANTS TypeOK NoneLost ReportTrue FixedPoint
PROPERTIES FreshDescends Returns
CHECK_DEADLOCK FALSE
