CONSTANTS
  Thread = {t1, t2}
  NoThread = none
  NumRows = 2
  Laps = 2
  RowLen = 1
  Size <- MCSize
  Options = {"THREADID"}
  MaxClaims = 3
SPECIFICATION Spec
SYMMETRY Symmetry
CHECK_DEADLOCK FALSE
INVARIANTS OldestIsOverwritten
