CONSTANTS
  Thread = {t1, t2}
  NoThread = none
  NumRows = 1
  Laps = 2
  RowLen = 1
  Size <- MCSize
  Options = {"CLOCK"}
  MaxClaims = 9
  Earlier = {0}
  MaxNew = 3
SPECIFICATION AfterSpec
CHECK_DEADLOCK FALSE
INVARIANTS CleanRowIntact
PROPERTIES WalkAdvances DumpEnds
