CONSTANTS
  Thread = {t1}
  NoThread = none
  NumRows = 2
  Laps = 2
  RowLen = 2
  Size <- MCSize
  Options = {"CLOCK"}
  MaxClaims = 9
  Earlier = {0, 3}
  MaxNew = 3
SPECIFICATION DumpSpec
CHECK_DEADLOCK FALSE
INVARIANTS DumpTypeOK NewestRowsKept WholeLineExact DumpComplete DumpInOrder
PROPERTIES WalkAdvances LiveDumpEnds DumpEnds
