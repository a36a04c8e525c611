CONSTANTS
  Thread = {t1, t2}
  NoThread = none
  NumRows = 2
  Laps = 2
  RowLen = 2
  Size <- MCSize
  Options <- MCOptions
  MaxClaims = 3
SPECIFICATION Spec
CHECK_DEADLOCK FALSE
INVARIANTS RowInv WholeItems NewestRowsKept
PROPERTIES LapNeedsFullTurn OverrunOnlyInSharedRow ImplementsCircularLog
