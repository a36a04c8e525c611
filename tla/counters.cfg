CONSTANTS
  Process = {p1, p2}
  UserConfig <- MCUserConfig
  Powers = {1, 2}
  MaxIndex = 1
  Id = {1}
  MaxCell = 6
  HalfInt = 2
  Amount <- MCAmount
  Text = {a, b}
  MaxStarts = 2
  MaxCalls = 2
SPECIFICATION Spec
SYMMETRY Symmetry
CHECK_DEADLOCK FALSE
INVARIANTS TypeOK PrintedCounts LabelWhole 
