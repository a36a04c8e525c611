CONSTANTS
  Thread = {t1, t2}
  Utility = {u}
  NumVars = 1
  Id = {0, 1}
  Value = {0, 1}
  InitValue = {0}
  Nonsense = nonsense
  Name = {"stopflag", "interval", "int1"}
  NoName = none
  Src = {"stopflag", none}
  Shadowed = {"interval"}
  Indexed <- MCIndexed
  Command <- MCCommand
  MaxCalls = 3
  MaxRuns = 1
SPECIFICATION FairSpec
CHECK_DEADLOCK FALSE
INVARIANTS TypeOK NameReaches
PROPERTIES ShownStaysShown SettledForGood StopFlagSeen
