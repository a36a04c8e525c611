CONSTANTS
  Thread = {t1, t2, t3}
  Nil = nil
  UserConfig = {c1}
  Default = dflt
  Calls = {"init", "log", "query"}
  MaxCalls = 4
SPECIFICATION FairSpec
CHECK_DEADLOCK FALSE
INVARIANTS TypeOK OneHolder PublishedReady LogSurvives
PROPERTIES HandleFixed EveryCallReturns
