CONSTANTS
  Thread = {t1, t2}
  Nil = nil
  UserConfig = {c1}
  Default = dflt
  Calls = {"query"}
  MaxCalls = 2
SPECIFICATION Spec
CHECK_DEADLOCK FALSE
INVARIANTS FilenameNullIfNotReady
