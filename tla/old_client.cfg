CONSTANTS
  IntBits = 16
  PageSize = 512
  UserConfig <- OldConfigs
  FieldsPassed = {4}
  Id <- SmallIds
SPECIFICATION Spec
CHECK_DEADLOCK FALSE
INVARIANTS OldClientInSection
