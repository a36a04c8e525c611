CONSTANTS
  IntBits = 16
  PageSize = 512
  UserConfig <- BigConfigs
  FieldsPassed = {5}
  Id <- SmallIds
SPECIFICATION Spec
CHECK_DEADLOCK FALSE
INVARIANTS SizeIsFootprint
