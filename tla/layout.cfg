CONSTANTS
  IntBits = 16
  PageSize = 512
  UserConfig <- SmallConfigs
  FieldsPassed = {4, 5}
  Id <- SmallIds
SPECIFICATION Spec
CHECK_DEADLOCK FALSE
INVARIANTS TypeOK RoundsUp SectionsApart AccessInSection TurnOfDistinctRows
