CONSTANTS
  NanoMod = 64
  SecMod = 128
  TimeMod = 256
  PerMicro = 10
  PerSec = 50
  Second <- MCSecond
SPECIFICATION Spec
CHECK_DEADLOCK FALSE
INVARIANTS TimeKept
