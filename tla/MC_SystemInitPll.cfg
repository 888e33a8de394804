SPECIFICATION Spec
CONSTANTS
  SlowPlls = {"PLL4", "PLL6"}
  Boards <- MCBoards
  EyeOffsets <- MCEyeOffsets
  Trims <- MCTrims
CHECK_DEADLOCK FALSE
INVARIANT PllLocked
