SPECIFICATION Spec
CONSTANTS
  SlowPlls = {"PLL6"}
  Boards <- MCBoards
  EyeOffsets <- MCEyeOffsets
  Trims <- MCTrims
INVARIANT TouchedRunning
INVARIANT PinsMuxed
INVARIANT FreshAnswers
INVARIANT TrainingReady
INVARIANT NormalOperation
INVARIANT VrefMiddle
INVARIANT SkewKept
PROPERTY SetupEnds
CHECK_DEADLOCK FALSE
