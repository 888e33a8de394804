CONSTANTS
  Commands <- MCCommands
  ResetPolls = 1
  LateDma = FALSE
SPECIFICATION Spec
INVARIANT SuccessMetNoError
