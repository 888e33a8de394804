CONSTANTS
  Commands <- MCAllCommands
  ResetPolls = 2
  LateDma = FALSE
SPECIFICATION FairSpec
 
INVARIANT SuccessMovedData
 
 
PROPERTY NoCommandWhileBusy
 
 
