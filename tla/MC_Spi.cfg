CONSTANTS
  FlashSize = 8
  Page = 2
  Word = 1
  Sector = 4
  Block = 4
  Reserved = 1
  Space = 32
  ImageMax = 6
  Units = {2, 4}
  Patient = TRUE
SPECIFICATION MCSpec
INVARIANT NothingLost
INVARIANT NeighboursKept
INVARIANT ConsentGiven
PROPERTY CommandEnds
INVARIANT CompleteMeansDone
INVARIANT StreamSaved
