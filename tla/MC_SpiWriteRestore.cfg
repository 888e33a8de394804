CONSTANTS
  FlashSize = 8
  Page = 2
  Word = 1
  Sector = 4
  Reserved = 1
  Space = 32
  ImageMax = 5
  Units = {2, 4}
SPECIFICATION Spec
INVARIANT NeighboursRestored
