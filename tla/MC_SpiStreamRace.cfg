CONSTANTS
  FlashSize = 8
  Page = 2
  Block = 4
  Reserved = 1
  Space = 16
  ImageMax = 6
  Patient = FALSE
SPECIFICATION Spec
INVARIANT LastPageSaved
