CONSTANTS
  Size <- MCSize
  ImageMax = 3
  ChunkMax = 2
  OcrPolls = 2
  Cards <- MCCards
SPECIFICATION FairSpec
 
INVARIANT CacheCoherent
INVARIANT OnlyTargetTouched
PROPERTY CommandEnds
INVARIANT CompleteMeansDone
