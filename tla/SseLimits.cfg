SPECIFICATION FairSpec
CONSTANTS
  Chunks <- LimitChunks
  MaxLine = 9
  MaxFrame = 6
  MaxBuffer = 24
  MaxTotal = 30
  FirstCap = 4
  SizeMax = 99
  FeedBound = 5
INVARIANTS TypeOK MemoryAccounted WithinLimits LimitsAreExact
PROPERTIES ErrorIsFinal FeedReturns
