SPECIFICATION CutSpec
CONSTANTS
  Chunks <- CutChunks
  MaxLine = 0
  MaxFrame = 0
  MaxBuffer = 0
  MaxTotal = 0
  FirstCap = 64
  SizeMax = 99
  FeedBound = 6
  LinesFeedBound = 5
  Utf8FeedBound = 4
INVARIANTS
  EventsAreTheStreams
  KeepsTheRest
