SPECIFICATION WireSpec
CONSTANTS
  Chunks <- MCChunks
  Types <- MCTypes
  Datas <- MCDatas
  Pieces = {6, 40}
  MaxLine = 10
  MaxFrame = 5
  MaxBuffer = 0
  MaxTotal = 0
  FirstCap = 64
  SizeMax = 99
  FeedBound = 6
  WriterMaxLine = 10
  WriterMaxFrame = 5
  OutCap = 32
  WriteBound = 2
INVARIANTS RoundTrip SameLimitsAgree
CHECK_DEADLOCK FALSE
