SPECIFICATION JobsSpec
CONSTANTS
  MaxDepth = 7
  Literals <- LiteralsDef
  Texts <- TextsDef
  Rooms = {0, 1, 2, 9}
  SizeBits = 5
  MaxParts = 2
  MaxBytes = 8
  Keys <- KeysDef
  Readings <- ReadingsDef
  ChatRequests <- ChatRequestsDef
  OtherWritings <- OtherWritingsDef
INVARIANTS
  SpansAreInside
  TokensAreTheTexts
  ReadersFindTheMembers
  AnswersAreRead
  ChatRequestsReadBack
  OthersReadBack
CHECK_DEADLOCK FALSE
