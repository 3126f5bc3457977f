SPECIFICATION Spec
CONSTANTS
  Raw <- MCRaw
  Plain <- MCPlain
  Unescape <- MCUnescape
  ValidJson <- MCValidJson
  SizeMax = 7
  AccumSize = 2
  Events <- TextEvents
  IncludeUsage = FALSE
  MaxArgs = 0
  FrameBound = 2
INVARIANT ParseErrorsAreReported
CHECK_DEADLOCK FALSE
