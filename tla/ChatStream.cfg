SPECIFICATION LiveSpec
CONSTANTS
  Raw <- MCRaw
  Plain <- MCPlain
  Unescape <- MCUnescape
  ValidJson <- MCValidJson
  SizeMax = 7
  AccumSize = 2
  Events <- MCEvents
  IncludeUsage = TRUE
  MaxArgs = 3
  FrameBound = 5
INVARIANTS AccumulatorsBounded CompletedArgsAreWhole ReportedCallsAreCompleted LateDeltasFail
PROPERTIES KeepsPromise CallReturns
CHECK_DEADLOCK FALSE
