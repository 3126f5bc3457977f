SPECIFICATION Spec
CONSTANTS
  Events <- MCEvents
  IncludeUsage = TRUE
  FrameBound = 4
INVARIANT TypeOK
PROPERTY KeepsPromise
CHECK_DEADLOCK FALSE
