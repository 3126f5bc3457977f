SPECIFICATION Spec
CONSTANTS
  Events <- MCEvents
  IncludeUsage = TRUE
  FrameBound = 4
INVARIANT CallbackFailurePropagates
CHECK_DEADLOCK FALSE
