SPECIFICATION Spec
CONSTANTS
  ChunkLengths = {1, 2}
  ResponseLimits = {0, 1}
  HealthLimit = 2
  ReceiveBound = 3
  CallBound = 3
INVARIANTS
  BlocksHaveOneOwner
  SpansPointHome
  ErrorsAreThisCalls
  ErrorBodyIsKept
CHECK_DEADLOCK FALSE
