SPECIFICATION Spec
CONSTANTS
  Answers <- MCAnswers
  Hash <- MCHash
  Initial <- MCInitial
  ToolErrors <- MCToolErrors
  TurnLimits = {0, 1, 2, 6}
  Outputs = {1, 2}
  MaxArgsPerTurn = 3
  OutputLimits = {0, 6}
  Window = 2
  SizeMax = 7
INVARIANTS
  RequestsAreWellFormed
  OutputBounded
  RepeatsAreCaught
  ResultsReachTheModel
  LastErrorIsThisCalls
CHECK_DEADLOCK FALSE
