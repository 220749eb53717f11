SPECIFICATION Spec
CONSTANTS
  LastAddress = 2
  Transactions <- MCTransactions
  Sizes = {1, 2}
  Scenarios <- MCScenarios
  PageLimit = 2
  MaxHeight = 3
  MaxForks = 1
  MaxSessions = 3
  MaxTroubles = 1
INVARIANTS
  TypeOK
  NoGapWhenSettled
  CompleteWhenQuiet
  NoStaleOperation
PROPERTIES
  ComesCloser
  SessionEnds
CHECK_DEADLOCK FALSE
