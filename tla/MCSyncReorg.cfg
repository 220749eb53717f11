SPECIFICATION SafetySpec
CONSTANTS
  LastAddress = 2
  Transactions <- MCTransactions
  Sizes = {1, 2}
  Scenarios <- MCApart
  PageLimit = 2
  MaxHeight = 3
  MaxForks = 1
  MaxSessions = 3
  MaxTroubles = 0
INVARIANTS
  EveryOrphanDeleted
CHECK_DEADLOCK FALSE
