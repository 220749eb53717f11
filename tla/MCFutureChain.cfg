SPECIFICATION Spec
CONSTANTS
  Programs <- MCPrograms
  Awaited <- MCAwaited
  None = None
INVARIANTS
  TypeOK
  ChainsMean
  AllOrFailure
  OnlySinksEscape
PROPERTIES
  ChainsComplete
  WaitEnds
CHECK_DEADLOCK FALSE
