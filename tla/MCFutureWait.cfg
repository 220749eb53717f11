SPECIFICATION Spec
CONSTANTS
  Programs <- MCWaited
  Awaited <- MCWaited
  None = None
PROPERTIES
  WaitReturns
CHECK_DEADLOCK FALSE
