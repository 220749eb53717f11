SPECIFICATION Spec
CONSTANTS
  Callers = {c1, c2}
  Accounts = {a, b}
  MaxSessions = 3
  None = None
INVARIANTS
  TypeOK
  LiveNotifier
  Exclusive
  RightResult
PROPERTIES
  EveryCallerTold
CHECK_DEADLOCK FALSE
