SPECIFICATION SafetySpec
CONSTANTS
  Callers = {c1, c2}
  Accounts = {a, b}
  MaxSessions = 3
  None = None
INVARIANTS
  OneAccountAtATime
CHECK_DEADLOCK FALSE
