SPECIFICATION Spec
CONSTANTS
  Plain = {p1}
  Tls = {t1, t2}
  None = None
INVARIANTS
  TypeOK
  CompletedOnce
  ErrorTellsWhetherSent
  WholeBodyRead
PROPERTIES
  NoRequestLeftBehind
CHECK_DEADLOCK FALSE
