SPECIFICATION Spec
CONSTANTS
  Threads = {main, io}
  Results = {ok, error}
  MaxCallbacks = 3
  Kinds <- MCKinds
  NoOne = NoOne
  None = None
  Torn = Torn
INVARIANTS
  TypeOK
  Agreement
  RunsOnce
  NoCallbackForgotten
  SerialOrder
PROPERTIES
  EventuallyRun
  CellSpec
CHECK_DEADLOCK FALSE
