SPECIFICATION Spec
CONSTANTS
  Commands <- MCCommands
  MaxHops = 2
  MaxRunnables = 1
  MaxEvents = 2
  None = None
INVARIANTS
  TypeOK
  ExitAbandonsNoCall
  CallsNeverOverlap
  NoLostWakeup
PROPERTIES
  CommandEnds
CHECK_DEADLOCK FALSE
