SPECIFICATION Spec
CONSTANTS
  CurrentVersion = 1
  NewestVersion = 2
  NoContent <- MCNoContent
  Processes = {p1, p2}
  Names = {a, b}
  Limit = 1
SYMMETRY Symmetry
INVARIANTS
  ExistsMeansAccount
CHECK_DEADLOCK FALSE
