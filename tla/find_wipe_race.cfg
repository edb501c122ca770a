SPECIFICATION Spec
CONSTANTS
  None = None
  Procs = {p1, p2, p3}
  Ids = {i1, i2, i3}
  LockAttempts = 2
  MaxQuits = 0
  MaxOffs = 0
SYMMETRY Symmetry
PROPERTY NeverWipesAnothers
CHECK_DEADLOCK FALSE
