SPECIFICATION Spec
CONSTANTS
  None = None
  Procs = {p1, p2}
  Ids = {i1, i2, i3}
  LockAttempts = 2
  MaxQuits = 1
  MaxOffs = 1
INVARIANTS TypeOK FirstLockProtects
PROPERTIES CallsReturn EndedFindingsGo
CHECK_DEADLOCK FALSE
