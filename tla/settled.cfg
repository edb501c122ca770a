SPECIFICATION Spec
CONSTANTS
  a = a  b = b  t1 = t1  t2 = t2  bin = bin  bad = bad  big = big
  locked = locked  hidden = hidden  p1 = p1  p2 = p2
  Absent = Absent  None = None
  StatOf <- MCStatOf
  Paths = {a, b}
  Unrep = {}
  Contents = {t1, t2}
  Binary = {}
  NonUtf8 = {}
  Oversize = {}
  Unreadable = {}
  Unstatable = {}
  Flaky = {}
  Procs = {p1, p2}
  Version <- MCTwoVersions
  Versions = {"1.0", "1.1"}
  MaxRetries = 1
  MaxCalls = 1
  MaxEdits = 1
  Endless = FALSE
  MaxTampers = 0
SYMMETRY PathSymmetry
INVARIANTS ManifestCoversIndexed RowsMatchPack
PROPERTY CommitsWhatHeld
CHECK_DEADLOCK FALSE
