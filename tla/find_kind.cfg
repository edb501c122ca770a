SPECIFICATION Spec
CONSTANTS
  a = a  b = b  t1 = t1  t2 = t2  bin = bin  bad = bad  big = big
  locked = locked  hidden = hidden  p1 = p1  p2 = p2
  Absent = Absent  None = None
  StatOf <- MCStatOf
  Paths = {a}
  Unrep = {}
  Contents = {t1, bin}
  Binary = {bin}
  NonUtf8 = {}
  Oversize = {}
  Unreadable = {}
  Unstatable = {}
  Flaky = {}
  Procs = {p1}
  Version <- MCSameVersion
  Versions = {"1.0"}
  MaxRetries = 1
  MaxCalls = 2
  MaxEdits = 2
  Endless = FALSE
  MaxTampers = 0
INVARIANT AnswerMatchesDisk
CHECK_DEADLOCK FALSE
