SPECIFICATION KeptSpec
CONSTANTS
  Results = {r1, r2, r3}
  Readers = {d1}
  RowSizes = {1, 2}
  Budget = 2
  Grace = 0
  BatchRows = 2
  BatchBytes = 2
  MaxRows = 2
  MaxClock = 1
  Projects = {a, b}
  ConfigFiles <- MCConfigFiles
  Environs <- MCEnvirons
  MemInfos <- MCMemInfos
  Tables <- MCTables
  SqliteMax = 7
  MaxKb = 100
  ParseDefault = 2
  ChosenProfiles = {"none", "lean", "adaptive"}
  Notes = {n1, n2}
  NotedFiles = {nf}
  LinesOf <- MCLinesOf
  Titles = {nt}
  Bodies = {nb}
  Ranges <- MCRanges
  MaxPublished = 2
  MaxEntries = 2
  MaxSessions = 2
  MaxTime = 2
SYMMETRY Symmetry
INVARIANTS AdmittedIsHeld ResultsAreWhole LimitsAreAsSet FindingsAreSound
PROPERTIES ReclaimIsFair
CHECK_DEADLOCK FALSE
