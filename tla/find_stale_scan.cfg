SPECIFICATION ReadingSpec
CONSTANTS
  Servers = {p1,p2}
  Dirs = {d1}
  OwnerAttempts = 2
  MaxVersion = 3
  MaxFaults = 1
  Nowhere = Nowhere
  RowKinds <- MCRowKinds
  Base = 2
  PageSizes = {0, 4, 7, 12}
  DefaultSize = 10
  Ceilings = {3, 10}
  MatchCap = 2
  Limits = {0, 2}
  MaxPageRows = 3
  MaxMoves = 1
  LastPath = 4
  FileSizes = {1, 2, 3}
  ParseLimits = {1, 5}
  WindowBytes = 2
  MaxTreeMoves = 4
  Callers = {c1, c2}
  MechanicIds = {x, y}
  Queries = {"q1", "q2"}
  RowCost <- MCRowCost
  EntryCost = 1
  CacheBudget = 7
  SessionCap = 2
  FileCount = 2
  MaxContent = 2
  MaxCalls = 3
  AnalysisWorkers = {w1,w2}
  SourceFiles <- MCSourceFiles
  Extractions <- MCExtractions
  BrokenGrammars = {"python"}
  Cooldown = 2
  MaxItems = 3
  MaxItemBytes = 3
  MaxBytes = 5
  MarkerBytes = 2
  LargeFilesAre = "rust"
  CallLanguages = {"rust"}
INVARIANT AnswersAreCurrent
CHECK_DEADLOCK FALSE
