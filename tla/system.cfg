SPECIFICATION SystemSpec
CONSTANTS
  Procs = {p1,p2}
  MaxFiles = 3
  MaxLogs = 3
  MaxTree = 2
  DbCalls = 2
  DbFaults = 1
  Workers = {w1,w2}
  PoolFiles = 3
  Bytes = {1,3}
  ImportLimit = 4
  Skip = Skip
  Fail = Fail
  Paths <- MCPaths
  ImportsOf <- MCImportsOf
  EdgeEdits = 2
  SourceTexts <- MCSourceTexts
  Trees <- MCTrees
  MaxWalkDepth = 4
  MaxMacroDepth = 2
  ProbeDepth = 1
  BlockBytes = 3
  ToolCalls = {c1,c2,c3}
  Permits = 2
  Window = 2
  MaxClock = 2
  Reporting = {c1}
  Samples = 2
  Commands = {c1,c2}
  MaxTag = 2
  MaxUploads = 2
  MaxFaults = 1
  Runs = {r1,r2}
  Agents <- MCAgents
INVARIANTS
  SystemTypeOK
  ReadIsFresh ImportVerdict EdgesAreSound
  SpanIsExact EvidenceIsExact
  WorksAreBounded BinaryIsRunnable RegistrationsHold
CHECK_DEADLOCK FALSE
