SPECIFICATION OwnerSpec
CONSTANTS
  Servers = {p1, p2}
  Dirs = {d1}
  OwnerAttempts = 2
  MaxVersion = 3
  MaxFaults = 1
  Nowhere = Nowhere
PROPERTY SweepSparesLive
CHECK_DEADLOCK FALSE
