SPECIFICATION FairSpec
CONSTANTS
  a = a  b = b  c = c  d = d  e = e
  w1 = w1  w2 = w2  w3 = w3
  Slots = {w1, w2}
  Catalog = {a, b}
  Polluters <- APollutesB
  EndsAlone <- AMayHang
  EndsPolluted <- AMayHangBFails
  Faults = {}
  Tests = {a, b}
  PlanOrder <- OrderAB
  Dependencies <- Independent
  Resources <- NoResources
  Serial = {}
  Isolated = {}
  Quarantined = {}
  FlakyHistory = {}
  RetryLimit <- OneRetry
  Limited = {a, b}
  Slow = {}
  Replayed = {}
  ReplaySequence <- NoReplay
  MaximumWorkers = 1
  RetryMode = "auto"
  BisectOrder = TRUE
  Repeat = 1
  FailFast = 0
  Isolate = FALSE
  RetryFloor = 5
  MaximumProbes = 12
  StartupFailuresToGiveUp = 3
PROPERTIES
  HangIsStopped
CHECK_DEADLOCK FALSE
