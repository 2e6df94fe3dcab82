SPECIFICATION FairSpec
CONSTANTS
  a = a  b = b  c = c  d = d  e = e
  w1 = w1  w2 = w2  w3 = w3
  Slots = {w1, w2}
  Catalog = {a, b, c}
  Polluters <- APollutesB
  EndsAlone <- AFatalCHang
  EndsPolluted <- AFatalBFailsCHang
  Faults = {"start", "spawn"}
  Tests = {a, b, c}
  PlanOrder <- OrderABC
  Dependencies <- Independent
  Resources <- SharedByAB
  Serial = {}
  Isolated = {c}
  Quarantined = {}
  FlakyHistory = {}
  RetryLimit <- OneRetry
  Limited = {a, b, c}
  Slow = {}
  Replayed = {}
  ReplaySequence <- NoReplay
  MaximumWorkers = 2
  RetryMode = "auto"
  BisectOrder = TRUE
  Repeat = 1
  FailFast = 0
  Isolate = FALSE
  RetryFloor = 5
  MaximumProbes = 12
  StartupFailuresToGiveUp = 3
PROPERTIES
  RunEnds
