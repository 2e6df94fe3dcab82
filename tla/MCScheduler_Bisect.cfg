SPECIFICATION Spec
CONSTANTS
  a = a  b = b  c = c  d = d  e = e
  w1 = w1  w2 = w2  w3 = w3
  Slots = {w1, w2, w3}
  Catalog = {a, b, c, d, e}
  Polluters <- CPollutesE
  EndsAlone <- Pass
  EndsPolluted <- EFails
  Faults = {}
  Tests = {a, b, c, d, e}
  PlanOrder <- OrderABCDE
  Dependencies <- Independent
  Resources <- NoResources
  Serial = {}
  Isolated = {}
  Quarantined = {}
  FlakyHistory = {}
  RetryLimit <- OneRetry
  Limited = {}
  Slow = {}
  Replayed = {}
  ReplaySequence <- NoReplay
  MaximumWorkers = 2
  RetryMode = "auto"
  BisectOrder = TRUE
  Repeat = 1
  FailFast = 0
  Isolate = FALSE
  RetryFloor = 5
  MaximumProbes = 12
  StartupFailuresToGiveUp = 3
SYMMETRY SlotSymmetry
INVARIANTS
  OrderBugIsNotFlaky
  CulpritIsPolluter
  JobsLimit
