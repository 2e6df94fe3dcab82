SPECIFICATION Spec
CONSTANTS
  a = a  b = b  c = c  d = d  e = e
  w1 = w1  w2 = w2  w3 = w3
  Slots = {w1, w2, w3}
  Catalog = {a, b, c, d}
  Polluters <- NoPolluters
  EndsAlone <- AFatalBHang
  EndsPolluted <- AFatalBHang
  Faults = {"exit"}
  Tests = {a, b, c, d}
  PlanOrder <- OrderABCD
  Dependencies <- CAfterAD
  Resources <- SharedByAB
  Serial = {c}
  Isolated = {b}
  Quarantined = {}
  FlakyHistory = {}
  RetryLimit <- NoRetryOfC
  Limited = {a, b, c, d}
  Slow = {a}
  Replayed = {}
  ReplaySequence <- NoReplay
  MaximumWorkers = 2
  RetryMode = "auto"
  BisectOrder = FALSE
  Repeat = 1
  FailFast = 0
  Isolate = FALSE
  RetryFloor = 5
  MaximumProbes = 12
  StartupFailuresToGiveUp = 3
SYMMETRY SlotSymmetry
INVARIANTS
  Exclusion
  IsolatedAlone
  DependenciesRespected
  VerdictIsTrue
CHECK_DEADLOCK FALSE
