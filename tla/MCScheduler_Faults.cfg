SPECIFICATION Spec
CONSTANTS
  a = a  b = b  c = c  d = d  e = e
  w1 = w1  w2 = w2  w3 = w3
  Slots = {w1, w2, w3}
  Catalog = {a, b}
  Polluters <- NoPolluters
  EndsAlone <- PassOrCrash
  EndsPolluted <- PassOrCrash
  Faults = {"spawn", "start", "slow", "mismatch", "idle"}
  Tests = {a, b}
  PlanOrder <- OrderAB
  Dependencies <- Independent
  Resources <- NoResources
  Serial = {}
  Isolated = {}
  Quarantined = {}
  FlakyHistory = {}
  RetryLimit <- OneRetry
  Limited = {}
  Slow = {}
  Replayed = {b}
  ReplaySequence <- ReplayAB
  MaximumWorkers = 2
  RetryMode = "auto"
  BisectOrder = TRUE
  Repeat = 1
  FailFast = 0
  Isolate = FALSE
  RetryFloor = 5
  MaximumProbes = 12
  StartupFailuresToGiveUp = 3
SYMMETRY SlotSymmetry
INVARIANTS
  NoTestForgotten
  BeliefIsTrue
