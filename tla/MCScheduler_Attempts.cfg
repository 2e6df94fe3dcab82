SPECIFICATION Spec
CONSTANTS
  a = a  b = b  c = c  d = d  e = e
  w1 = w1  w2 = w2  w3 = w3
  Slots = {w1, w2}
  Catalog = {a, b}
  Polluters <- APollutesB
  EndsAlone <- ACrashesBFails
  EndsPolluted <- BFails
  Faults = {}
  Tests = {a, b}
  PlanOrder <- OrderAB
  Dependencies <- Independent
  Resources <- NoResources
  Serial = {}
  Isolated = {}
  Quarantined = {b}
  FlakyHistory = {}
  RetryLimit <- TwoRetries
  Limited = {}
  Slow = {}
  Replayed = {}
  ReplaySequence <- NoReplay
  MaximumWorkers = 2
  RetryMode = "always"
  BisectOrder = TRUE
  Repeat = 2
  FailFast = 1
  Isolate = FALSE
  RetryFloor = 3
  MaximumProbes = 12
  StartupFailuresToGiveUp = 3
SYMMETRY SlotSymmetry
INVARIANTS
  TypeOK
  OneJobPerTest
  AttemptsAccounted
  StopsForCause
  CleanEnd
PROPERTIES
  VerdictIsFinal
  StopHandsOutNothing
