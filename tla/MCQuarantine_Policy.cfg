SPECIFICATION Spec
CONSTANTS
  Window = 4
  FlakyEventsToEnter = 2
  PassesToLeave = 1
  RecordsPerTest = 5
  Binaries = {1, 2}
INVARIANTS
  FlakyIsQuarantined
  PassesRelease
  ReplayFitsLast
PROPERTIES
  KeptOnlyIfPassed
