SPECIFICATION Spec
CONSTANTS
  Window = 6
  FlakyEventsToEnter = 2
  PassesToLeave = 3
  RecordsPerTest = 7
  Binaries = {1}
PROPERTIES
  ReleasedStaysOut
