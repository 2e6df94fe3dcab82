SPECIFICATION FairSpec
CONSTANTS
  Length = 3
  MaxChoice = 3
  MaxValue = 4
  BlockSizes <- TheBlockSizes
  SingleSteps = 2
  Reach = 4
  Budget = 22
INVARIANTS
  ShrunkFails
  NothingHelps
PROPERTIES
  ShrinkEnds
