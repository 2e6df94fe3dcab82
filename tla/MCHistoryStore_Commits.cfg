SPECIFICATION FairSpec
CONSTANTS
  Runs = {r1, r2, r3}
  Faults = {"crash", "disk", "aside", "damage"}
  RunsKept = 2
INVARIANTS
  OneHolder
  LockHasOwner
PROPERTIES
  KeepsLedger
  CommitEnds
