SPECIFICATION Spec
CONSTANTS
  Runs = {r1, r2, r3}
  Faults = {"crash"}
  RunsKept = 3
SYMMETRY RunSymmetry
INVARIANTS
  AllReachTheFile
