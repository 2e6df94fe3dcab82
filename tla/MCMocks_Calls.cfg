SPECIFICATION Spec
CONSTANTS
  Threads = {t1, t2}
  Calls <- TheCalls
  Declarations <- TheDeclarations
  MaxExpectations = 3
  MaxCalls = 3
SYMMETRY ThreadSymmetry
INVARIANTS
  CallsGoToFirst
  EachFailureOnce
