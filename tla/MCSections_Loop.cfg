SPECIFICATION Spec
CONSTANTS
  N = 4
  Nodes <- MCNodes
  Values = 2
  Kinds = {"section", "generator", "again"}
  Filters <- MCNoFilters
  MaxThrows = 0
  AbortAfter = 9
INVARIANT EveryPathOnce
