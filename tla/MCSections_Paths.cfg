SPECIFICATION FairSpec
CONSTANTS
  N = 4
  Nodes <- MCNodes
  Values = 2
  Kinds = {"section", "generator"}
  Filters <- MCFilters
  MaxThrows = 2
  AbortAfter = 2
INVARIANTS
  NoIllogicalClose
  EveryPathOnce
  FailureStaysLocal
  FollowsFilter
PROPERTIES
  TestCaseEnds
