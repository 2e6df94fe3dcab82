SPECIFICATION Spec
CONSTANTS
  Tests <- FourTests
  Catalogs <- SmallCatalogs
  Rank <- Ranks
  Duration <- Times
  Hash <- Hashes
  ShardCount = 2
  Standing <- SomeStand
INVARIANTS
  SelectsWhatIsNeeded
  RefusesExactlyCycles
  ShardsHoldDependencies
  NearBest
  PlanStands
