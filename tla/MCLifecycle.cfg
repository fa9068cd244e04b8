SPECIFICATION Spec
CONSTANTS
  Commands = {"all", "run", "up", "seed", "deseed", "down"}
  Queries <- MCQueries
INVARIANTS
  InOrder
  LeftClean
  ReportsFailure
