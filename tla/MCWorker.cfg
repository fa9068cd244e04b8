SPECIFICATION FairSpec
CONSTANTS
  Items <- MCItems
  RunWeights <- NoWeights
  Retries = 2
  EvalFaults = {"err", "fail"}
  DbFaults = {"err"}
  MaxIters = 2
INVARIANTS
  TypeOK
  CommitsAccounted
  AllOrNothing
  NoOpenTxOutside
  LocalsAvailable
PROPERTIES
  RollbackIsFinal
  ImplementsContract
  CancelStops
