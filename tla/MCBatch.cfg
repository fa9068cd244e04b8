CONSTANTS
  Setups <- MCSetups
  Counts <- MCCounts
  Sizes = {0, 1, 2, 3}
  Lists = {0, 1, 2, 3}
  FirstBatch = 2
SPECIFICATION SpecBatch
CHECK_DEADLOCK FALSE
INVARIANTS RowsOnce TxAllOrNothing DatasetsWritten
