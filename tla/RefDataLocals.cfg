CONSTANTS
  Workers = {w1, w2}
  Source = source
  Refs = {"regions"}
  InitQueries = {"accounts"}
  InitType <- MCInitType
  RefRows <- MCRefRows
  DbRows <- MCDbRows
  Values = {1, 2}
  Locals = {"x"}
  None = None
  MaxCalls = 3
  MaxQueries = 2
SPECIFICATION Spec
SYMMETRY Symmetry
INVARIANT AllLocals
CHECK_DEADLOCK FALSE
