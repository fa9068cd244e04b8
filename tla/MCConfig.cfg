CONSTANTS
  Depth = 3
  Setups <- MCSetups
  Builtins = {"uniform", "args"}
  EnvVars = {"HOME"}
  Patterns = {"name"}
  Enterprise = {"oracle"}
  Workers = {"w1", "w2"}
  None = None
SPECIFICATION Spec
INVARIANTS SameEnvironments Shares IncludesExact
CHECK_DEADLOCK FALSE
