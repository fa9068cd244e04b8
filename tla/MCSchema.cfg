CONSTANTS
  Drivers = {"pgx", "mysql", "mssql", "oracle", "spanner", "mongodb"}
  Catalogs <- MCCatalogs
SPECIFICATION Spec
CHECK_DEADLOCK FALSE
INVARIANTS SortExact GeneratedRuns
