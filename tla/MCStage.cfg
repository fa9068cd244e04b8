CONSTANTS
  Formats = {"sql", "json", "csv", "parquet", "stdout", "xml"}
  Programs <- MCPrograms
  Values = {1, 2}
  MaxRows = 2
SPECIFICATION SpecStage
INVARIANTS FilesComplete DatasetsStaged
CHECK_DEADLOCK FALSE
