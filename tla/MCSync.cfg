CONSTANTS
  Columns <- MCColumns
  Key = "id"
  Null = Null
  TextOrder <- MCTextOrder
  Number <- MCNumber
  NaN = NaN
  Contents <- MCContents
  Options <- MCOptions
  Draws <- MCDraws
  Failures = TRUE
SPECIFICATION Spec
INVARIANTS VerifiedAgree ReportsExact SidesInStep
PROPERTY Terminates
CHECK_DEADLOCK FALSE
