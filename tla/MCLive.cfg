SPECIFICATION LiveSpec
CONSTANTS
  Queries = {q1, q2}
  Volatile = {q1}
  MaxExecs = 1
  MAX_QUERIES = 1
INVARIANTS LiveTypeOK WidgetsCounted
PROPERTIES SnapshotIsARound TopAfterResort DialsSettle
CHECK_DEADLOCK TRUE
