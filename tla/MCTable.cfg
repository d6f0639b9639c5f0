SPECIFICATION TableSpec
CONSTANTS
  Queries = {q1, q2, q3}
  NoQuery = NoQuery
  MaxDial = 4
  NWorkers = 1
  MaxLen = 3
  MaxPeriods = 2
INVARIANTS TableTypeOK DrawsMatchDials AttemptsCount TokensAreLongest
CHECK_DEADLOCK FALSE
