SPECIFICATION TableSpec
CONSTANTS
  Queries = {q1}
  NoQuery = NoQuery
  MaxDial = 3
  NWorkers = 50
  MaxLen = 1
  MaxPeriods = 2
INVARIANTS DialSetsRate
CHECK_DEADLOCK FALSE
