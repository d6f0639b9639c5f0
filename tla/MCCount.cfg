SPECIFICATION CountSpec
CONSTANTS
  Control = {h1}
  Pollers = {p1}
  MaxBatches = 2
  MaxWorkers = 1
  Workloads <- MCOneWindow
  MayFinish = TRUE
  MayFail = TRUE
  MayOverflow = TRUE
  NoFile = NoFile
  Quotas = {2}
INVARIANTS CountTypeOK DoneIsHeard RowsBalance
PROPERTIES CompletedNeverFalls
CHECK_DEADLOCK FALSE
