SPECIFICATION FairPageSpec
CONSTANTS
  Control = {h1}
  Pollers = {p1}
  MaxBatches = 1
  MaxWorkers = 1
  Workloads <- MCOneWindow
  MayFinish = TRUE
  MayFail = FALSE
  MayOverflow = FALSE
  NoFile = NoFile
  MaxWindows = 1
  Habits = {}
  MayTimeOut = FALSE
PROPERTIES PauseReturns
CHECK_DEADLOCK FALSE
