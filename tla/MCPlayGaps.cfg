SPECIFICATION FairPageSpec
CONSTANTS
  Control = {h1}
  Pollers = {p1}
  MaxBatches = 1
  MaxWorkers = 2
  Workloads <- MCTwoWindows
  MayFinish = TRUE
  MayFail = FALSE
  MayOverflow = FALSE
  NoFile = NoFile
  MaxWindows = 2
  Habits = {"untidy", "edits", "reloads", "garbles"}
  MayTimeOut = TRUE
PROPERTIES PlayReturns
CHECK_DEADLOCK FALSE
