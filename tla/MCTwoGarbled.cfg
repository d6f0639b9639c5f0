SPECIFICATION PageSpec
CONSTANTS
  Control = {h1}
  Pollers = {p1}
  MaxBatches = 2
  MaxWorkers = 1
  Workloads <- MCOneWindow
  MayFinish = FALSE
  MayFail = FALSE
  MayOverflow = FALSE
  NoFile = NoFile
  MaxWindows = 1
  Habits = {"garbles"}
  MayTimeOut = FALSE
INVARIANTS OneSimulation
CHECK_DEADLOCK FALSE
