SPECIFICATION FairPageSpec
CONSTANTS
  Control = {h1}
  Pollers = {p1}
  MaxBatches = 2
  MaxWorkers = 2
  Workloads <- MCOneWindow
  MayFinish = FALSE
  MayFail = FALSE
  MayOverflow = FALSE
  NoFile = NoFile
  MaxWindows = 1
  Habits = {}
  MayTimeOut = FALSE
PROPERTIES PauseReturns StatsAreTaken PollsAreAnswered
CHECK_DEADLOCK FALSE
