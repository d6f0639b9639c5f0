SPECIFICATION PageSpec
CONSTANTS
  Control = {h1, h2}
  Pollers = {p1, p2}
  MaxBatches = 2
  MaxWorkers = 1
  Workloads <- MCOneWindow
  MayFinish = FALSE
  MayFail = FALSE
  MayOverflow = FALSE
  NoFile = NoFile
  MaxWindows = 1
  Habits = {"hasty", "reloads", "garbles", "untidy"}
  MayTimeOut = FALSE
SYMMETRY MCAllSymmetry
INVARIANTS TypeOK ReportFileUsable KeptPolling
CHECK_DEADLOCK FALSE
