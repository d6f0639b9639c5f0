SPECIFICATION PageSpec
CONSTANTS
  Control = {h1}
  Pollers = {p1, p2}
  MaxBatches = 2
  MaxWorkers = 2
  Workloads <- MCOneWindow
  MayFinish = TRUE
  MayFail = FALSE
  MayOverflow = FALSE
  NoFile = NoFile
  MaxWindows = 1
  Habits = {"reloads", "edits"}
  MayTimeOut = FALSE
SYMMETRY MCSymmetry
INVARIANTS PageTypeOK StoppedWhenIdle NoLeakedFile CarefulInv
PROPERTIES KillsOwnRun KeepsPromise
CHECK_DEADLOCK FALSE
