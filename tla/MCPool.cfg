SPECIFICATION PoolSpec
CONSTANTS
  NWorkers = 2
  MaxSends = 2
INVARIANTS PoolTypeOK NoStaleReady PauseStops RunsLatest NoOrphans
PROPERTIES RequestsReturn KeepsPoolPromise
CHECK_DEADLOCK TRUE
