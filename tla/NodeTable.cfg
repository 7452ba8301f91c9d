CONSTANTS
  w1 = w1
  Workers <- OneWorker
  HeartbeatInterval = 2
  HeartbeatTimeout = 6
  CheckInterval = 2
  MaxRetries = 5
  Persistent = FALSE
  Restarts = TRUE
SPECIFICATION FairSpec
CHECK_DEADLOCK TRUE
INVARIANTS Inv StaleNodeIsOffline LiveWorkerIsOnline
PROPERTIES PruneSparesLiveWorkers PrunedNodeStaysAway DeadNodeGoesOffline LiveNodeComesBack
