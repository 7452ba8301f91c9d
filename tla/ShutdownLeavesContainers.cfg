CONSTANTS
  t1 = t1
  p1 = p1
  Tasks <- OneTask
  Pods <- OnePod
  N = 2
  SuccessThresholds = {0, 2}
  FailureThresholds = {0, 2}
  MaxProbes = 7
SPECIFICATION MCSpec
CHECK_DEADLOCK FALSE
INVARIANT ShutdownCleansUp
