CONSTANTS
  d1 = d1
  N = 2
  Deleters = {d1}
SPECIFICATION FairSpec
CHECK_DEADLOCK FALSE
INVARIANTS Inv SucceededMeansAllExitedZero FinishedPodIsCleared UntrackedPodIsStopped
PROPERTIES ExecutionEnds PodFollowsFlow
