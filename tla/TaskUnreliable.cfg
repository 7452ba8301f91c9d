CONSTANTS
  t1 = t1
  t2 = t2
  n1 = n1
  n2 = n2
  NoNode = NoNode
  Tasks <- OneTask
  Nodes <- TwoNodes
  Probed <- OneTask
  BadProbe <- NoTasks
  Unreliable = TRUE
SPECIFICATION Spec
CHECK_DEADLOCK FALSE
SYMMETRY NodeSymmetry
INVARIANTS Inv CompletedMeansExitedZero
PROPERTY PrunedStaysPruned
