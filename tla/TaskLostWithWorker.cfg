CONSTANTS
  t1 = t1
  t2 = t2
  n1 = n1
  n2 = n2
  NoNode = NoNode
  Tasks <- OneTask
  Nodes <- TwoNodes
  Probed <- NoTasks
  BadProbe <- NoTasks
  Unreliable = TRUE
SPECIFICATION FairSpec
CHECK_DEADLOCK FALSE
PROPERTY ScheduledTaskEnds
