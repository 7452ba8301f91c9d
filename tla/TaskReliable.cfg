CONSTANTS
  t1 = t1
  t2 = t2
  n1 = n1
  n2 = n2
  NoNode = NoNode
  Tasks <- TwoTasks
  Nodes <- OneNode
  Probed <- OneTask
  BadProbe <- NoTasks
  Unreliable = FALSE
SPECIFICATION FairSpec
CHECK_DEADLOCK TRUE
INVARIANTS InStep SettledStatusIsTrue
PROPERTIES StatusNeverGoesBack PruneSparesUnfinishedTasks ContainerIDKept OutcomeStands ImplementsFlow
