CONSTANTS
  c1 = c1
  c2 = c2
  c3 = c3
  i1 = i1
  i2 = i2
  k1 = k1
  k2 = k2
  l1 = l1
  e1 = e1
  e2 = e2
  h1 = h1
  h2 = h2
  n1 = n1
  n2 = n2
  n3 = n3
  None = None
  Nil = Nil
  Null = Null
  Clients <- TwoClients
  IDs <- TwoIDs
  NewTasks <- MCNewTasks
  TaskUpdates <- MCTaskUpdates
  NewNodes <- MCNewNodes
  NodeUpdates <- MCNodeUpdates
  NewPods <- PodsWithMap
  PodUpdates <- MCPodUpdates
  Selectors <- OneSelector
  Subsets <- TwoSubsets
  Ident <- SameName
  Keys <- MCKeys
  Handlers <- TwoHandlers
  Nodes <- ThreeNodes
  Requests <- MCRequests
  Capacities <- MCCapacities
  Core = 2
  GiB = 2
  Size = 7
  Tries = 4
SPECIFICATION MCSpec
CHECK_DEADLOCK TRUE
SYMMETRY Symmetry
INVARIANTS AllTypesOK EndpointsHaveService TakesTurns
PROPERTIES ImplementsStateStore ImplementsPool
