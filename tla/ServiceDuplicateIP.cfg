CONSTANTS
  s1 = s1
  s2 = s2
  s3 = s3
  ip1 = ip1
  ip2 = ip2
  p1 = p1
  d1 = d1
  d2 = d2
  NoIP = NoIP
  NoService = NoService
  NoSelector = NoSelector
  NoEndpoints = NoEndpoints
  Services <- TwoServices
  IPs <- TwoIPs
  Pods <- OnePod
  Deleters <- OneDeleter
  Persistent = TRUE
  MayRestart = TRUE
  MayPruneAll = FALSE
SPECIFICATION Spec
CHECK_DEADLOCK TRUE
INVARIANT DistinctClusterIPs
