CONSTANTS
  s1 = s1
  s2 = s2
  s3 = s3
  ip1 = ip1
  ip2 = ip2
  p1 = p1
  d1 = d1
  d2 = d2
  NoIP = NoIP
  NoService = NoService
  NoSelector = NoSelector
  NoEndpoints = NoEndpoints
  Services <- OneService
  IPs <- TwoIPs
  Pods <- OnePod
  Deleters <- TwoDeleters
  Persistent = FALSE
  MayRestart = TRUE
  MayPruneAll = TRUE
SPECIFICATION FairSpec
CHECK_DEADLOCK TRUE
PROPERTY GonePodLeavesEndpoints
