CONSTANTS
  a1 = a1
  a2 = a2
  d1 = d1
  e1 = e1
  e2 = e2
  NoData = NoData
  Cleanup = cleanup
  Nil = Nil
  AffiliateIDs = {a1, a2}
  Data = {d1}
  Endpoints = {e1, e2}
  TTLMax = 2
  AffiliatesMax = 1
  AffiliateEndpointsMax = 1
  Handlers = {h1, h2}
  Watches = {w1}
  Quitters = {w1}
  UpdateRequests <- Crowded
  DeleteRequests = {a1}
  affiliateSubBuffer = 1
  ClusterTTL = 2
  MaxNow = 2
  CleanupEnabled = TRUE
SPECIFICATION Spec
SYMMETRY HandlerSymmetry
INVARIANTS FanoutInv NoMissedUpdate ViewsConverge WithinLimits
PROPERTY OnlyExpiredIsPruned
CHECK_DEADLOCK FALSE
