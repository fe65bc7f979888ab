CONSTANTS
  a1 = a1
  a2 = a2
  d1 = d1
  e1 = e1
  e2 = e2
  NoData = NoData
  Cleanup = cleanup
  Nil = Nil
  AffiliateIDs = {a1}
  Data = {d1}
  Endpoints = {e1, e2}
  TTLMax = 2
  AffiliatesMax = 2
  AffiliateEndpointsMax = 2
  Handlers = {h1}
  Watches = {w1}
  Quitters = {w1}
  UpdateRequests <- DataOnly
  DeleteRequests = {}
  affiliateSubBuffer = 1
  ClusterTTL = 2
  MaxNow = 1
  CleanupEnabled = FALSE
SPECIFICATION Spec
INVARIANT NoSendOnClosedChannel
CHECK_DEADLOCK FALSE
