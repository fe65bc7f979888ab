CONSTANTS
  a1 = a1
  a2 = a2
  d1 = d1
  e1 = e1
  e2 = e2
  NoData = NoData
  Cleanup = cleanup
  Nil = Nil
  AffiliateIDs = {a1}
  Data = {d1}
  Endpoints = {e1, e2}
  TTLMax = 2
  AffiliatesMax = 1
  AffiliateEndpointsMax = 1
  Handlers = {h1, h2}
  Watches = {w1}
  Quitters = {}
  UpdateRequests <- Shortening
  DeleteRequests = {}
  affiliateSubBuffer = 1
  ClusterTTL = 2
  MaxNow = 2
  CleanupEnabled = TRUE
SPECIFICATION Spec
INVARIANT TypeOK
PROPERTY ExpiredIsForgotten
CHECK_DEADLOCK FALSE
