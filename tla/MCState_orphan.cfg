CONSTANTS
  a1 = a1
  a2 = a2
  d1 = d1
  e1 = e1
  e2 = e2
  NoData = NoData
  Nil = Nil
  AffiliateIDs = {a1, a2}
  Data = {d1}
  Endpoints = {e1, e2}
  TTLMax = 1
  AffiliatesMax = 1
  AffiliateEndpointsMax = 1
  ClusterIDs = {c1}
  Handlers = {h1, h2}
  UpdateRequests <- OneAffiliate
  DeleteRequests = {}
  WatchRequests = {c1}
  ClusterTTL = 1
  MaxNow = 3
  MaxObjects = 2
  MaxRestarts = 0
SPECIFICATION Spec
INVARIANT UpdateIsInCluster
CHECK_DEADLOCK FALSE
