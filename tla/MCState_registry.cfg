CONSTANTS
  a1 = a1
  a2 = a2
  d1 = d1
  e1 = e1
  e2 = e2
  NoData = NoData
  Nil = Nil
  AffiliateIDs = {a1, a2}
  Data = {d1}
  Endpoints = {e1, e2}
  TTLMax = 1
  AffiliatesMax = 2
  AffiliateEndpointsMax = 1
  ClusterIDs = {c1}
  Handlers = {h1, h2}
  UpdateRequests <- OneEndpoint
  DeleteRequests = {a1}
  WatchRequests = {c1}
  ClusterTTL = 1
  MaxNow = 3
  MaxObjects = 2
  MaxRestarts = 1
SPECIFICATION Spec
INVARIANTS TypeOK LossNeedsRace SavedSurvives
PROPERTY UnusedIsDropped
CHECK_DEADLOCK FALSE
