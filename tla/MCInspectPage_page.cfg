CONSTANTS
  Clusters = {c1, c2, c3}
  TooLong = {c3}
  AffiliateIDs = {a1}
  Values = {v1}
  NoRow = NoRow
  Deleted = Deleted
  None = None
  Updaters = {u1, u2}
  Fetches = {f1, f2}
  subscriberChannelSize = 2
  MaxChanges = 3
  MaxClicks = 2
  MaxBreaks = 2
SPECIFICATION Spec
INVARIANTS TypeOK PageAgrees
PROPERTIES DeletedRowGoes ReconnectShowsAll
CHECK_DEADLOCK FALSE
