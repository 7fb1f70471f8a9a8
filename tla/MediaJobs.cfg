SPECIFICATION FairSpec
CONSTANTS
  MaxRequests = 2
  Ids = {p, v}
  p = p
  v = v
  VideoIds = {v}
  Asks <- Asked
  First = a
  Second = b
  MaxStray = 1
  Yields = {1}
  Nobody = Nobody
INVARIANTS
  OneModelLoaded
PROPERTIES
  OwnerStops
  CancelEnds
CHECK_DEADLOCK FALSE
