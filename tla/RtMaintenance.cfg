CONSTANTS
  p1 = p1
  p2 = p2
  g1 = g1
  g2 = g2
  Nobody = Nobody
  AutoRefresh = TRUE
  Peer <- OnePeer
  Goroutine <- OneGoroutine
  Concurrency = 1
  Threshold = 0
  Request = {}
SPECIFICATION FairSpec
PROPERTIES
  NotFrozenEarly
  PeersHandedOver
  ChangeLookedAt
  CloseReturns
