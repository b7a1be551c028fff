CONSTANTS
  p1 = p1
  p2 = p2
  p3 = p3
  p4 = p4
  Peer <- FourPeers
  Dist <- FourDistances
  K = 3
  Alpha = 2
  Beta = 1
SPECIFICATION FairSpec
CHECK_DEADLOCK FALSE
INVARIANTS
  AtMostAlphaInFlight
  OnlyFailuresEvict
  CompletedMeansAsked
PROPERTY
  LookupReturns
