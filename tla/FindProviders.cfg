CONSTANTS
  p1 = p1
  p2 = p2
  Peer <- Peers
  Dist <- Distances
  K = 2
  Alpha = 2
  Beta = 1
  Provider = {a, b}
  Count = {0, 2}
  Routine = Routine
SPECIFICATION FairSpec
CHECK_DEADLOCK FALSE
INVARIANTS
  NoSenderAfterClose
  ResultsBounded
PROPERTIES
  LookupSpec
  SearchEnds
