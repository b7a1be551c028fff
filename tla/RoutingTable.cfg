CONSTANTS
  p1 = p1
  p2 = p2
  p3 = p3
  p4 = p4
  p5 = p5
  g1 = g1
  g2 = g2
  us = us
  Peer <- FivePeers
  CPL <- FiveCPL
  MaxCPL = 5
  BucketSize = 2
  Group <- TwoGroups
  AddrCount <- TwoAddrs
  GroupLimit = 3
  ProtectedBuckets = 2
  Trusted <- MayTrust
  KeyBits = 5
  KeyOf <- FiveKeys
  Local <- OurKey
  Self = us
  PrefixBits = 3
  Target <- FewKeys
  Located <- SomeOnly
SPECIFICATION Spec
INVARIANTS
  ConnectionsMatchTable
  UsefulMeansAddable
  FilterAccounts
  NearestIsClosest
  ReplyIsNearest
  RefreshKeysHit
PROPERTY
  KBucketsSpec
