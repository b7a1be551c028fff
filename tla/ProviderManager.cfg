CONSTANTS
  k1 = k1
  k2 = k2
  a = a
  b = b
  Key <- TwoKeys
  Provider <- TwoProviders
  Record <- ThreeRecords
  CacheSize = 1
  MaxFaults = 1
SPECIFICATION FairSpec
CHECK_DEADLOCK FALSE
INVARIANTS
  CacheAgrees
  DeadNotServed
PROPERTY
  ExpiredCollected
