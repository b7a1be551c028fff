CONSTANTS
  Peer = {p1, p2}
  Mode = {m1}
  Handler = {h1}
  Caller = {c1}
  Disc = Disc
  NoPeer = NoPeer
  NoMode = NoMode
  BucketSize = 1
  MaxTables = 2
SPECIFICATION Spec
CHECK_DEADLOCK FALSE
PROPERTY TableStays
