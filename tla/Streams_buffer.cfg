CONSTANTS
  Stream = {s1, s2}
  Peer = {p1, p2}
  Buffer = {b1, b2}
  NoStream = NoStream
  NoBuffer = NoBuffer
  MaxRetries = 3
SPECIFICATION Spec
CHECK_DEADLOCK FALSE
INVARIANT ReadIsOwn
