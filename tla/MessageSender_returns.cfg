CONSTANTS
  r1 = r1
  r2 = r2
  m1 = m1
  NoOne = NoOne
  Client <- OneAndOne
  Requests <- OneRequest
  MayCancel <- OneAndOne
  MayClose = TRUE
  ReuseTries = 0
SPECIFICATION FairSpec
CHECK_DEADLOCK FALSE
PROPERTIES
  RpcSpec
  CallsReturn
