CONSTANTS
  r1 = r1
  r2 = r2
  m1 = m1
  NoOne = NoOne
  Client <- TwoAndOne
  Requests <- TwoRequests
  MayCancel <- TwoAndOne
  MayClose = FALSE
  ReuseTries = 0
SPECIFICATION Spec
CHECK_DEADLOCK FALSE
SYMMETRY Symmetry
INVARIANTS
  OwnAnswer
  InvalidLeavesMap
