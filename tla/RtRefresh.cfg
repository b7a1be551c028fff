CONSTANTS
  p0 = p0
  p1 = p1
  p4 = p4
  q1 = q1
  q2 = q2
  NoGap = NoGap
  Peer <- Far
  CplOf <- FarCpl
  MaxCpl = 3
  Request <- Two
  Forced <- One
  AutoRefresh = TRUE
SPECIFICATION FairSpec
INVARIANTS
  ForcedIsHonoured
  NothingOverlooked
PROPERTIES
  CycleSpec
  RefreshAnswers
