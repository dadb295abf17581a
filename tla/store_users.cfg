SPECIFICATION Spec
CONSTANTS
  n1 = n1
  n2 = n2
  d1 = d1
  d2 = d2
  u1 = u1
  u2 = u2
  Names <- OneName
  Docs <- TwoDocs
  Users <- TwoUsers
  NoDoc = NoDoc
  FirstUser = u1
  OtherDevice = OtherDevice
  kMaxPendingWrites = 2
  MaxWrites = 2
  MaxElsewhere = 1
  MaxIncidents = 2
SYMMETRY Symmetry
CHECK_DEADLOCK FALSE
INVARIANTS
  ListIsFresh
  SettledListIsCloud
  NoWriteIsLost
  AnswersMatch
  WritesKeepTheirOrder
