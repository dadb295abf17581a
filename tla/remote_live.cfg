SPECIFICATION FairSpec
CONSTANTS
  n1 = n1
  d1 = d1
  u1 = u1
  u2 = u2
  Names <- OneName
  Docs <- OneDoc
  Users <- OneUser
  NoDoc = NoDoc
  FirstUser = u1
  OtherDevice = OtherDevice
  kMaxPendingWrites = 1
  MaxWrites = 2
  MaxElsewhere = 1
  MaxRestarts = 0
  MaxBreaks = 1
CHECK_DEADLOCK FALSE
PROPERTIES
  StoreConverges
  ListComesOffline
