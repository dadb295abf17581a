SPECIFICATION Spec
CONSTANTS
  n1 = n1
  d1 = d1
  u1 = u1
  u2 = u2
  Names <- OneName
  Docs <- OneDoc
  Users <- OneUser
  NoDoc = NoDoc
  FirstUser = u1
  OtherDevice = OtherDevice
  kMaxPendingWrites = 2
  MaxWrites = 2
  MaxElsewhere = 0
  MaxRestarts = 0
  MaxBreaks = 2
CHECK_DEADLOCK FALSE
INVARIANTS
  WaitingIsTimed
  RefusalsCostOneWriteEach
  RefusedIsNotTaken
  TwiceOnlyAfterLoss
