SPECIFICATION Spec
CONSTANTS
  n1 = n1
  d1 = d1
  u1 = u1
  u2 = u2
  Names <- OneName
  Docs <- OneDoc
  Users <- TwoUsers
  NoDoc = NoDoc
  FirstUser = u1
  OtherDevice = OtherDevice
  kMaxPendingWrites = 1
  MaxWrites = 2
  MaxElsewhere = 0
  MaxRestarts = 1
  MaxBreaks = 1
CHECK_DEADLOCK FALSE
INVARIANTS
  RemoteTypeOK
  NeededStreamsAreStarted
  AssertionsHold
  PipelineAgrees
PROPERTIES
  StoreSpec
