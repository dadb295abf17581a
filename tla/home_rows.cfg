SPECIFICATION HomeSpec
CONSTANTS
  u1 = u1
  Names <- TwoNames
  Descriptions <- OneText
  NoDescription = "text"
  Amounts <- OnlyZero
  Docs <- Fields
  Users <- OneUser
  NoDoc = NoDoc
  FirstUser = u1
  OtherDevice = OtherDevice
  BadName = BadName
  NotANumber = NotANumber
  NoGrocery = NoGrocery
  kMaxPendingWrites = 10
  MaxWrites = 2
  MaxElsewhere = 0
  MaxIncidents = 0
  MaxUploads = 1
CHECK_DEADLOCK FALSE
INVARIANTS
  LastWriteCounts
  RowsAreAsIntended
