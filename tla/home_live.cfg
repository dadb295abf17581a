SPECIFICATION HomeFairSpec
CONSTANTS
  u1 = u1
  Names <- OneName
  Descriptions <- OneText
  NoDescription = "text"
  Amounts <- OnlyZero
  Docs <- Fields
  Users <- OneUser
  NoDoc = NoDoc
  FirstUser = u1
  OtherDevice = OtherDevice
  BadName = BadName
  NotANumber = NotANumber
  NoGrocery = NoGrocery
  kMaxPendingWrites = 10
  MaxWrites = 2
  MaxElsewhere = 0
  MaxIncidents = 1
  MaxUploads = 1
CHECK_DEADLOCK FALSE
PROPERTIES
  ScreenSettles
INVARIANTS
  HomeTypeOK
  PicturesExist
