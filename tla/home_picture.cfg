SPECIFICATION HomeSpec
CONSTANTS
  u1 = u1
  Names <- OneName
  Descriptions <- OneText
  NoDescription = "text"
  Amounts <- ZeroOne
  Docs <- Fields
  Users <- OneUser
  NoDoc = NoDoc
  FirstUser = u1
  OtherDevice = OtherDevice
  BadName = BadName
  NotANumber = NotANumber
  NoGrocery = NoGrocery
  kMaxPendingWrites = 10
  MaxWrites = 1
  MaxElsewhere = 2
  MaxIncidents = 0
  MaxUploads = 1
CHECK_DEADLOCK FALSE
PROPERTIES
  RowsChangeAsWritten
