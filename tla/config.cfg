SPECIFICATION FairSpec
CONSTANTS
  t1 = t1
  Titles <- OneTitle
  NoTitle = NoTitle
  DefaultName = DefaultName
  EmptyName = EmptyName
  MaxTemplates = 3
  MaxFetches = 2
  MaxIncidents = 2
CHECK_DEADLOCK FALSE
INVARIANTS
  ConfigTypeOK
  OneFetchAtATime
  TagsAgree
  SuccessIsActivated
PROPERTIES
  MainComesBack
