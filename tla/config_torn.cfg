SPECIFICATION Spec
CONSTANTS
  t1 = t1
  Titles <- OneTitle
  NoTitle = NoTitle
  DefaultName = DefaultName
  EmptyName = EmptyName
  MaxTemplates = 1
  MaxFetches = 2
  MaxIncidents = 1
CHECK_DEADLOCK FALSE
INVARIANTS
  FetchedIsLatest
