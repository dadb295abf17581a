SPECIFICATION FairSpec
CONSTANTS
  u1 = u1
  u2 = u2
  Users <- OneUser
  Nobody = Nobody
  MaxModels = 6
  MaxSignIns = 1
  MaxIncidents = 1
CHECK_DEADLOCK FALSE
INVARIANTS
  ScreensTypeOK
  HomeIsAlive
  ListenersAreServed
PROPERTIES
  EveryModelHears
