SPECIFICATION FairSpec
CONSTANTS
  a1 = a1
  a2 = a2
  Accounts <- TwoAccounts
  MaxTaps = 2
INVARIANTS
  AuthTypeOK
  NameNeverGoesToEarlierUser
  NeverSilent
PROPERTIES
  EveryTapEnds
  NamedAsTyped
  FailureIsShown
